------------------------------ MODULE LogEntry ------------------------------
(***************************************************************************)
(* parse_log_entry() of common/plugin_control.c: how a data line becomes   *)
(* the log entry a plug-in is given, or a bad log.  Every field may be     *)
(* invalid and every allocation may fail, after which the function jumps   *)
(* into a ladder of free() calls.                                          *)
(*                                                                         *)
(* The text of a line matters to how it is split; after that, fields are   *)
(* chosen as they are parsed, and only sizes and call types have values.   *)
(* A uint64_t has Width bits for 64, a double Mantissa bits for 53.        *)
(***************************************************************************)
EXTENDS Integers, Sequences, SequencesExt

CONSTANTS
    MaxLine,        \* bound on the length of a line
    FIELD_MAX,      \* number of fields of an entry
    CALL_TYPE_MAX,  \* number of call types
    MaxCallTypes,   \* bound on the call types named in an entry
    Width, Mantissa,
    Thousand,       \* 1000
    MaxLogEntries,  \* bound on the lines of a behaviour
    Null            \* a null pointer

ASSUME LogEntryAssumption ==
    /\ MaxLine \in Nat /\ FIELD_MAX \in Nat /\ MaxLogEntries \in Nat
    /\ CALL_TYPE_MAX \in Nat /\ MaxCallTypes \in Nat \ {0}
    /\ Mantissa \in Nat \ {0} /\ Width \in Nat /\ Mantissa < Width
    /\ Thousand \in Nat /\ Thousand * Thousand * Thousand < 2 ^ Mantissa

(***************************************************************************)
(* line_split_and_unescape(): the loop that counts the fields, and the one *)
(* that copies them.                                                       *)
(***************************************************************************)
Chars == {"comma", "backslash", "n", "newline", "other"}

(* Wrong: an escaped comma counts.                                         *)
CountEveryComma(s) ==
    IF s = <<>> THEN 0 ELSE 1 + Len(SelectSeq(s, LAMBDA c : c = "comma"))

(* The character to be read when k are left.                               *)
Read(s, k) == s[Len(s) - k + 1]

CountLoop(s) ==
    LET Count[k \in 0 .. Len(s)] ==
            IF k = 0 THEN 1
            ELSE IF Read(s, k) = "backslash" /\ k > 1 THEN Count[k - 2]
            ELSE IF Read(s, k) = "comma" THEN 1 + Count[k - 1]
            ELSE Count[k - 1]
    IN  Count

CountFields(s) == IF s = <<>> THEN 0 ELSE CountLoop(s)[Len(s)]

Unescape(c) == IF c = "n" THEN "newline" ELSE c

Put(c, fields) == Cons(Cons(c, Head(fields)), Tail(fields))

CopyLoop(s) ==
    LET Copy[k \in 0 .. Len(s)] ==
            IF k = 0 THEN << <<>> >>
            ELSE IF Read(s, k) = "backslash" /\ k = 1 THEN << <<"backslash">> >>
            ELSE IF Read(s, k) = "backslash" THEN Put(Unescape(Read(s, k - 1)), Copy[k - 2])
            ELSE IF Read(s, k) = "comma" THEN Cons(<<>>, Copy[k - 1])
            ELSE Put(Read(s, k), Copy[k - 1])
    IN  Copy

Fields(s) == IF s = <<>> THEN <<>> ELSE CopyLoop(s)[Len(s)]

(***************************************************************************)
(* parse_size(): the product is computed and compared in doubles.          *)
(***************************************************************************)
Units == {"us", "ms", "s", "B", "kB", "MB", "GB", "", "k", "M"}

UnitClass(u) ==
    IF u \in {"us", "ms", "s"} THEN "time"
    ELSE IF u \in {"", "k", "M"} THEN "count" ELSE "size"

UnitScale(u) ==
    CASE u \in {"us", "B", ""}  -> 1
      [] u \in {"ms", "kB", "k"} -> Thousand
      [] u \in {"s", "MB", "M"}  -> Thousand * Thousand
      [] u = "GB"                -> Thousand * Thousand * Thousand

UINT64_MAX == 2 ^ Width - 1
SSIZE_MAX  == 2 ^ (Width - 1) - 1
UInt64     == 0 .. UINT64_MAX

(* The double nearest to x, an even one between two.                       *)
Double(x) ==
    IF x < 2 ^ Mantissa THEN x
    ELSE LET e == CHOOSE k \in 1 .. 3 * Width :
                    2 ^ (Mantissa + k - 1) <= x /\ x < 2 ^ (Mantissa + k)
             q == x \div 2 ^ e
             twice == 2 * (x % 2 ^ e)
             up == twice > 2 ^ e \/ (twice = 2 ^ e /\ q % 2 = 1)
         IN  (IF up THEN q + 1 ELSE q) * 2 ^ e

Limit(u) == IF UnitClass(u) = "size" THEN SSIZE_MAX ELSE UINT64_MAX

(* Wrong: the product is computed in integers.                             *)
ScaledInIntegers(value, u) ==
    LET product == (value * UnitScale(u)) % 2 ^ Width
    IN  {IF product > Limit(u) THEN Limit(u) ELSE product}

(* The values *size may have; the conversion of a double that is too large *)
(* for a uint64_t is undefined.                                            *)
Scaled(value, u) ==
    LET product == Double(Double(value) * UnitScale(u))
    IN  IF product > Double(Limit(u)) THEN {Limit(u)}
        ELSE IF product <= UINT64_MAX THEN {product}
        ELSE UInt64

(***************************************************************************)
(* The steps of parse_log_entry(), each with the label it jumps to when it *)
(* fails.  A step of Allocations claims memory under its name.             *)
(***************************************************************************)
HeadSteps == <<
    <<"comma_split", "fail_split_commas">>,
    <<"field_count", "fail_split_comma_fields">>,
    <<"hash_split", "fail_split_hashes">>,
    <<"hash_count", "fail_split_hash_fields">>,
    <<"log_entry", "fail_log_alloc">>,
    <<"scope", "fail_log_scope">>,
    <<"contract", "fail_log_contract">>,
    <<"strptime", "fail_log_strptime">>,
    <<"mktime", "fail_log_mktime">>,
    <<"localtime_r", "fail_log_localtime">>,
    <<"label", "fail_log_label">>,
    <<"path", "fail_log_path">>,
    <<"fstype", "fail_log_fstype">>,
    <<"fsname", "fail_log_fsname">>,
    <<"fshost", "fail_log_fshost">>,
    <<"call_type_split", "fail_log_call_types_split">>,
    <<"call_types", "fail_log_call_type">>,
    <<"call_type_names", "fail_log_call_type_names">> >>

TailSteps == <<
    <<"size_range_split", "fail_log_size_range_split">>,
    <<"size_min", "fail_log_size_range">>,
    <<"size_max", "fail_log_size_range">>,
    <<"size_range", "fail_log_size_range">>,
    <<"measurement", "fail_log_measurement">>,
    <<"threshold_str", "fail_log_threshold_str">>,
    <<"threshold", "fail_log_allowed">>,
    <<"timeframe", "fail_log_allowed">>,
    <<"measured_str", "fail_log_measured_str">>,
    <<"measured", "fail_log_observed">>,
    <<"measured_time", "fail_log_observed">>,
    <<"full_hostname", "fail_log_fullhost">>,
    <<"hostname", "fail_log_host">>,
    <<"pid", "fail_log_pid">>,
    <<"cpu", "fail_log_cpu">>,
    <<"command", "fail_log_command">>,
    <<"file", "fail_log_filename">>,
    <<"job_group_id", "fail_log_group">>,
    <<"job_id", "fail_log_job">>,
    <<"mpi_rank", "fail_log_mpi_rank">>,
    <<"sequence", "fail_log_sequence">> >>

Steps == HeadSteps \o TailSteps

CallTypes == 0 .. CALL_TYPE_MAX - 1

Splits == {"comma_split", "hash_split", "call_type_split", "size_range_split"}

(* What mistral_destroy_log_entry() frees.                                 *)
EntryParts ==
    {"log_entry", "label", "path", "fstype", "fsname", "fshost", "size_range",
     "threshold_str", "measured_str", "command", "file", "job_group_id",
     "job_id", "hostname", "full_hostname"}

Allocations == Splits \cup EntryParts

(* The end of the function: labels, and what is freed between them.        *)
Ladder == <<
    "fail_log_sequence", "fail_log_mpi_rank", "job_id",
    "fail_log_job", "job_group_id", "fail_log_group", "file",
    "fail_log_filename", "command",
    "fail_log_command", "fail_log_cpu", "fail_log_pid", "hostname",
    "fail_log_host", "full_hostname",
    "fail_log_fullhost", "fail_log_observed", "measured_str",
    "fail_log_measured_str", "fail_log_allowed", "threshold_str",
    "fail_log_threshold_str", "fail_log_measurement", "size_range",
    "fail_log_size_range", "size_range_split",
    "fail_log_size_range_split", "fail_log_call_type_names",
    "fail_log_call_type", "fail_log_call_types", "call_type_split",
    "fail_log_call_types_split", "fshost", "fail_log_fshost", "fsname",
    "fail_log_fsname", "fstype", "fail_log_fstype", "path",
    "fail_log_path", "label",
    "fail_log_label", "fail_log_localtime", "fail_log_mktime",
    "fail_log_strptime", "fail_log_contract", "fail_log_scope", "log_entry",
    "fail_log_alloc", "fail_split_hash_fields", "hash_split",
    "fail_split_hashes", "fail_split_comma_fields", "comma_split",
    "fail_split_commas" >>

FreedFrom(label) ==
    LET at == CHOOSE i \in DOMAIN Ladder : Ladder[i] = label
    IN  Range(SubSeq(Ladder, at, Len(Ladder))) \cap Allocations

VARIABLES
    pc,             \* "idle", "parse", "check", "fail", "stored" or "crashed"
    line,           \* the text while it is being split
    step,           \* the step of parse_log_entry() to be taken
    held,           \* memory that is claimed
    wild,           \* memory freed that was not claimed
    text,           \* the call types as the line names them
    call_type_names,\* the name given to the entry's call types
    mask_root,      \* the tree of names, a function from sets of call types
    shutdown,       \* mistral_shutdown() was called
    parsed,         \* the last size parsed, or Null
    bad_logs,       \* calls of mistral_received_bad_log
    logs            \* calls of mistral_received_log

tree  == <<mask_root, shutdown>>
names == <<text, call_type_names, tree>>
calls == <<bad_logs, logs>>
vars  == <<pc, line, step, held, wild, names, parsed, calls>>

Init ==
    /\ pc = "idle" /\ line = <<>> /\ step = 0
    /\ held = {} /\ wild = {}
    /\ text = <<>> /\ call_type_names = Null
    /\ mask_root = [m \in {} |-> Null] /\ shutdown = FALSE
    /\ parsed = Null
    /\ bad_logs = 0 /\ logs = 0

StepName  == IF step \in DOMAIN Steps THEN Steps[step][1] ELSE "end"
(* Wrong: the jump misses the release of the call types.                   *)
StepLabelTooFar ==
    IF StepName = "call_type_names" THEN "fail_log_call_types_split"
    ELSE Steps[step][2]

StepLabel == Steps[step][2]

At(name) == pc = "parse" /\ StepName = name

parse_log_entry ==
    /\ pc = "idle" /\ ~shutdown /\ bad_logs + logs < MaxLogEntries
    /\ pc' = "parse" /\ step' = 1
    /\ line' \in UNION {[1 .. n -> Chars] : n \in 0 .. MaxLine}
    /\ UNCHANGED <<held, wild, names, parsed, calls>>

Succeed ==
    /\ step' = step + 1
    /\ held' = held \cup ({StepName} \cap Allocations)
    /\ UNCHANGED <<pc, wild, calls>>

GoToLabel ==
    /\ pc' = "fail"
    /\ UNCHANGED <<step, held, wild, calls>>

SizeSteps == {"size_min", "size_max", "threshold", "timeframe", "measured",
              "measured_time"}

(* Any step may fail: an allocation, or a field that makes no sense.       *)
Plain == {Steps[i][1] : i \in DOMAIN Steps}
            \ (SizeSteps \cup {"field_count", "call_types", "call_type_names"})

TakeStep ==
    /\ pc = "parse" /\ StepName \in Plain
    /\ Succeed \/ GoToLabel
    /\ UNCHANGED <<line, names, parsed>>

CheckFieldCount ==
    /\ At("field_count")
    /\ IF CountFields(line) < FIELD_MAX THEN GoToLabel ELSE Succeed
    /\ line' = <<>>
    /\ UNCHANGED <<names, parsed>>

ReadCallTypes ==
    /\ At("call_types")
    /\ \/ GoToLabel /\ UNCHANGED text
       \/ /\ text' \in UNION {[1 .. n -> CallTypes] : n \in 1 .. MaxCallTypes}
          /\ Succeed
    /\ UNCHANGED <<line, call_type_names, tree, parsed>>

(***************************************************************************)
(* mistral_get_call_type_name(): the names are built once for each set of  *)
(* call types and kept in a tree.  A node is put in the tree before its    *)
(* name; when any of this fails the plug-in shuts down, and no entry after *)
(* this one meets a node without a name.                                   *)
(***************************************************************************)
(* Wrong: the names in the order of the line.                              *)
BuildNameAsWritten(mask) == text

BuildName(mask) ==
    LET Name[j \in 0 .. CALL_TYPE_MAX] ==
            IF j = 0 THEN <<>>
            ELSE IF j - 1 \in mask THEN Append(Name[j - 1], j - 1)
            ELSE Name[j - 1]
    IN  Name[CALL_TYPE_MAX]

mistral_get_call_type_name ==
    /\ At("call_type_names")
    /\ LET mask == Range(text)
           Insert(name) == mask_root' = [m \in DOMAIN mask_root \cup {mask} |->
                                           IF m = mask THEN name ELSE mask_root[m]]
       IN  \/ /\ mask \in DOMAIN mask_root
              /\ call_type_names' = mask_root[mask]
              /\ IF mask_root[mask] = Null THEN GoToLabel ELSE Succeed
              /\ UNCHANGED tree
           \/ /\ mask \notin DOMAIN mask_root
              /\ call_type_names' = BuildName(mask)
              /\ Insert(BuildName(mask)) /\ Succeed /\ UNCHANGED shutdown
           \/ /\ mask \notin DOMAIN mask_root       \* strdup() fails
              /\ Insert(Null)
              /\ GoToLabel /\ shutdown' = TRUE /\ UNCHANGED call_type_names
           \/ /\ GoToLabel /\ shutdown' = TRUE
              /\ UNCHANGED <<call_type_names, mask_root>>
    /\ UNCHANGED <<line, text, parsed>>

(***************************************************************************)
(* The sizes.  A range has a minimum and a maximum, either of which may be *)
(* missing; an empty field makes strcmp() follow a null pointer.           *)
(***************************************************************************)
parse_size ==
    /\ pc = "parse" /\ StepName \in SizeSteps
    /\ \/ GoToLabel /\ UNCHANGED parsed
       \/ /\ \E value \in UInt64, u \in Units : \E size \in Scaled(value, u) :
                parsed' = [value |-> value, unit |-> u, size |-> size]
          /\ pc' = "check"
          /\ UNCHANGED <<step, held, wild, calls>>
    /\ UNCHANGED <<line, names>>

(* The caller looks at the unit; a minimum of 0 is in bytes whatever it was.*)
UnitFits ==
    CASE StepName = "size_min" -> UnitClass(parsed.unit) = "size" \/ parsed.size = 0
      [] StepName = "size_max" -> UnitClass(parsed.unit) = "size"
      [] StepName \in {"timeframe", "measured_time"} -> UnitClass(parsed.unit) = "time"
      [] OTHER -> TRUE

CheckUnit ==
    /\ pc = "check"
    /\ parsed' = Null
    /\ \/ /\ UnitFits /\ pc' = "parse" /\ step' = step + 1
          /\ UNCHANGED <<held, wild, calls>>
       \/ ~UnitFits /\ GoToLabel
    /\ UNCHANGED <<line, names>>

RangeWithoutBound ==
    /\ At("size_min") \/ At("size_max")
    /\ Succeed
    /\ UNCHANGED <<line, names, parsed>>

EmptyRange ==
    /\ At("size_min")
    /\ pc' = "crashed"
    /\ UNCHANGED <<line, step, held, wild, names, parsed, calls>>

(* The entry is handed to the plug-in, and the pieces of the line freed.   *)
HandOver ==
    /\ At("end")
    /\ pc' = "stored" /\ step' = 0
    /\ held' = held \ Splits /\ wild' = wild \cup (Splits \ held)
    /\ logs' = logs + 1
    /\ UNCHANGED <<line, names, parsed, bad_logs>>

mistral_destroy_log_entry ==
    /\ pc = "stored" /\ pc' = "idle"
    /\ held' = held \ EntryParts /\ wild' = wild \cup (EntryParts \ held)
    /\ call_type_names' = Null /\ text' = <<>>
    /\ UNCHANGED <<line, step, tree, parsed, calls>>

CleanUp ==
    /\ pc = "fail" /\ pc' = "idle"
    /\ LET freed == FreedFrom(StepLabel)
       IN  held' = held \ freed /\ wild' = wild \cup (freed \ held)
    /\ bad_logs' = bad_logs + 1
    /\ step' = 0 /\ line' = <<>>
    /\ text' = <<>> /\ call_type_names' = Null
    /\ UNCHANGED <<tree, parsed, logs>>

Next ==
    \/ parse_log_entry \/ TakeStep \/ CheckFieldCount \/ ReadCallTypes
    \/ mistral_get_call_type_name \/ parse_size \/ CheckUnit
    \/ RangeWithoutBound \/ EmptyRange \/ HandOver \/ mistral_destroy_log_entry \/ CleanUp

Spec == Init /\ [][Next]_vars

(***************************************************************************)
(* Properties                                                              *)
(***************************************************************************)

(* Whatever fails, the ladder frees what was claimed, all of it and nothing*)
(* else; and the plug-in's mistral_destroy_log_entry() frees the rest.     *)
HeapBalanced == wild = {} /\ (pc = "idle" => held = {})

(* line_split_and_unescape(): the two loops agree on the number of fields, *)
(* the copies fit in the memory claimed for them, and the fields are those *)
(* that, written with escapes (commas, backslashes and newlines) and       *)
(* separated by commas, give a line that means the same.                   *)
Escaped(c) ==
    CASE c \in {"comma", "backslash"} -> <<"backslash", c>>
      [] c = "newline"     -> <<"backslash", "n">>
      [] OTHER             -> <<c>>

(* How the last k characters of a field, and the last k fields, are        *)
(* written; and the bytes the last k fields take.                          *)
FieldLoop(f) ==
    LET Text[k \in 0 .. Len(f)] ==
            IF k = 0 THEN <<>> ELSE Escaped(Read(f, k)) \o Text[k - 1]
    IN  Text

WriteLoop(fields) ==
    LET Text(f) == FieldLoop(f)[Len(f)]
        Line[k \in 0 .. Len(fields)] ==
            IF k = 0 THEN <<>>
            ELSE IF k = 1 THEN Text(Read(fields, k))
            ELSE Text(Read(fields, k)) \o <<"comma">> \o Line[k - 1]
    IN  Line

Written(fields) == WriteLoop(fields)[Len(fields)]

BytesLoop(fields) ==
    LET Bytes[k \in 0 .. Len(fields)] ==
            IF k = 0 THEN 0 ELSE Len(Read(fields, k)) + 1 + Bytes[k - 1]
    IN  Bytes

SplitExactly ==
    line # <<>> =>
        LET fields == Fields(line)
        IN  /\ Len(fields) = CountFields(line)
            /\ BytesLoop(fields)[Len(fields)] <= Len(line) + 1
            /\ Fields(Written(fields)) = fields

(* An entry's call types are named in one order and once each, in whatever *)
(* order the line has them: two entries with the same set of call types    *)
(* have the same name, the one built here or one found in the tree.        *)
NamesNormalised ==
    call_type_names # Null =>
        /\ Range(call_type_names) = Range(text)
        /\ \A i, j \in DOMAIN call_type_names :
            i < j => call_type_names[i] < call_type_names[j]

(* A size is the product of its number and its unit, up to the precision   *)
(* of a double, as long as that is clearly within the limit of its class;  *)
(* clearly above it, it is the limit.                                      *)
ScaledRight ==
    parsed # Null =>
        LET exact == parsed.value * UnitScale(parsed.unit)
            ulp   == exact \div 2 ^ (Mantissa - 1)
            off   == parsed.size - exact
        IN  /\ exact + ulp < Limit(parsed.unit) => off \in -ulp .. ulp
            /\ exact - ulp > Limit(parsed.unit) + 1 => parsed.size = Limit(parsed.unit)
=============================================================================
