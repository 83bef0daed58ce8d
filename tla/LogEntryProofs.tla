--------------------------- MODULE LogEntryProofs ---------------------------
(***************************************************************************)
(* Theorems about how a log entry is parsed: for lines of any length, any  *)
(* number of call types and entries, and whatever allocation or field      *)
(* makes parse_log_entry() give up.                                        *)
(***************************************************************************)
EXTENDS LogEntry, SequenceTheorems, FiniteSetTheorems, FunctionTheorems,
        NaturalsInduction, WellFoundedInduction, TLAPS

(***************************************************************************)
(* Induction and recursion                                                 *)
(*                                                                         *)
(* The library's induction theorems take an operator; here the property    *)
(* is the set of the numbers that have it, and a recursive function is     *)
(* shown to exist before it is used.                                       *)
(***************************************************************************)

(* A set with 0 and the successor of every member holds every number.      *)
LEMMA NatSet ==
    ASSUME NEW S, 0 \in S, \A k \in Nat : k \in S => k + 1 \in S
    PROVE  Nat \subseteq S
<1> DEFINE T == Nat \ S
<1>1. SUFFICES ASSUME T # {} PROVE FALSE
  OBVIOUS
<1>2. PICK a \in T : \A b \in T : <<b, a>> \notin OpToRel(<, Nat)
  <2>1. T \subseteq Nat
    OBVIOUS
  <2> HIDE DEF T
  <2> QED BY <1>1, <2>1, WFMin, NatLessThanWellFounded, Zenon
<1>3. a \in Nat \ {0} /\ a - 1 \in Nat
  OBVIOUS
<1>4. a - 1 \in T
  BY <1>3
<1>5. <<a - 1, a>> \in Nat \X Nat /\ <<a - 1, a>>[1] < <<a - 1, a>>[2]
  BY <1>3
<1>6. <<a - 1, a>> \in OpToRel(<, Nat)
  BY <1>5, Zenon DEF OpToRel
<1> QED BY <1>2, <1>4, <1>6, Zenon

(* A loop that runs n times and keeps what it computes: f[k] depends on    *)
(* the last two values.                                                    *)
Before(k) == IF k = 1 THEN 0 ELSE k - 2

Follows(f, n, b, G) ==
    f[0] = b /\ \A k \in 1 .. n : f[k] = G[k][f[k - 1]][f[Before(k)]]

Agrees(f, g, n) ==
    /\ f[0] = g[0]
    /\ \A k \in 1 .. n :
        f[k - 1] = g[k - 1] /\ f[Before(k)] = g[Before(k)] => f[k] = g[k]

LEMMA Recursion ==
    ASSUME NEW n \in Nat, NEW V, NEW b \in V, NEW G \in [1 .. n -> [V -> [V -> V]]]
    PROVE  \E f \in [0 .. n -> V] : Follows(f, n, b, G)
<1> DEFINE Loop(m, f) == f[0] = b /\ \A k \in 1 .. m : f[k] = G[k][f[k - 1]][f[Before(k)]]
           S == {m \in Nat : m <= n => \E f \in [0 .. m -> V] : Loop(m, f)}
<1>1. 0 \in S
  <2> DEFINE f == [i \in 0 .. 0 |-> b]
  <2>1. f \in [0 .. 0 -> V] /\ f[0] = b
    OBVIOUS
  <2> HIDE DEF f
  <2>2. Loop(0, f)
    BY <2>1
  <2> QED BY <2>1, <2>2
<1>2. ASSUME NEW m \in Nat, m \in S, m + 1 <= n
      PROVE  \E g \in [0 .. m + 1 -> V] : Loop(m + 1, g)
  <2>1. PICK f \in [0 .. m -> V] : Loop(m, f)
    <3>1. \E f \in [0 .. m -> V] : Loop(m, f)
      <4>1. m <= n
        BY <1>2
      <4> HIDE DEF Loop
      <4> QED BY <1>2, <4>1
    <3> QED BY <3>1
  <2> DEFINE new == G[m + 1][f[m]][f[Before(m + 1)]]
             g == [i \in 0 .. m + 1 |-> IF i = m + 1 THEN new ELSE f[i]]
  <2>2. new \in V
    <3>1. m + 1 \in 1 .. n /\ m \in 0 .. m /\ Before(m + 1) \in 0 .. m
      BY <1>2 DEF Before
    <3>2. f[m] \in V /\ f[Before(m + 1)] \in V
      BY <3>1
    <3> QED BY <3>1, <3>2
  <2>3. g \in [0 .. m + 1 -> V] /\ \A i \in 0 .. m : g[i] = f[i]
    BY <2>2
  <2>4. g[m + 1] = new
    OBVIOUS
  <2> HIDE DEF g
  <2>5. ASSUME NEW k \in 1 .. m + 1 PROVE g[k] = G[k][g[k - 1]][g[Before(k)]]
    <3>1. k - 1 \in 0 .. m /\ Before(k) \in 0 .. m
      BY DEF Before
    <3>2. g[k - 1] = f[k - 1] /\ g[Before(k)] = f[Before(k)]
      BY <2>3, <3>1
    <3>3. CASE k = m + 1
      BY <2>4, <3>2, <3>3
    <3>4. CASE k # m + 1
      <4>1. k \in 1 .. m /\ k \in 0 .. m
        BY <3>4
      <4>2. f[k] = G[k][f[k - 1]][f[Before(k)]]
        BY <2>1, <4>1
      <4> QED BY <2>3, <3>2, <4>1, <4>2
    <3> QED BY <3>3, <3>4
  <2>6. g[0] = b
    BY <2>1, <2>3
  <2> QED BY <2>3, <2>5, <2>6
<1>3. \A m \in Nat : m \in S => m + 1 \in S
  <2> HIDE DEF Loop
  <2> QED BY <1>2
<1>4. n \in S
  <2> HIDE DEF S
  <2> QED BY <1>1, <1>3, NatSet
<1> QED BY <1>4 DEF Follows

(* What two such loops compute is the same as long as it depends on the    *)
(* same things.                                                            *)
LEMMA SameLoop ==
    ASSUME NEW n \in Nat, NEW f, NEW g, Agrees(f, g, n)
    PROVE  \A k \in 0 .. n : f[k] = g[k]
<1> DEFINE S == {m \in Nat : m <= n => \A k \in 0 .. m : f[k] = g[k]}
<1>1. 0 \in S
  BY DEF Agrees
<1>2. ASSUME NEW m \in Nat, m \in S, m + 1 <= n, NEW k \in 0 .. m + 1 PROVE f[k] = g[k]
  <2>1. \A i \in 0 .. m : f[i] = g[i]
    BY <1>2
  <2>2. m + 1 \in 1 .. n /\ m + 1 - 1 = m /\ m \in 0 .. m /\ Before(m + 1) \in 0 .. m
    BY <1>2 DEF Before
  <2>3. f[m + 1] = g[m + 1]
    BY <2>1, <2>2 DEF Agrees
  <2> QED BY <2>1, <2>3
<1>3. \A m \in Nat : m \in S => m + 1 \in S
  BY <1>2
<1>4. n \in S
  <2> HIDE DEF S
  <2> QED BY <1>1, <1>3, NatSet
<1> QED BY <1>4

(* A property of every round of such a loop.                               *)
LEMMA LoopInduction ==
    ASSUME NEW n \in Nat, NEW S, 0 \in S,
           \A k \in 1 .. n : k - 1 \in S /\ Before(k) \in S => k \in S
    PROVE  \A k \in 0 .. n : k \in S
<1> DEFINE T == {m \in Nat : m <= n => \A k \in 0 .. m : k \in S}
<1>1. 0 \in T
  OBVIOUS
<1>2. ASSUME NEW m \in Nat, m \in T, m + 1 <= n, NEW k \in 0 .. m + 1 PROVE k \in S
  <2>1. \A i \in 0 .. m : i \in S
    BY <1>2
  <2>2. m + 1 \in 1 .. n /\ m + 1 - 1 = m /\ m \in 0 .. m /\ Before(m + 1) \in 0 .. m
    BY <1>2 DEF Before
  <2>3. m + 1 \in S
    BY <2>1, <2>2
  <2> QED BY <2>1, <2>3
<1>3. \A m \in Nat : m \in T => m + 1 \in T
  BY <1>2
<1>4. n \in T
  <2> HIDE DEF T
  <2> QED BY <1>1, <1>3, NatSet
<1> QED BY <1>4

(***************************************************************************)
(* The ladder of free() calls                                              *)
(***************************************************************************)

(* What is claimed by the steps before the n-th, and freed from the n-th   *)
(* rung of the ladder on.                                                  *)
Claimed(n) == {Steps[i][1] : i \in 1 .. n - 1} \cap Allocations
Freed(n)   == {Ladder[i] : i \in n .. 55} \cap Allocations

LEMMA Lengths ==
    /\ DOMAIN Steps = 1 .. 39
    /\ Ladder \in Seq({Ladder[i] : i \in 1 .. 55}) /\ Len(Ladder) = 55 /\ DOMAIN Ladder = 1 .. 55
<1>1. Ladder \in Seq({Ladder[i] : i \in 1 .. 55})
  BY DEF Ladder
<1>2. DOMAIN Steps = 1 .. 39 /\ Len(Ladder) = 55
  BY DEF Steps, HeadSteps, TailSteps, Ladder
<1> QED BY <1>1, <1>2

LEMMA FreedFromIs ==
    ASSUME NEW n \in 1 .. 55, NEW label, label = Ladder[n]
    PROVE  FreedFrom(label) = Freed(n)
<1> DEFINE at == CHOOSE i \in DOMAIN Ladder : Ladder[i] = label
<1>1. \A i, j \in 1 .. 55 : Ladder[i] = Ladder[j] => i = j
  BY DEF Ladder
<1>2. at = n
  BY <1>1, Lengths
<1>3. Range(SubSeq(Ladder, n, 55)) = {Ladder[i] : i \in n .. 55}
  <2> DEFINE s == SubSeq(Ladder, n, 55)
  <2>1. /\ Len(s) = 55 - n + 1 /\ DOMAIN s = 1 .. Len(s)
        /\ \A i \in 1 .. Len(s) : s[i] = Ladder[n + i - 1]
    BY Lengths
  <2> HIDE DEF s
  <2>2. \A i \in n .. 55 : i - n + 1 \in 1 .. Len(s) /\ s[i - n + 1] = Ladder[i]
    BY <2>1
  <2>3. \A i \in 1 .. Len(s) : n + i - 1 \in n .. 55 /\ s[i] = Ladder[n + i - 1]
    BY <2>1
  <2>4. Range(s) = {Ladder[i] : i \in n .. 55}
    BY <2>1, <2>2, <2>3 DEF Range
  <2> QED BY <2>4 DEF s
<1> QED
  BY <1>2, <1>3, Lengths DEF FreedFrom, Freed

(* The rung of the label that each step jumps to.                          *)
Rung == <<
    55, 53, 52, 50, 49, 47, 46, 45, 44, 43, 42, 40, 38, 36, 34, 32, 29, 28,
    27, 25, 25, 25, 23, 22, 20, 20, 19, 17, 17, 16, 14, 12, 11, 10, 8, 6, 4, 2, 1 >>

(* Between two of them what is freed is what the step between claimed.     *)
LEMMA RungsAre ==
    /\ \A n \in 1 .. 39 : Rung[n] \in 1 .. 55 /\ Steps[n][2] = Ladder[Rung[n]]
    /\ Freed(Rung[1]) = {}
    /\ \A n \in 1 .. 38 :
        /\ Rung[n + 1] <= Rung[n]
        /\ \A i \in Rung[n + 1] .. Rung[n] - 1 :
                Ladder[i] \in Allocations => Ladder[i] = Steps[n][1]
        /\ Steps[n][1] \in Allocations =>
                Rung[n + 1] < Rung[n] /\ Ladder[Rung[n] - 1] = Steps[n][1]
<1>1. \A n \in 1 .. 39 : Rung[n] \in 1 .. 55 /\ Steps[n][2] = Ladder[Rung[n]]
  BY DEF Rung, Ladder, Steps, HeadSteps, TailSteps
<1>2. Freed(Rung[1]) = {}
  BY DEF Rung, Freed, Ladder, Allocations, Splits, EntryParts
<1>3. \A n \in 1 .. 38 : Rung[n + 1] <= Rung[n]
  BY DEF Rung
<1>4. ASSUME NEW n \in 1 .. 38, NEW i \in Rung[n + 1] .. Rung[n] - 1, Ladder[i] \in Allocations
      PROVE  Ladder[i] = Steps[n][1]
  <2>1. i = Rung[n] - 1 \/ i = Rung[n] - 2 \/ i = Rung[n] - 3
    BY DEF Rung
  <2>2. CASE i = Rung[n] - 1
    BY <1>4, <2>2 DEF Rung, Ladder, Steps, HeadSteps, TailSteps, Allocations, Splits, EntryParts
  <2>3. CASE i = Rung[n] - 2
    BY <1>4, <2>3 DEF Rung, Ladder, Steps, HeadSteps, TailSteps, Allocations, Splits, EntryParts
  <2>4. CASE i = Rung[n] - 3
    BY <1>4, <2>4 DEF Rung, Ladder, Steps, HeadSteps, TailSteps, Allocations, Splits, EntryParts
  <2> QED BY <2>1, <2>2, <2>3, <2>4
<1>5. ASSUME NEW n \in 1 .. 38, Steps[n][1] \in Allocations
      PROVE  Rung[n + 1] < Rung[n] /\ Ladder[Rung[n] - 1] = Steps[n][1]
  BY <1>5 DEF Rung, Ladder, Steps, HeadSteps, TailSteps, Allocations, Splits, EntryParts
<1> QED BY <1>1, <1>2, <1>3, <1>4, <1>5

(* The label that a step jumps to frees what the steps before it claimed.  *)
LEMMA JumpsRight ==
    ASSUME NEW n \in 1 .. 39 PROVE FreedFrom(Steps[n][2]) = Claimed(n)
<1> DEFINE S == {m \in Nat : m < 39 => Freed(Rung[m + 1]) = Claimed(m + 1)}
<1>1. 0 \in S
  <2>1. Freed(Rung[1]) = {}
    BY RungsAre
  <2>2. Claimed(1) = {}
    <3>1. 1 .. 1 - 1 = {}
      OBVIOUS
    <3> QED BY <3>1 DEF Claimed
  <2> QED BY <2>1, <2>2
<1>2. ASSUME NEW m \in Nat, m \in S, m + 1 < 39
      PROVE  Freed(Rung[m + 1 + 1]) = Claimed(m + 1 + 1)
  <2> DEFINE k == m + 1
             step_name == Steps[k][1]
  <2>1. k \in 1 .. 38 /\ Freed(Rung[k]) = Claimed(k)
    BY <1>2
  <2> HIDE DEF k
  <2>2. PICK p \in 1 .. 55, q \in 1 .. 55 : p = Rung[k] /\ q = Rung[k + 1] /\ q <= p
    <3>1. k \in 1 .. 39 /\ k + 1 \in 1 .. 39
      BY <2>1
    <3>2. Rung[k] \in 1 .. 55 /\ Rung[k + 1] \in 1 .. 55
      BY <3>1, RungsAre
    <3> QED BY <2>1, <3>2, RungsAre
  <2>3. /\ \A i \in q .. p - 1 : Ladder[i] \in Allocations => Ladder[i] = step_name
        /\ step_name \in Allocations => q < p /\ Ladder[p - 1] = step_name
    BY <2>1, <2>2, RungsAre
  <2> HIDE DEF step_name
  <2>4. Freed(q) = Freed(p) \cup ({step_name} \cap Allocations)
    <3>1. q .. 55 = (p .. 55) \cup (q .. p - 1)
      BY <2>2
    <3>2. {Ladder[i] : i \in q .. p - 1} \cap Allocations = {step_name} \cap Allocations
      <4>1. step_name \in Allocations => p - 1 \in q .. p - 1
        BY <2>2, <2>3
      <4> QED BY <2>3, <4>1
    <3> QED BY <3>1, <3>2 DEF Freed
  <2>5. Claimed(k + 1) = Claimed(k) \cup ({step_name} \cap Allocations)
    <3>1. 1 .. k + 1 - 1 = (1 .. k - 1) \cup {k}
      BY <2>1
    <3> QED BY <3>1 DEF Claimed, step_name
  <2>6. Freed(Rung[k + 1]) = Claimed(k + 1)
    BY <2>1, <2>2, <2>4, <2>5
  <2> QED BY <2>6 DEF k
<1>3. \A m \in Nat : m \in S => m + 1 \in S
  BY <1>2
<1>4. n - 1 \in S
  <2> HIDE DEF S
  <2> QED BY <1>1, <1>3, NatSet
<1>5. Freed(Rung[n]) = Claimed(n)
  BY <1>4
<1> QED BY <1>5, RungsAre, FreedFromIs

LEMMA ClaimedMore ==
    ASSUME NEW n \in 1 .. 39
    PROVE  Claimed(n + 1) = Claimed(n) \cup ({Steps[n][1]} \cap Allocations)
<1>1. 1 .. n + 1 - 1 = (1 .. n - 1) \cup {n}
  OBVIOUS
<1> QED BY <1>1 DEF Claimed

(* When all have been taken everything is claimed.                         *)
LEMMA ClaimedAll == Claimed(1) = {} /\ Claimed(40) = Allocations
BY DEF Claimed, Steps, HeadSteps, TailSteps, Allocations, Splits, EntryParts

(* What is claimed is what the steps that were taken have claimed.         *)
HeapInv ==
    /\ pc \in {"idle", "parse", "check", "fail", "stored", "crashed"}
    /\ pc = "parse" => step \in 1 .. 40
    /\ pc \in {"check", "fail"} => step \in 1 .. 39
    /\ pc = "check" => StepName \notin Allocations
    /\ pc \in {"parse", "check", "fail"} => held = Claimed(step)
    /\ pc = "stored" => held = EntryParts
    /\ pc = "idle" => held = {}
    /\ wild = {}

LEMMA StepNames ==
    /\ step \in 1 .. 39 => StepName = Steps[step][1] /\ StepName # "end"
    /\ step = 40 => StepName = "end"
<1>1. \A i \in 1 .. 39 : Steps[i][1] # "end"
  BY DEF Steps, HeadSteps, TailSteps
<1>2. DOMAIN Steps = 1 .. 39
  BY Lengths
<1>3. step \in 1 .. 39 => StepName = Steps[step][1]
  BY <1>2 DEF StepName
<1>4. step = 40 => StepName = "end"
  BY <1>2 DEF StepName
<1> QED BY <1>1, <1>3, <1>4

LEMMA SucceedStep ==
    ASSUME HeapInv, pc = "parse", StepName # "end", Succeed PROVE HeapInv'
<1>1. step \in 1 .. 39 /\ StepName = Steps[step][1]
  BY StepNames DEF HeapInv
<1>2. Claimed(step + 1) = held \cup ({StepName} \cap Allocations)
  BY <1>1, ClaimedMore DEF HeapInv
<1> QED BY <1>1, <1>2 DEF HeapInv, Succeed

LEMMA GoToLabelStep ==
    ASSUME HeapInv, pc \in {"parse", "check"}, StepName # "end", GoToLabel PROVE HeapInv'
<1>1. step \in 1 .. 39
  BY StepNames DEF HeapInv
<1> QED BY <1>1 DEF HeapInv, GoToLabel

LEMMA SizesClaimNothing == SizeSteps \cap Allocations = {} /\ "end" \notin SizeSteps
BY DEF SizeSteps, Allocations, Splits, EntryParts

LEMMA HeapStep == ASSUME HeapInv, [Next]_vars PROVE HeapInv'
<1>1. CASE parse_log_entry
  <2>1. pc = "idle" /\ pc' = "parse" /\ step' = 1 /\ held' = held /\ wild' = wild
    BY <1>1 DEF parse_log_entry
  <2>2. Claimed(1) = {}
    BY ClaimedAll
  <2> QED BY <2>1, <2>2 DEF HeapInv
<1>2. CASE TakeStep
  <2>1. StepName # "end"
    <3>1. "end" \notin Plain
      <4>1. \A i \in 1 .. 39 : Steps[i][1] # "end"
        BY DEF Steps, HeadSteps, TailSteps
      <4> QED BY <4>1, Lengths DEF Plain
    <3> QED BY <1>2, <3>1 DEF TakeStep
  <2> QED BY <1>2, <2>1, SucceedStep, GoToLabelStep DEF TakeStep
<1>3. CASE CheckFieldCount
  BY <1>3, SucceedStep, GoToLabelStep DEF CheckFieldCount, At
<1>4. CASE ReadCallTypes
  BY <1>4, SucceedStep, GoToLabelStep DEF ReadCallTypes, At
<1>5. CASE mistral_get_call_type_name
  BY <1>5, SucceedStep, GoToLabelStep DEF mistral_get_call_type_name, At
<1>6. CASE parse_size
  <2>1. StepName # "end" /\ StepName \notin Allocations
    BY <1>6, SizesClaimNothing DEF parse_size
  <2>2. CASE GoToLabel
    BY <1>6, <2>1, <2>2, GoToLabelStep DEF parse_size
  <2>3. CASE pc' = "check" /\ UNCHANGED <<step, held, wild, calls>>
    <3>1. step \in 1 .. 39
      BY <1>6, <2>1, StepNames DEF HeapInv, parse_size
    <3>2. StepName' = StepName
      BY <2>3 DEF StepName
    <3> QED BY <1>6, <2>1, <2>3, <3>1, <3>2 DEF HeapInv, parse_size
  <2> QED BY <1>6, <2>2, <2>3 DEF parse_size
<1>7. CASE CheckUnit
  <2>1. step \in 1 .. 39 /\ StepName = Steps[step][1] /\ StepName # "end"
    BY <1>7, StepNames DEF CheckUnit, HeapInv
  <2>2. CASE GoToLabel
    BY <1>7, <2>1, <2>2, GoToLabelStep DEF CheckUnit
  <2>3. CASE pc' = "parse" /\ step' = step + 1 /\ UNCHANGED <<held, wild, calls>>
    <3>1. Claimed(step + 1) = held
      BY <1>7, <2>1, ClaimedMore DEF CheckUnit, HeapInv
    <3> QED BY <2>1, <2>3, <3>1 DEF HeapInv
  <2> QED BY <1>7, <2>2, <2>3 DEF CheckUnit
<1>8. CASE RangeWithoutBound
  BY <1>8, SucceedStep DEF RangeWithoutBound, At
<1>9. CASE EmptyRange
  BY <1>9 DEF EmptyRange, HeapInv
<1>10. CASE HandOver
  <2>1. step = 40
    BY <1>10, StepNames DEF HandOver, At, HeapInv
  <2>2. held = Splits \cup EntryParts
    BY <1>10, <2>1, ClaimedAll DEF HandOver, At, HeapInv, Allocations
  <2>3. Splits \cap EntryParts = {}
    BY DEF Splits, EntryParts
  <2> QED BY <1>10, <2>2, <2>3 DEF HandOver, HeapInv
<1>11. CASE mistral_destroy_log_entry
  BY <1>11 DEF mistral_destroy_log_entry, HeapInv
<1>12. CASE CleanUp
  <2>1. FreedFrom(StepLabel) = held
    BY <1>12, JumpsRight DEF CleanUp, HeapInv, StepLabel
  <2> QED BY <1>12, <2>1 DEF CleanUp, HeapInv
<1>13. CASE UNCHANGED vars
  BY <1>13 DEF vars, HeapInv, StepName
<1> QED
  BY <1>1, <1>2, <1>3, <1>4, <1>5, <1>6, <1>7, <1>8, <1>9, <1>10, <1>11, <1>12, <1>13
  DEF Next

(* Whatever step fails, the label it jumps to frees everything the steps   *)
(* before it claimed and nothing else; and the plug-in frees the rest when *)
(* it has done with the entry.                                             *)
THEOREM HeapIsBalanced == Spec => []HeapBalanced
<1>1. Init => HeapInv
  BY DEF Init, HeapInv
<1>2. HeapInv /\ [Next]_vars => HeapInv'
  BY HeapStep
<1>3. HeapInv => HeapBalanced
  BY DEF HeapInv, HeapBalanced
<1> QED BY <1>1, <1>2, <1>3, PTL DEF Spec

(***************************************************************************)
(* The names of call types                                                 *)
(***************************************************************************)

Ascending(s) == \A i, j \in DOMAIN s : i < j => s[i] < s[j]

(* The names below j are those of the set, in ascending order.             *)
LEMMA BuildNameIs ==
    ASSUME NEW mask \in SUBSET CallTypes
    PROVE  Range(BuildName(mask)) = mask /\ Ascending(BuildName(mask))
<1> DEFINE n == CALL_TYPE_MAX
           Body(f, j) == IF j = 0 THEN <<>>
                         ELSE IF j - 1 \in mask THEN Append(f[j - 1], j - 1)
                         ELSE f[j - 1]
           G == [j \in 1 .. n |-> [x \in Seq(Nat) |-> [y \in Seq(Nat) |->
                    IF j - 1 \in mask THEN Append(x, j - 1) ELSE x]]]
<1>1. n \in Nat /\ mask \subseteq 0 .. n - 1
  BY LogEntryAssumption DEF CallTypes
<1> HIDE DEF n
<1>2. G \in [1 .. n -> [Seq(Nat) -> [Seq(Nat) -> Seq(Nat)]]]
  <2>1. \A j \in 1 .. n, x \in Seq(Nat) : Append(x, j - 1) \in Seq(Nat)
    OBVIOUS
  <2> QED BY <2>1
<1>3. \A j \in 1 .. n, x, y \in Seq(Nat) :
        G[j][x][y] = IF j - 1 \in mask THEN Append(x, j - 1) ELSE x
  OBVIOUS
<1> HIDE DEF G
<1>4. PICK h \in [0 .. n -> Seq(Nat)] : Follows(h, n, <<>>, G)
  <2> DEFINE V == Seq(Nat)
             b == <<>>
  <2>1. b \in V /\ G \in [1 .. n -> [V -> [V -> V]]]
    BY <1>2
  <2> HIDE DEF V, b
  <2>2. \E h \in [0 .. n -> V] : Follows(h, n, b, G)
    BY <1>1, <2>1, Recursion
  <2> QED BY <2>2 DEF V, b
<1>5. ASSUME NEW k \in 1 .. n PROVE h[k] = Body(h, k)
  <2>1. k - 1 \in 0 .. n /\ Before(k) \in 0 .. n
    BY <1>1 DEF Before
  <2>2. h[k - 1] \in Seq(Nat) /\ h[Before(k)] \in Seq(Nat)
    BY <2>1
  <2> QED BY <1>3, <1>4, <2>2 DEF Follows
<1>6. h = [j \in 0 .. n |-> Body(h, j)]
  <2>1. \A j \in 0 .. n : h[j] = Body(h, j)
    <3>1. \A j \in 0 .. n : j = 0 \/ j \in 1 .. n
      BY <1>1
    <3>2. h[0] = Body(h, 0)
      BY <1>4 DEF Follows
    <3> HIDE DEF Body
    <3> QED BY <1>5, <3>1, <3>2
  <2> HIDE DEF Body
  <2> QED BY <2>1
<1> DEFINE N == CHOOSE f : f = [j \in 0 .. n |-> Body(f, j)]
<1>7. N = [j \in 0 .. n |-> Body(N, j)]
  <2> HIDE DEF Body
  <2> QED BY <1>6
<1>8. BuildName(mask) = N[n]
  BY DEF BuildName, n
<1> HIDE DEF N
<1>9. \A j \in 0 .. n : N[j] = h[j]
  <2>1. N[0] = h[0]
    BY <1>1, <1>4, <1>7 DEF Follows
  <2>2. ASSUME NEW k \in 1 .. n, N[k - 1] = h[k - 1] PROVE N[k] = h[k]
    <3>1. Body(N, k) = Body(h, k)
      BY <2>2
    <3>2. N[k] = Body(N, k)
      <4>1. k \in 0 .. n
        BY <1>1
      <4> HIDE DEF Body
      <4> QED BY <1>7, <4>1
    <3> QED BY <1>5, <3>1, <3>2
  <2>3. \A k \in 1 .. n : N[k - 1] = h[k - 1] /\ N[Before(k)] = h[Before(k)] => N[k] = h[k]
    BY <2>2
  <2>4. Agrees(N, h, n)
    BY <2>1, <2>3 DEF Agrees
  <2> QED BY <1>1, <2>4, SameLoop
<1> DEFINE Good(j) == /\ \A i \in 1 .. Len(h[j]) : h[j][i] \in mask /\ h[j][i] < j
                      /\ \A c \in mask : c < j => \E i \in 1 .. Len(h[j]) : h[j][i] = c
                      /\ \A a, b \in 1 .. Len(h[j]) : a < b => h[j][a] < h[j][b]
           S == {j \in Nat : j <= n => Good(j)}
<1>10. 0 \in S
  <2>1. Len(h[0]) = 0
    BY <1>4 DEF Follows
  <2> QED BY <1>1, <2>1
<1>11. ASSUME NEW j \in Nat, j + 1 <= n, Good(j) PROVE Good(j + 1)
  <2>1. h[j] \in Seq(Nat) /\ Len(h[j]) \in Nat
    BY <1>11, <1>1
  <2>2. h[j + 1] = IF j \in mask THEN Append(h[j], j) ELSE h[j]
    BY <1>1, <1>5, <1>11
  <2>3. CASE j \notin mask
    <3>1. \A c \in mask : c < j + 1 <=> c < j
      BY <1>1, <2>3
    <3> QED BY <1>11, <2>2, <2>3, <3>1
  <2>4. CASE j \in mask
    <3> DEFINE s == h[j]
               t == Append(s, j)
    <3>1. /\ Len(t) = Len(s) + 1 /\ t[Len(s) + 1] = j
          /\ \A i \in 1 .. Len(s) : t[i] = s[i]
      BY <2>1
    <3>2. /\ \A i \in 1 .. Len(s) : s[i] \in mask /\ s[i] < j
          /\ \A c \in mask : c < j => \E i \in 1 .. Len(s) : s[i] = c
          /\ \A a, b \in 1 .. Len(s) : a < b => s[a] < s[b]
      BY <1>11
    <3>3. Len(s) \in Nat /\ h[j + 1] = t
      BY <2>1, <2>2, <2>4
    <3> HIDE DEF s, t
    <3>4. \A i \in 1 .. Len(t) : i \in 1 .. Len(s) \/ i = Len(s) + 1
      BY <3>1, <3>3
    <3>5. \A i \in 1 .. Len(t) : t[i] \in mask /\ t[i] < j + 1
      <4>1. j < j + 1 /\ \A c \in mask : c < j => c < j + 1
        BY <1>1
      <4> QED BY <2>4, <3>1, <3>2, <3>4, <4>1
    <3>6. ASSUME NEW c \in mask, c < j + 1 PROVE \E i \in 1 .. Len(t) : t[i] = c
      <4>1. CASE c = j
        BY <3>1, <3>3, <4>1
      <4>2. CASE c # j
        <5>1. c < j
          BY <1>1, <3>6, <4>2
        <5>2. PICK i \in 1 .. Len(s) : s[i] = c
          BY <3>2, <5>1
        <5> QED BY <3>1, <3>3, <5>2
      <4> QED BY <4>1, <4>2
    <3>7. ASSUME NEW a \in 1 .. Len(t), NEW b \in 1 .. Len(t), a < b PROVE t[a] < t[b]
      <4>1. a \in 1 .. Len(s)
        BY <3>1, <3>3, <3>7
      <4>2. CASE b = Len(s) + 1
        BY <3>1, <3>2, <4>1, <4>2
      <4>3. CASE b \in 1 .. Len(s)
        BY <3>1, <3>2, <3>7, <4>1, <4>3
      <4> QED BY <3>4, <4>2, <4>3
    <3> QED BY <3>3, <3>5, <3>6, <3>7
  <2> QED BY <2>3, <2>4
<1>12. n \in S
  <2>1. \A j \in Nat : j \in S => j + 1 \in S
    <3> HIDE DEF Good
    <3>1. ASSUME NEW j \in Nat, j \in S, j + 1 <= n PROVE Good(j + 1)
      <4>1. j <= n
        BY <1>1, <3>1
      <4> QED BY <1>11, <3>1, <4>1
    <3> QED BY <3>1
  <2> HIDE DEF S
  <2> QED BY <1>1, <1>10, <2>1, NatSet
<1>13. Good(n)
  BY <1>1, <1>12
<1>14. h[n] \in Seq(Nat) /\ BuildName(mask) = h[n]
  BY <1>1, <1>8, <1>9
<1> DEFINE s == h[n]
<1>15. /\ s \in Seq(Nat) /\ DOMAIN s = 1 .. Len(s) /\ BuildName(mask) = s
       /\ \A i \in 1 .. Len(s) : s[i] \in mask
       /\ \A c \in mask : \E i \in 1 .. Len(s) : s[i] = c
       /\ \A a, b \in 1 .. Len(s) : a < b => s[a] < s[b]
  BY <1>1, <1>13, <1>14
<1> HIDE DEF s
<1> QED BY <1>15 DEF Ascending, Range

(* Every name in the tree is the one of its set, and the entry that is     *)
(* parsed has none until its call types have been looked up.               *)
NamesInv ==
    /\ Range(text) \subseteq CallTypes
    /\ \A m \in DOMAIN mask_root :
        mask_root[m] # Null => Range(mask_root[m]) = m /\ Ascending(mask_root[m])
    /\ call_type_names # Null =>
        Range(call_type_names) = Range(text) /\ Ascending(call_type_names)
    /\ pc = "idle" => call_type_names = Null
    /\ pc \in {"parse", "check"} /\ step <= 18 => call_type_names = Null

(* The steps that find the call types and their names.                     *)
LEMMA CallTypeSteps ==
    ASSUME HeapInv, pc = "parse"
    PROVE  (At("call_types") => step = 17) /\ (At("call_type_names") => step = 18)
<1>1. \A i \in 1 .. 39 : /\ Steps[i][1] = "call_types" => i = 17
                         /\ Steps[i][1] = "call_type_names" => i = 18
  BY DEF Steps, HeadSteps, TailSteps
<1>2. At("call_types") \/ At("call_type_names") => step \in 1 .. 39
  BY StepNames DEF HeapInv, At
<1> QED BY <1>1, <1>2, StepNames DEF At

LEMMA NamesStep == ASSUME HeapInv, NamesInv, [Next]_vars PROVE NamesInv'
<1> USE DEF NamesInv
<1>1. CASE parse_log_entry \/ HandOver
  BY <1>1 DEF parse_log_entry, HandOver, names, tree
<1>2. CASE TakeStep \/ CheckFieldCount \/ RangeWithoutBound
  <2>1. pc = "parse" /\ step \in Nat /\ UNCHANGED names
    <3>1. pc = "parse" /\ UNCHANGED names
      BY <1>2, Zenon DEF TakeStep, CheckFieldCount, RangeWithoutBound, At
    <3> QED BY <3>1 DEF HeapInv
  <2>2. pc' = "fail" \/ (pc' = pc /\ step' = step + 1)
    BY <1>2 DEF TakeStep, CheckFieldCount, RangeWithoutBound, Succeed, GoToLabel
  <2>3. /\ UNCHANGED <<text, mask_root, call_type_names>>
        /\ pc' # "idle" /\ (pc' \in {"parse", "check"} /\ step' <= 18 => step <= 18)
    BY <2>1, <2>2 DEF names, tree
  <2> QED BY <2>1, <2>3
<1>3. CASE ReadCallTypes
  <2>1. step = 17 /\ pc = "parse" /\ UNCHANGED <<call_type_names, mask_root>>
    BY <1>3, CallTypeSteps DEF ReadCallTypes, At, tree
  <2>2. CASE UNCHANGED text
    BY <1>3, <2>1, <2>2 DEF ReadCallTypes, GoToLabel, Succeed
  <2>3. CASE text' \in UNION {[1 .. n -> CallTypes] : n \in 1 .. MaxCallTypes}
    <3>1. Range(text') \subseteq CallTypes
      BY <2>3 DEF Range
    <3> QED BY <1>3, <2>1, <3>1 DEF ReadCallTypes, GoToLabel, Succeed
  <2> QED BY <1>3, <2>2, <2>3 DEF ReadCallTypes
<1>4. CASE mistral_get_call_type_name
  <2> DEFINE mask == Range(text)
             Insert(name) == mask_root' = [m \in DOMAIN mask_root \cup {mask} |->
                                             IF m = mask THEN name ELSE mask_root[m]]
  <2>1. step = 18 /\ pc = "parse" /\ text' = text
    BY <1>4, CallTypeSteps DEF mistral_get_call_type_name, At
  <2>2. pc' = "fail" \/ (pc' = "parse" /\ step' = 19)
    BY <1>4, <2>1 DEF mistral_get_call_type_name, GoToLabel, Succeed
  <2>3. Range(BuildName(mask)) = mask /\ Ascending(BuildName(mask))
    BY BuildNameIs
  <2>4. \/ mask \in DOMAIN mask_root /\ call_type_names' = mask_root[mask] /\ mask_root' = mask_root
        \/ call_type_names' = BuildName(mask) /\ Insert(BuildName(mask))
        \/ call_type_names' = call_type_names /\ (Insert(Null) \/ mask_root' = mask_root)
    BY <1>4 DEF mistral_get_call_type_name, tree
  <2> HIDE DEF mask
  <2>5. pc' # "idle" /\ ~(pc' \in {"parse", "check"} /\ step' <= 18)
    BY <2>2
  <2>6. mask = Range(text) /\ mask = Range(text')
    BY <2>1 DEF mask
  <2>7. CASE mask \in DOMAIN mask_root /\ call_type_names' = mask_root[mask] /\ mask_root' = mask_root
    BY <2>1, <2>5, <2>6, <2>7
  <2>8. CASE call_type_names' = BuildName(mask) /\ Insert(BuildName(mask))
    BY <2>1, <2>3, <2>5, <2>6, <2>8
  <2>9. CASE call_type_names' = call_type_names /\ (Insert(Null) \/ mask_root' = mask_root)
    BY <2>1, <2>5, <2>6, <2>9
  <2> QED BY <2>4, <2>7, <2>8, <2>9
<1>5. CASE parse_size \/ CheckUnit \/ EmptyRange
  <2>1. pc \in {"parse", "check"} /\ step \in Nat /\ UNCHANGED names
    BY <1>5 DEF parse_size, CheckUnit, EmptyRange, At, HeapInv
  <2>2. pc' \in {"fail", "crashed"} \/ (pc' \in {"parse", "check"} /\ step' \in {step, step + 1})
    BY <1>5 DEF parse_size, CheckUnit, EmptyRange, GoToLabel
  <2> QED BY <2>1, <2>2 DEF names, tree
<1>6. CASE mistral_destroy_log_entry \/ CleanUp
  <2>1. Range(text') = {}
    BY <1>6 DEF mistral_destroy_log_entry, CleanUp, Range
  <2> QED BY <1>6, <2>1 DEF mistral_destroy_log_entry, CleanUp, tree
<1>7. CASE UNCHANGED vars
  BY <1>7 DEF vars, names, tree
<1> QED
  BY <1>1, <1>2, <1>3, <1>4, <1>5, <1>6, <1>7 DEF Next

LEMMA LogEntryInvariant == Spec => [](HeapInv /\ NamesInv)
<1>1. Init => HeapInv /\ NamesInv
  BY DEF Init, HeapInv, NamesInv, Range
<1>2. HeapInv /\ NamesInv /\ [Next]_vars => HeapInv' /\ NamesInv'
  BY HeapStep, NamesStep
<1> QED BY <1>1, <1>2, PTL DEF Spec

(* Entries with the same set of call types have the same name for them, in *)
(* one order and without repetition, whatever order and however often the  *)
(* lines have them, and whether it was built now or found in the tree.     *)
THEOREM NamesAreNormalised == Spec => []NamesNormalised
<1>1. NamesInv => NamesNormalised
  BY DEF NamesInv, NamesNormalised, Ascending
<1> QED BY <1>1, LogEntryInvariant, PTL

(***************************************************************************)
(* Sequences, read from their ends                                         *)
(***************************************************************************)

(* A sequence is its first member and the rest.                            *)
LEMMA ConsIs ==
    ASSUME NEW T, NEW a \in T, NEW r \in Seq(T)
    PROVE  /\ Cons(a, r) \in Seq(T) /\ Cons(a, r) # <<>>
           /\ Len(Cons(a, r)) = Len(r) + 1 /\ Cons(a, r)[1] = a
           /\ \A i \in 1 .. Len(r) : Cons(a, r)[i + 1] = r[i]
           /\ Head(Cons(a, r)) = a /\ Tail(Cons(a, r)) = r
<1> DEFINE s == <<a>> \o r
<1>1. <<a>> \in Seq(T) /\ Len(<<a>>) = 1 /\ <<a>>[1] = a /\ Len(r) \in Nat
  OBVIOUS
<1>2. s \in Seq(T) /\ Len(s) = Len(r) + 1 /\ s[1] = a /\ \A i \in 1 .. Len(r) : s[i + 1] = r[i]
  BY <1>1
<1> HIDE DEF s
<1>3. s # <<>> /\ Head(s) = a
  BY <1>1, <1>2
<1>4. Tail(s) = r
  <2>1. Tail(s) \in Seq(T) /\ Len(Tail(s)) = Len(r) /\ \A i \in 1 .. Len(r) : Tail(s)[i] = s[i + 1]
    BY <1>1, <1>2, <1>3
  <2> QED BY <1>2, <2>1
<1>5. Cons(a, r) = s
  BY DEF Cons, s
<1> QED BY <1>2, <1>3, <1>4, <1>5

LEMMA ConsOf ==
    ASSUME NEW T, NEW x \in Seq(T), x # <<>>
    PROVE  Head(x) \in T /\ Tail(x) \in Seq(T) /\ x = Cons(Head(x), Tail(x))
<1>1. /\ Head(x) \in T /\ Tail(x) \in Seq(T) /\ Len(x) \in Nat /\ Len(Tail(x)) = Len(x) - 1
      /\ Head(x) = x[1] /\ \A i \in 1 .. Len(x) - 1 : Tail(x)[i] = x[i + 1]
  OBVIOUS
<1> DEFINE h == Head(x)
           t == Tail(x)
           y == Cons(h, t)
<1>2. y \in Seq(T) /\ Len(y) = Len(t) + 1 /\ y[1] = h /\ \A i \in 1 .. Len(t) : y[i + 1] = t[i]
  <2>1. h \in T /\ t \in Seq(T)
    BY <1>1
  <2> HIDE DEF h, t
  <2> QED BY <2>1, ConsIs
<1> HIDE DEF h, t, y
<1>3. \A i \in 1 .. Len(x) : y[i] = x[i]
  <2> SUFFICES ASSUME NEW i \in 1 .. Len(x) PROVE y[i] = x[i]
    OBVIOUS
  <2>1. CASE i = 1
    BY <1>1, <1>2, <2>1 DEF h
  <2>2. CASE i # 1
    <3>1. i - 1 \in 1 .. Len(t) /\ i - 1 \in 1 .. Len(x) - 1
      BY <1>1, <2>2 DEF t
    <3>2. y[i - 1 + 1] = t[i - 1] /\ t[i - 1] = x[i - 1 + 1]
      BY <1>1, <1>2, <3>1 DEF t
    <3>3. i - 1 + 1 = i
      BY <1>1
    <3> QED BY <3>2, <3>3
  <2> QED BY <2>1, <2>2
<1>4. Len(y) = Len(x)
  BY <1>1, <1>2 DEF t
<1>5. y = x
  BY <1>2, <1>3, <1>4
<1> QED BY <1>1, <1>5 DEF y, h, t

(* Reading from the end does not depend on what was read before.           *)
LEMMA ReadAfter ==
    ASSUME NEW T, NEW u \in Seq(T), NEW t \in Seq(T), NEW k \in 1 .. Len(t)
    PROVE  Read(u \o t, k) = Read(t, k) /\ Read(t, k) \in T
<1>1. Len(u \o t) = Len(u) + Len(t) /\ Len(u) \in Nat /\ Len(t) \in Nat
  OBVIOUS
<1>2. \A i \in 1 .. Len(t) : (u \o t)[Len(u) + i] = t[i]
  OBVIOUS
<1>3. Len(t) - k + 1 \in 1 .. Len(t) /\ Len(u \o t) - k + 1 = Len(u) + (Len(t) - k + 1)
  BY <1>1
<1>4. t[Len(t) - k + 1] \in T
  BY <1>3
<1> QED BY <1>2, <1>3, <1>4 DEF Read

LEMMA ReadCons ==
    ASSUME NEW T, NEW a \in T, NEW r \in Seq(T)
    PROVE  /\ Read(Cons(a, r), Len(r) + 1) = a
           /\ \A k \in 1 .. Len(r) : Read(Cons(a, r), k) = Read(r, k)
<1>1. Len(r) \in Nat /\ Len(Cons(a, r)) = Len(r) + 1 /\ Cons(a, r)[1] = a
  BY ConsIs
<1>2. Read(Cons(a, r), Len(r) + 1) = a
  BY <1>1 DEF Read
<1> DEFINE u == <<a>>
<1>3. u \in Seq(T) /\ Cons(a, r) = u \o r
  BY DEF Cons
<1> HIDE DEF u
<1>4. \A k \in 1 .. Len(r) : Read(u \o r, k) = Read(r, k)
  BY <1>3, ReadAfter
<1> QED BY <1>2, <1>3, <1>4

(***************************************************************************)
(* The loops over a line                                                   *)
(*                                                                         *)
(* Each is shown to be a function that satisfies its own equation.         *)
(***************************************************************************)

LEMMA EscapedIs == \A c \in Chars : Escaped(c) \in Seq(Chars) /\ Unescape(c) \in Chars
<1> SUFFICES ASSUME NEW c \in Chars PROVE Escaped(c) \in Seq(Chars) /\ Unescape(c) \in Chars
  OBVIOUS
<1>1. Unescape(c) \in Chars
  BY DEF Unescape, Chars
<1>2. \A a, b \in Chars : <<a, b>> \in Seq(Chars) /\ <<a>> \in Seq(Chars)
  OBVIOUS
<1>3. Escaped(c) \in {<<"backslash", c>>, <<"backslash", "n">>, <<c>>}
  BY DEF Escaped
<1>4. {"backslash", "n"} \subseteq Chars
  BY DEF Chars
<1> QED BY <1>1, <1>2, <1>3, <1>4

Somes == {x \in Seq(Seq(Chars)) : x # <<>>}

LEMMA PutIs ==
    ASSUME NEW c \in Chars, NEW x \in Somes
    PROVE  /\ Put(c, x) \in Somes /\ Cons(c, Head(x)) \in Seq(Chars)
           /\ Head(x) \in Seq(Chars) /\ Tail(x) \in Seq(Seq(Chars))
           /\ x = Cons(Head(x), Tail(x))
<1> DEFINE T == Seq(Chars)
<1>1. x \in Seq(T) /\ x # <<>>
  BY DEF Somes
<1> HIDE DEF T
<1>2. Head(x) \in T /\ Tail(x) \in Seq(T) /\ x = Cons(Head(x), Tail(x))
  BY <1>1, ConsOf
<1> DEFINE h == Head(x)
           t == Tail(x)
<1>3. h \in Seq(Chars)
  BY <1>2 DEF T
<1> HIDE DEF h, t
<1>4. Cons(c, h) \in T
  BY <1>3, ConsIs DEF T
<1>5. Cons(Cons(c, h), t) \in Seq(T) /\ Cons(Cons(c, h), t) # <<>>
  <2>1. t \in Seq(T)
    BY <1>2 DEF t
  <2> DEFINE g == Cons(c, h)
  <2>2. g \in T
    BY <1>4
  <2> HIDE DEF g
  <2>3. Cons(g, t) \in Seq(T) /\ Cons(g, t) # <<>>
    BY ONLY <2>1, <2>2, ConsIs
  <2> QED BY <2>3 DEF g
<1>6. Put(c, x) = Cons(Cons(c, h), t) /\ Head(x) = h /\ Tail(x) = t
  BY DEF Put, h, t
<1>7. Put(c, x) \in Seq(T) /\ Put(c, x) # <<>>
  BY <1>5, <1>6
<1>8. Put(c, x) \in Somes
  BY <1>7 DEF Somes, T
<1>9. x = Cons(Head(x), Tail(x))
  BY <1>2
<1>10. Cons(c, Head(x)) \in Seq(Chars)
  BY <1>4, <1>6 DEF T
<1>11. Head(x) \in Seq(Chars) /\ Tail(x) \in Seq(Seq(Chars))
  BY <1>2 DEF T
<1> QED BY <1>8, <1>9, <1>10, <1>11

LEMMA ReadIs == ASSUME NEW T, NEW s \in Seq(T), NEW k \in 1 .. Len(s) PROVE Read(s, k) \in T
<1>1. Len(s) - k + 1 \in 1 .. Len(s)
  OBVIOUS
<1> QED BY <1>1 DEF Read

LEMMA CountLoopIs ==
    ASSUME NEW s \in Seq(Chars)
    PROVE  /\ CountLoop(s) \in [0 .. Len(s) -> Nat] /\ CountLoop(s)[0] = 1
           /\ \A k \in 1 .. Len(s) : CountLoop(s)[k] =
                IF Read(s, k) = "backslash" /\ k > 1 THEN CountLoop(s)[k - 2]
                ELSE IF Read(s, k) = "comma" THEN 1 + CountLoop(s)[k - 1]
                ELSE CountLoop(s)[k - 1]
<1> DEFINE n == Len(s)
           V == Nat
           b == 1
           Body(f, k) == IF k = 0 THEN 1
                         ELSE IF Read(s, k) = "backslash" /\ k > 1 THEN f[k - 2]
                         ELSE IF Read(s, k) = "comma" THEN 1 + f[k - 1]
                         ELSE f[k - 1]
           G == [k \in 1 .. n |-> [x \in V |-> [y \in V |->
                    IF Read(s, k) = "backslash" /\ k > 1 THEN y
                    ELSE IF Read(s, k) = "comma" THEN 1 + x
                    ELSE x]]]
<1>1. n \in Nat /\ b \in V
  OBVIOUS
<1>2. \A k \in 1 .. n, x, y \in V :
        (IF Read(s, k) = "backslash" /\ k > 1 THEN y ELSE IF Read(s, k) = "comma" THEN 1 + x ELSE x) \in V
  OBVIOUS
<1>3. G \in [1 .. n -> [V -> [V -> V]]]
  <2> HIDE DEF V, n
  <2> QED BY <1>2
<1>4. \A k \in 1 .. n, x, y \in V :
        G[k][x][y] =
                    IF Read(s, k) = "backslash" /\ k > 1 THEN y
                    ELSE IF Read(s, k) = "comma" THEN 1 + x
                    ELSE x
  <2> HIDE DEF V, n
  <2> QED OBVIOUS
<1> HIDE DEF n, V, b, G
<1>5. PICK h \in [0 .. n -> V] : Follows(h, n, b, G)
  BY <1>1, <1>3, Recursion
<1>6. h[0] = b /\ \A k \in 1 .. n : h[k] = Body(h, k)
  <2> SUFFICES ASSUME NEW k \in 1 .. n PROVE h[k] = Body(h, k)
    BY <1>5 DEF Follows
  <2>1. k - 1 \in 0 .. n /\ Before(k) \in 0 .. n /\ k # 0 /\ (k # 1 => Before(k) = k - 2)
    BY <1>1 DEF Before
  <2>2. h[k - 1] \in V /\ h[Before(k)] \in V
    BY <2>1
  <2>3. h[k] = G[k][h[k - 1]][h[Before(k)]]
    BY <1>5 DEF Follows
  <2> QED BY <1>4, <2>1, <2>2, <2>3
<1>7. h = [k \in 0 .. n |-> Body(h, k)]
  <2>1. \A k \in 0 .. n : k = 0 \/ k \in 1 .. n
    BY <1>1
  <2>2. h[0] = Body(h, 0)
    BY <1>6 DEF b
  <2> HIDE DEF Body
  <2> QED BY <1>6, <2>1, <2>2
<1> DEFINE N == CHOOSE f : f = [k \in 0 .. n |-> Body(f, k)]
<1>8. N = [k \in 0 .. n |-> Body(N, k)]
  <2> HIDE DEF Body
  <2> QED BY <1>7
<1>9. CountLoop(s) = N
  BY DEF CountLoop, n
<1> HIDE DEF N
<1>10. N[0] = b /\ \A k \in 1 .. n : N[k] = Body(N, k)
  <2>1. 0 \in 0 .. n /\ \A k \in 1 .. n : k \in 0 .. n
    BY <1>1
  <2>2. N[0] = b
    BY <1>8, <2>1 DEF b
  <2> HIDE DEF Body
  <2> QED BY <1>8, <2>1, <2>2
<1>11. \A k \in 1 .. n : N[k - 1] = h[k - 1] /\ N[Before(k)] = h[Before(k)] => N[k] = h[k]
  <2> SUFFICES ASSUME NEW k \in 1 .. n, N[k - 1] = h[k - 1], N[Before(k)] = h[Before(k)]
               PROVE  N[k] = h[k]
    OBVIOUS
  <2>1. k # 0 /\ (k # 1 => Before(k) = k - 2)
    BY <1>1 DEF Before
  <2>2. Body(N, k) = Body(h, k)
    BY <1>1, <2>1
  <2> HIDE DEF Body
  <2> QED BY <1>6, <1>10, <2>2
<1>12. \A k \in 0 .. n : N[k] = h[k]
  <2>1. Agrees(N, h, n)
    BY <1>6, <1>10, <1>11 DEF Agrees
  <2> QED BY <1>1, <2>1, SameLoop
<1>13. N = h
  <2> HIDE DEF Body
  <2> QED BY <1>8, <1>12
<1>14. N \in [0 .. n -> V] /\ N[0] = b /\ \A k \in 1 .. n : N[k] = Body(N, k)
  <2> HIDE DEF Body
  <2> QED BY <1>10, <1>13
<1> QED
  <2>1. \A k \in 1 .. n : k # 0
    BY <1>1
  <2> QED BY <1>9, <1>14, <2>1 DEF n, V, b

LEMMA CopyLoopIs ==
    ASSUME NEW s \in Seq(Chars)
    PROVE  /\ CopyLoop(s) \in [0 .. Len(s) -> Somes] /\ CopyLoop(s)[0] = << <<>> >>
           /\ \A k \in 1 .. Len(s) : CopyLoop(s)[k] =
                IF Read(s, k) = "backslash" /\ k = 1 THEN << <<"backslash">> >>
                ELSE IF Read(s, k) = "backslash" THEN Put(Unescape(Read(s, k - 1)), CopyLoop(s)[k - 2])
                ELSE IF Read(s, k) = "comma" THEN Cons(<<>>, CopyLoop(s)[k - 1])
                ELSE Put(Read(s, k), CopyLoop(s)[k - 1])
<1> DEFINE n == Len(s)
           V == Somes
           b == << <<>> >>
           Body(f, k) == IF k = 0 THEN << <<>> >>
                         ELSE IF Read(s, k) = "backslash" /\ k = 1 THEN << <<"backslash">> >>
                         ELSE IF Read(s, k) = "backslash" THEN Put(Unescape(Read(s, k - 1)), f[k - 2])
                         ELSE IF Read(s, k) = "comma" THEN Cons(<<>>, f[k - 1])
                         ELSE Put(Read(s, k), f[k - 1])
           G == [k \in 1 .. n |-> [x \in V |-> [y \in V |->
                    IF Read(s, k) = "backslash" /\ k = 1 THEN << <<"backslash">> >>
                    ELSE IF Read(s, k) = "backslash" THEN Put(Unescape(Read(s, k - 1)), y)
                    ELSE IF Read(s, k) = "comma" THEN Cons(<<>>, x)
                    ELSE Put(Read(s, k), x)]]]
<1>1. n \in Nat /\ b \in V
  BY DEF Somes
<1>2. \A k \in 1 .. n, x, y \in V :
        (IF Read(s, k) = "backslash" /\ k = 1 THEN << <<"backslash">> >>
         ELSE IF Read(s, k) = "backslash" THEN Put(Unescape(Read(s, k - 1)), y)
         ELSE IF Read(s, k) = "comma" THEN Cons(<<>>, x)
         ELSE Put(Read(s, k), x)) \in V
  <2> SUFFICES ASSUME NEW k \in 1 .. n, NEW x \in V, NEW y \in V
               PROVE  (IF Read(s, k) = "backslash" /\ k = 1 THEN << <<"backslash">> >>
                       ELSE IF Read(s, k) = "backslash" THEN Put(Unescape(Read(s, k - 1)), y)
                       ELSE IF Read(s, k) = "comma" THEN Cons(<<>>, x)
                       ELSE Put(Read(s, k), x)) \in V
    OBVIOUS
  <2>1. Read(s, k) \in Chars
    BY ReadIs
  <2>2. CASE Read(s, k) = "backslash" /\ k = 1
    <3>1. << <<"backslash">> >> \in Somes
      BY DEF Somes, Chars
    <3> QED BY <2>2, <3>1
  <2>3. CASE Read(s, k) = "backslash" /\ k # 1
    <3>1. k - 1 \in 1 .. Len(s)
      BY <2>3
    <3>2. Unescape(Read(s, k - 1)) \in Chars
      BY <3>1, ReadIs, EscapedIs
    <3>3. Put(Unescape(Read(s, k - 1)), y) \in Somes
      BY <3>2, PutIs
    <3> QED BY <2>3, <3>3
  <2>4. CASE Read(s, k) = "comma"
    <3>1. Cons(<<>>, x) \in Somes
      <4> DEFINE T == Seq(Chars)
                 e == <<>>
      <4>1. e \in T /\ x \in Seq(T)
        BY DEF Somes
      <4> HIDE DEF T, e
      <4>2. Cons(e, x) \in Seq(T) /\ Cons(e, x) # <<>>
        BY <4>1, ConsIs
      <4> QED BY <4>2 DEF T, e, Somes
    <3> QED BY <2>4, <3>1
  <2>5. CASE Read(s, k) \notin {"backslash", "comma"}
    <3>1. Put(Read(s, k), x) \in Somes
      BY <2>1, PutIs
    <3> QED BY <2>5, <3>1
  <2> QED BY <2>2, <2>3, <2>4, <2>5
<1>3. G \in [1 .. n -> [V -> [V -> V]]]
  <2> HIDE DEF V, n
  <2> QED BY <1>2
<1>4. \A k \in 1 .. n, x, y \in V :
        G[k][x][y] =
                    IF Read(s, k) = "backslash" /\ k = 1 THEN << <<"backslash">> >>
                    ELSE IF Read(s, k) = "backslash" THEN Put(Unescape(Read(s, k - 1)), y)
                    ELSE IF Read(s, k) = "comma" THEN Cons(<<>>, x)
                    ELSE Put(Read(s, k), x)
  <2> HIDE DEF V, n
  <2> QED OBVIOUS
<1> HIDE DEF n, V, b, G
<1>5. PICK h \in [0 .. n -> V] : Follows(h, n, b, G)
  BY <1>1, <1>3, Recursion
<1>6. h[0] = b /\ \A k \in 1 .. n : h[k] = Body(h, k)
  <2> SUFFICES ASSUME NEW k \in 1 .. n PROVE h[k] = Body(h, k)
    BY <1>5 DEF Follows
  <2>1. k - 1 \in 0 .. n /\ Before(k) \in 0 .. n /\ k # 0 /\ (k # 1 => Before(k) = k - 2)
    BY <1>1 DEF Before
  <2>2. h[k - 1] \in V /\ h[Before(k)] \in V
    BY <2>1
  <2>3. h[k] = G[k][h[k - 1]][h[Before(k)]]
    BY <1>5 DEF Follows
  <2> QED BY <1>4, <2>1, <2>2, <2>3
<1>7. h = [k \in 0 .. n |-> Body(h, k)]
  <2>1. \A k \in 0 .. n : k = 0 \/ k \in 1 .. n
    BY <1>1
  <2>2. h[0] = Body(h, 0)
    BY <1>6 DEF b
  <2> HIDE DEF Body
  <2> QED BY <1>6, <2>1, <2>2
<1> DEFINE N == CHOOSE f : f = [k \in 0 .. n |-> Body(f, k)]
<1>8. N = [k \in 0 .. n |-> Body(N, k)]
  <2> HIDE DEF Body
  <2> QED BY <1>7
<1>9. CopyLoop(s) = N
  BY DEF CopyLoop, n
<1> HIDE DEF N
<1>10. N[0] = b /\ \A k \in 1 .. n : N[k] = Body(N, k)
  <2>1. 0 \in 0 .. n /\ \A k \in 1 .. n : k \in 0 .. n
    BY <1>1
  <2>2. N[0] = b
    BY <1>8, <2>1 DEF b
  <2> HIDE DEF Body
  <2> QED BY <1>8, <2>1, <2>2
<1>11. \A k \in 1 .. n : N[k - 1] = h[k - 1] /\ N[Before(k)] = h[Before(k)] => N[k] = h[k]
  <2> SUFFICES ASSUME NEW k \in 1 .. n, N[k - 1] = h[k - 1], N[Before(k)] = h[Before(k)]
               PROVE  N[k] = h[k]
    OBVIOUS
  <2>1. k # 0 /\ (k # 1 => Before(k) = k - 2)
    BY <1>1 DEF Before
  <2>2. Body(N, k) = Body(h, k)
    BY <1>1, <2>1
  <2> HIDE DEF Body
  <2> QED BY <1>6, <1>10, <2>2
<1>12. \A k \in 0 .. n : N[k] = h[k]
  <2>1. Agrees(N, h, n)
    BY <1>6, <1>10, <1>11 DEF Agrees
  <2> QED BY <1>1, <2>1, SameLoop
<1>13. N = h
  <2> HIDE DEF Body
  <2> QED BY <1>8, <1>12
<1>14. N \in [0 .. n -> V] /\ N[0] = b /\ \A k \in 1 .. n : N[k] = Body(N, k)
  <2> HIDE DEF Body
  <2> QED BY <1>10, <1>13
<1> QED
  <2>1. \A k \in 1 .. n : k # 0
    BY <1>1
  <2> QED BY <1>9, <1>14, <2>1 DEF n, V, b

LEMMA FieldLoopIs ==
    ASSUME NEW s \in Seq(Chars)
    PROVE  /\ FieldLoop(s) \in [0 .. Len(s) -> Seq(Chars)] /\ FieldLoop(s)[0] = <<>>
           /\ \A k \in 1 .. Len(s) : FieldLoop(s)[k] = Escaped(Read(s, k)) \o FieldLoop(s)[k - 1]
<1> DEFINE n == Len(s)
           V == Seq(Chars)
           b == <<>>
           Body(f, k) == IF k = 0 THEN <<>>
                         ELSE Escaped(Read(s, k)) \o f[k - 1]
           G == [k \in 1 .. n |-> [x \in V |-> [y \in V |->
                    Escaped(Read(s, k)) \o x]]]
<1>1. n \in Nat /\ b \in V
  OBVIOUS
<1>2. \A k \in 1 .. n, x, y \in V :
        (Escaped(Read(s, k)) \o x) \in V
  BY ReadIs, EscapedIs
<1>3. G \in [1 .. n -> [V -> [V -> V]]]
  <2> HIDE DEF V, n
  <2> QED BY <1>2
<1>4. \A k \in 1 .. n, x, y \in V :
        G[k][x][y] =
                    Escaped(Read(s, k)) \o x
  <2> HIDE DEF V, n
  <2> QED OBVIOUS
<1> HIDE DEF n, V, b, G
<1>5. PICK h \in [0 .. n -> V] : Follows(h, n, b, G)
  BY <1>1, <1>3, Recursion
<1>6. h[0] = b /\ \A k \in 1 .. n : h[k] = Body(h, k)
  <2> SUFFICES ASSUME NEW k \in 1 .. n PROVE h[k] = Body(h, k)
    BY <1>5 DEF Follows
  <2>1. k - 1 \in 0 .. n /\ Before(k) \in 0 .. n /\ k # 0 /\ (k # 1 => Before(k) = k - 2)
    BY <1>1 DEF Before
  <2>2. h[k - 1] \in V /\ h[Before(k)] \in V
    BY <2>1
  <2>3. h[k] = G[k][h[k - 1]][h[Before(k)]]
    BY <1>5 DEF Follows
  <2> QED BY <1>4, <2>1, <2>2, <2>3
<1>7. h = [k \in 0 .. n |-> Body(h, k)]
  <2>1. \A k \in 0 .. n : k = 0 \/ k \in 1 .. n
    BY <1>1
  <2>2. h[0] = Body(h, 0)
    BY <1>6 DEF b
  <2> HIDE DEF Body
  <2> QED BY <1>6, <2>1, <2>2
<1> DEFINE N == CHOOSE f : f = [k \in 0 .. n |-> Body(f, k)]
<1>8. N = [k \in 0 .. n |-> Body(N, k)]
  <2> HIDE DEF Body
  <2> QED BY <1>7
<1>9. FieldLoop(s) = N
  BY DEF FieldLoop, n
<1> HIDE DEF N
<1>10. N[0] = b /\ \A k \in 1 .. n : N[k] = Body(N, k)
  <2>1. 0 \in 0 .. n /\ \A k \in 1 .. n : k \in 0 .. n
    BY <1>1
  <2>2. N[0] = b
    BY <1>8, <2>1 DEF b
  <2> HIDE DEF Body
  <2> QED BY <1>8, <2>1, <2>2
<1>11. \A k \in 1 .. n : N[k - 1] = h[k - 1] /\ N[Before(k)] = h[Before(k)] => N[k] = h[k]
  <2> SUFFICES ASSUME NEW k \in 1 .. n, N[k - 1] = h[k - 1], N[Before(k)] = h[Before(k)]
               PROVE  N[k] = h[k]
    OBVIOUS
  <2>1. k # 0 /\ (k # 1 => Before(k) = k - 2)
    BY <1>1 DEF Before
  <2>2. Body(N, k) = Body(h, k)
    BY <1>1, <2>1
  <2> HIDE DEF Body
  <2> QED BY <1>6, <1>10, <2>2
<1>12. \A k \in 0 .. n : N[k] = h[k]
  <2>1. Agrees(N, h, n)
    BY <1>6, <1>10, <1>11 DEF Agrees
  <2> QED BY <1>1, <2>1, SameLoop
<1>13. N = h
  <2> HIDE DEF Body
  <2> QED BY <1>8, <1>12
<1>14. N \in [0 .. n -> V] /\ N[0] = b /\ \A k \in 1 .. n : N[k] = Body(N, k)
  <2> HIDE DEF Body
  <2> QED BY <1>10, <1>13
<1> QED
  <2>1. \A k \in 1 .. n : k # 0
    BY <1>1
  <2> QED BY <1>9, <1>14, <2>1 DEF n, V, b

LEMMA WriteLoopIs ==
    ASSUME NEW s \in Seq(Seq(Chars))
    PROVE  /\ WriteLoop(s) \in [0 .. Len(s) -> Seq(Chars)] /\ WriteLoop(s)[0] = <<>>
           /\ \A k \in 1 .. Len(s) : WriteLoop(s)[k] =
                IF k = 1 THEN FieldLoop(Read(s, k))[Len(Read(s, k))]
                ELSE FieldLoop(Read(s, k))[Len(Read(s, k))] \o <<"comma">> \o WriteLoop(s)[k - 1]
<1> DEFINE n == Len(s)
           V == Seq(Chars)
           b == <<>>
           Body(f, k) == IF k = 0 THEN <<>>
                         ELSE IF k = 1 THEN FieldLoop(Read(s, k))[Len(Read(s, k))]
                         ELSE FieldLoop(Read(s, k))[Len(Read(s, k))] \o <<"comma">> \o f[k - 1]
           G == [k \in 1 .. n |-> [x \in V |-> [y \in V |->
                    IF k = 1 THEN FieldLoop(Read(s, k))[Len(Read(s, k))]
                    ELSE FieldLoop(Read(s, k))[Len(Read(s, k))] \o <<"comma">> \o x]]]
<1>1. n \in Nat /\ b \in V
  OBVIOUS
<1>2. \A k \in 1 .. n, x, y \in V :
        (IF k = 1 THEN FieldLoop(Read(s, k))[Len(Read(s, k))]
         ELSE FieldLoop(Read(s, k))[Len(Read(s, k))] \o <<"comma">> \o x) \in V
  <2>1. ASSUME NEW k \in 1 .. n
        PROVE  FieldLoop(Read(s, k))[Len(Read(s, k))] \in Seq(Chars)
    <3> DEFINE f == Read(s, k)
    <3>1. f \in Seq(Chars) /\ Len(f) \in 0 .. Len(f)
      BY ReadIs
    <3> HIDE DEF f
    <3>2. FieldLoop(f)[Len(f)] \in Seq(Chars)
      BY <3>1, FieldLoopIs
    <3> QED BY <3>2 DEF f
  <2>2. <<"comma">> \in Seq(Chars)
    BY DEF Chars
  <2> QED BY <2>1, <2>2
<1>3. G \in [1 .. n -> [V -> [V -> V]]]
  <2> HIDE DEF V, n
  <2> QED BY <1>2
<1>4. \A k \in 1 .. n, x, y \in V :
        G[k][x][y] =
                    IF k = 1 THEN FieldLoop(Read(s, k))[Len(Read(s, k))]
                    ELSE FieldLoop(Read(s, k))[Len(Read(s, k))] \o <<"comma">> \o x
  <2> HIDE DEF V, n
  <2> QED OBVIOUS
<1> HIDE DEF n, V, b, G
<1>5. PICK h \in [0 .. n -> V] : Follows(h, n, b, G)
  BY <1>1, <1>3, Recursion
<1>6. h[0] = b /\ \A k \in 1 .. n : h[k] = Body(h, k)
  <2> SUFFICES ASSUME NEW k \in 1 .. n PROVE h[k] = Body(h, k)
    BY <1>5 DEF Follows
  <2>1. k - 1 \in 0 .. n /\ Before(k) \in 0 .. n /\ k # 0 /\ (k # 1 => Before(k) = k - 2)
    BY <1>1 DEF Before
  <2>2. h[k - 1] \in V /\ h[Before(k)] \in V
    BY <2>1
  <2>3. h[k] = G[k][h[k - 1]][h[Before(k)]]
    BY <1>5 DEF Follows
  <2> QED BY <1>4, <2>1, <2>2, <2>3
<1>7. h = [k \in 0 .. n |-> Body(h, k)]
  <2>1. \A k \in 0 .. n : k = 0 \/ k \in 1 .. n
    BY <1>1
  <2>2. h[0] = Body(h, 0)
    BY <1>6 DEF b
  <2> HIDE DEF Body
  <2> QED BY <1>6, <2>1, <2>2
<1> DEFINE N == CHOOSE f : f = [k \in 0 .. n |-> Body(f, k)]
<1>8. N = [k \in 0 .. n |-> Body(N, k)]
  <2> HIDE DEF Body
  <2> QED BY <1>7
<1>9. WriteLoop(s) = N
  BY DEF WriteLoop, n
<1> HIDE DEF N
<1>10. N[0] = b /\ \A k \in 1 .. n : N[k] = Body(N, k)
  <2>1. 0 \in 0 .. n /\ \A k \in 1 .. n : k \in 0 .. n
    BY <1>1
  <2>2. N[0] = b
    BY <1>8, <2>1 DEF b
  <2> HIDE DEF Body
  <2> QED BY <1>8, <2>1, <2>2
<1>11. \A k \in 1 .. n : N[k - 1] = h[k - 1] /\ N[Before(k)] = h[Before(k)] => N[k] = h[k]
  <2> SUFFICES ASSUME NEW k \in 1 .. n, N[k - 1] = h[k - 1], N[Before(k)] = h[Before(k)]
               PROVE  N[k] = h[k]
    OBVIOUS
  <2>1. k # 0 /\ (k # 1 => Before(k) = k - 2)
    BY <1>1 DEF Before
  <2>2. Body(N, k) = Body(h, k)
    BY <1>1, <2>1
  <2> HIDE DEF Body
  <2> QED BY <1>6, <1>10, <2>2
<1>12. \A k \in 0 .. n : N[k] = h[k]
  <2>1. Agrees(N, h, n)
    BY <1>6, <1>10, <1>11 DEF Agrees
  <2> QED BY <1>1, <2>1, SameLoop
<1>13. N = h
  <2> HIDE DEF Body
  <2> QED BY <1>8, <1>12
<1>14. N \in [0 .. n -> V] /\ N[0] = b /\ \A k \in 1 .. n : N[k] = Body(N, k)
  <2> HIDE DEF Body
  <2> QED BY <1>10, <1>13
<1> QED
  <2>1. \A k \in 1 .. n : k # 0
    BY <1>1
  <2> QED BY <1>9, <1>14, <2>1 DEF n, V, b

LEMMA BytesLoopIs ==
    ASSUME NEW s \in Seq(Seq(Chars))
    PROVE  /\ BytesLoop(s) \in [0 .. Len(s) -> Nat] /\ BytesLoop(s)[0] = 0
           /\ \A k \in 1 .. Len(s) : BytesLoop(s)[k] = Len(Read(s, k)) + 1 + BytesLoop(s)[k - 1]
<1> DEFINE n == Len(s)
           V == Nat
           b == 0
           Body(f, k) == IF k = 0 THEN 0
                         ELSE Len(Read(s, k)) + 1 + f[k - 1]
           G == [k \in 1 .. n |-> [x \in V |-> [y \in V |->
                    Len(Read(s, k)) + 1 + x]]]
<1>1. n \in Nat /\ b \in V
  OBVIOUS
<1>2. \A k \in 1 .. n, x, y \in V :
        (Len(Read(s, k)) + 1 + x) \in V
  <2>1. \A k \in 1 .. n : Len(Read(s, k)) \in Nat
    BY ReadIs
  <2> QED BY <2>1
<1>3. G \in [1 .. n -> [V -> [V -> V]]]
  <2> HIDE DEF V, n
  <2> QED BY <1>2
<1>4. \A k \in 1 .. n, x, y \in V :
        G[k][x][y] =
                    Len(Read(s, k)) + 1 + x
  <2> HIDE DEF V, n
  <2> QED OBVIOUS
<1> HIDE DEF n, V, b, G
<1>5. PICK h \in [0 .. n -> V] : Follows(h, n, b, G)
  BY <1>1, <1>3, Recursion
<1>6. h[0] = b /\ \A k \in 1 .. n : h[k] = Body(h, k)
  <2> SUFFICES ASSUME NEW k \in 1 .. n PROVE h[k] = Body(h, k)
    BY <1>5 DEF Follows
  <2>1. k - 1 \in 0 .. n /\ Before(k) \in 0 .. n /\ k # 0 /\ (k # 1 => Before(k) = k - 2)
    BY <1>1 DEF Before
  <2>2. h[k - 1] \in V /\ h[Before(k)] \in V
    BY <2>1
  <2>3. h[k] = G[k][h[k - 1]][h[Before(k)]]
    BY <1>5 DEF Follows
  <2> QED BY <1>4, <2>1, <2>2, <2>3
<1>7. h = [k \in 0 .. n |-> Body(h, k)]
  <2>1. \A k \in 0 .. n : k = 0 \/ k \in 1 .. n
    BY <1>1
  <2>2. h[0] = Body(h, 0)
    BY <1>6 DEF b
  <2> HIDE DEF Body
  <2> QED BY <1>6, <2>1, <2>2
<1> DEFINE N == CHOOSE f : f = [k \in 0 .. n |-> Body(f, k)]
<1>8. N = [k \in 0 .. n |-> Body(N, k)]
  <2> HIDE DEF Body
  <2> QED BY <1>7
<1>9. BytesLoop(s) = N
  BY DEF BytesLoop, n
<1> HIDE DEF N
<1>10. N[0] = b /\ \A k \in 1 .. n : N[k] = Body(N, k)
  <2>1. 0 \in 0 .. n /\ \A k \in 1 .. n : k \in 0 .. n
    BY <1>1
  <2>2. N[0] = b
    BY <1>8, <2>1 DEF b
  <2> HIDE DEF Body
  <2> QED BY <1>8, <2>1, <2>2
<1>11. \A k \in 1 .. n : N[k - 1] = h[k - 1] /\ N[Before(k)] = h[Before(k)] => N[k] = h[k]
  <2> SUFFICES ASSUME NEW k \in 1 .. n, N[k - 1] = h[k - 1], N[Before(k)] = h[Before(k)]
               PROVE  N[k] = h[k]
    OBVIOUS
  <2>1. k # 0 /\ (k # 1 => Before(k) = k - 2)
    BY <1>1 DEF Before
  <2>2. Body(N, k) = Body(h, k)
    BY <1>1, <2>1
  <2> HIDE DEF Body
  <2> QED BY <1>6, <1>10, <2>2
<1>12. \A k \in 0 .. n : N[k] = h[k]
  <2>1. Agrees(N, h, n)
    BY <1>6, <1>10, <1>11 DEF Agrees
  <2> QED BY <1>1, <2>1, SameLoop
<1>13. N = h
  <2> HIDE DEF Body
  <2> QED BY <1>8, <1>12
<1>14. N \in [0 .. n -> V] /\ N[0] = b /\ \A k \in 1 .. n : N[k] = Body(N, k)
  <2> HIDE DEF Body
  <2> QED BY <1>10, <1>13
<1> QED
  <2>1. \A k \in 1 .. n : k # 0
    BY <1>1
  <2> QED BY <1>9, <1>14, <2>1 DEF n, V, b

(***************************************************************************)
(* Splitting a line                                                        *)
(***************************************************************************)

(* The two loops of line_split_and_unescape() agree on the number of       *)
(* fields, and the fields fit in one byte more than the line.              *)
Bytes(fields) == BytesLoop(fields)[Len(fields)]

LEMMA BytesCons ==
    ASSUME NEW f \in Seq(Chars), NEW r \in Seq(Seq(Chars))
    PROVE  Bytes(Cons(f, r)) = Len(f) + 1 + Bytes(r) /\ Bytes(r) \in Nat
<1> DEFINE T == Seq(Chars)
           n == Len(r)
           s == Cons(f, r)
<1>1. f \in T /\ r \in Seq(T) /\ n \in Nat
  OBVIOUS
<1> HIDE DEF T
<1>2. s \in Seq(T) /\ Len(s) = n + 1
  BY <1>1, ConsIs
<1>3. Read(s, n + 1) = f /\ \A k \in 1 .. n : Read(s, k) = Read(r, k)
  BY <1>1, ReadCons
<1> HIDE DEF s, n
<1>4. /\ BytesLoop(s)[0] = 0
      /\ \A k \in 1 .. n + 1 : BytesLoop(s)[k] = Len(Read(s, k)) + 1 + BytesLoop(s)[k - 1]
  BY <1>2, BytesLoopIs DEF T
<1>5. /\ BytesLoop(r) \in [0 .. n -> Nat] /\ BytesLoop(r)[0] = 0
      /\ \A k \in 1 .. n : BytesLoop(r)[k] = Len(Read(r, k)) + 1 + BytesLoop(r)[k - 1]
  BY BytesLoopIs DEF n
<1>6. \A k \in 1 .. n : BytesLoop(s)[k - 1] = BytesLoop(r)[k - 1]
                           => BytesLoop(s)[k] = BytesLoop(r)[k]
  <2> SUFFICES ASSUME NEW k \in 1 .. n, BytesLoop(s)[k - 1] = BytesLoop(r)[k - 1]
               PROVE  BytesLoop(s)[k] = BytesLoop(r)[k]
    OBVIOUS
  <2>1. k \in 1 .. n + 1 /\ Read(s, k) = Read(r, k)
    BY <1>1, <1>3
  <2>2. BytesLoop(s)[k] = Len(Read(s, k)) + 1 + BytesLoop(s)[k - 1]
    BY <1>4, <2>1
  <2>3. BytesLoop(r)[k] = Len(Read(r, k)) + 1 + BytesLoop(r)[k - 1]
    BY <1>5
  <2> QED BY <2>1, <2>2, <2>3
<1>7. BytesLoop(s)[n] = BytesLoop(r)[n]
  <2>1. Agrees(BytesLoop(s), BytesLoop(r), n)
    BY <1>4, <1>5, <1>6 DEF Agrees
  <2>2. \A k \in 0 .. n : BytesLoop(s)[k] = BytesLoop(r)[k]
    BY <1>1, <2>1, SameLoop
  <2> QED BY <1>1, <2>2
<1>8. BytesLoop(s)[n + 1] = Len(f) + 1 + BytesLoop(s)[n]
  <2>1. PICK m \in Nat : m = n + 1
    BY <1>1
  <2>2. m \in 1 .. n + 1 /\ m - 1 = n
    BY <1>1, <2>1
  <2>3. BytesLoop(s)[m] = Len(Read(s, m)) + 1 + BytesLoop(s)[m - 1]
    BY <1>4, <2>2
  <2>4. Read(s, m) = f /\ BytesLoop(s)[m] = BytesLoop(s)[n + 1]
    BY <1>3, <2>1
  <2> QED BY <2>2, <2>3, <2>4
<1>9. BytesLoop(r)[n] \in Nat
  BY <1>1, <1>5
<1> QED BY <1>2, <1>7, <1>8, <1>9 DEF Bytes, n, s

LEMMA BytesOne == Bytes(<< <<>> >>) = 1 /\ Bytes(<< <<"backslash">> >>) = 2
<1>1. ASSUME NEW f \in Seq(Chars) PROVE Bytes(<<f>>) = Len(f) + 1
  <2> DEFINE r == <<>>
             s == <<f>>
  <2>1. Cons(f, r) = s /\ r \in Seq(Seq(Chars)) /\ Len(r) = 0
    BY DEF Cons
  <2> HIDE DEF r, s
  <2>2. Bytes(s) = Len(f) + 1 + Bytes(r) /\ Bytes(r) = 0
    BY <2>1, BytesCons, BytesLoopIs DEF Bytes
  <2> QED BY <2>2 DEF s
<1>2. /\ <<>> \in Seq(Chars) /\ Len(<<>>) = 0
      /\ <<"backslash">> \in Seq(Chars) /\ Len(<<"backslash">>) = 1
  BY DEF Chars
<1> DEFINE a == <<>>
           b == <<"backslash">>
<1>3. a \in Seq(Chars) /\ Len(a) = 0 /\ b \in Seq(Chars) /\ Len(b) = 1
  BY <1>2
<1> HIDE DEF a, b
<1>4. Bytes(<<a>>) = 1 /\ Bytes(<<b>>) = 2
  <2>1. Bytes(<<a>>) = Len(a) + 1 /\ Bytes(<<b>>) = Len(b) + 1
    BY <1>1, <1>3
  <2> QED BY <1>3, <2>1
<1> QED BY <1>4 DEF a, b

LEMMA PutFacts ==
    ASSUME NEW c \in Chars, NEW x \in Somes
    PROVE  /\ Len(Put(c, x)) = Len(x) /\ Len(x) \in Nat
           /\ Bytes(Put(c, x)) = Bytes(x) + 1 /\ Bytes(x) \in Nat
           /\ Put(c, x) # << <<>> >>
<1> DEFINE h == Head(x)
           t == Tail(x)
           T == Seq(Chars)
<1>1. h \in T /\ t \in Seq(T) /\ x = Cons(h, t) /\ Cons(c, h) \in T
  BY PutIs
<1>2. Put(c, x) = Cons(Cons(c, h), t)
  BY DEF Put
<1> HIDE DEF h, t, T
<1>3. Len(Cons(h, t)) = Len(t) + 1 /\ Len(Cons(Cons(c, h), t)) = Len(t) + 1 /\ Len(t) \in Nat
  BY <1>1, ConsIs
<1>4. /\ Bytes(Cons(h, t)) = Len(h) + 1 + Bytes(t) /\ Bytes(t) \in Nat
      /\ Bytes(Cons(Cons(c, h), t)) = Len(Cons(c, h)) + 1 + Bytes(t)
  BY <1>1, BytesCons DEF T
<1>5. Len(Cons(c, h)) = Len(h) + 1 /\ Len(h) \in Nat
  BY <1>1, ConsIs DEF T
<1>6. Put(c, x) # << <<>> >>
  <2>1. Bytes(Put(c, x)) # 1
    BY <1>2, <1>4, <1>5
  <2> QED BY <2>1, BytesOne
<1> QED BY <1>1, <1>2, <1>3, <1>4, <1>5, <1>6

LEMMA CommaFacts ==
    ASSUME NEW x \in Somes
    PROVE  /\ Len(Cons(<<>>, x)) = Len(x) + 1 /\ Len(x) \in Nat
           /\ Bytes(Cons(<<>>, x)) = Bytes(x) + 1 /\ Bytes(x) \in Nat
           /\ Cons(<<>>, x) # << <<>> >>
<1> DEFINE T == Seq(Chars)
           e == <<>>
<1>1. e \in T /\ x \in Seq(T) /\ Len(e) = 0 /\ Len(x) \in Nat /\ Len(x) # 0
  BY DEF Somes
<1> HIDE DEF T, e
<1>2. Len(Cons(e, x)) = Len(x) + 1
  BY <1>1, ConsIs
<1>3. Bytes(Cons(e, x)) = Bytes(x) + 1 /\ Bytes(x) \in Nat
  <2>1. Bytes(Cons(e, x)) = Len(e) + 1 + Bytes(x) /\ Bytes(x) \in Nat
    BY <1>1, BytesCons DEF T
  <2> QED BY <1>1, <2>1
<1>4. Cons(e, x) # <<e>>
  <2>1. Len(<<e>>) = 1
    OBVIOUS
  <2> QED BY <1>1, <1>2, <2>1
<1> QED BY <1>1, <1>2, <1>3, <1>4 DEF e

LEMMA LoopsAgree ==
    ASSUME NEW s \in Seq(Chars), NEW m \in 0 .. Len(s)
    PROVE  /\ Len(CopyLoop(s)[m]) = CountLoop(s)[m]
           /\ Bytes(CopyLoop(s)[m]) <= m + 1 /\ Bytes(CopyLoop(s)[m]) \in Nat
           /\ m # 0 => CopyLoop(s)[m] # << <<>> >>
<1> DEFINE n == Len(s)
           X == CopyLoop(s)
           C == CountLoop(s)
           S == {k \in 0 .. n : /\ Len(X[k]) = C[k]
                                /\ Bytes(X[k]) <= k + 1 /\ Bytes(X[k]) \in Nat
                                /\ k # 0 => X[k] # << <<>> >>}
<1>1. n \in Nat /\ \A k \in 0 .. n : X[k] \in Somes
  BY CopyLoopIs
<1>2. X[0] = << <<>> >> /\ C[0] = 1
  BY CopyLoopIs, CountLoopIs
<1>3. ASSUME NEW k \in 1 .. n
      PROVE  X[k] = IF Read(s, k) = "backslash" /\ k = 1 THEN << <<"backslash">> >>
                    ELSE IF Read(s, k) = "backslash" THEN Put(Unescape(Read(s, k - 1)), X[k - 2])
                    ELSE IF Read(s, k) = "comma" THEN Cons(<<>>, X[k - 1])
                    ELSE Put(Read(s, k), X[k - 1])
  BY CopyLoopIs
<1>4. ASSUME NEW k \in 1 .. n
      PROVE  C[k] = IF Read(s, k) = "backslash" /\ k > 1 THEN C[k - 2]
                    ELSE IF Read(s, k) = "comma" THEN 1 + C[k - 1]
                    ELSE C[k - 1]
  BY CountLoopIs
<1>5. \A k \in 0 .. n : C[k] \in Nat
  BY CountLoopIs
<1>6. \A k \in 1 .. n : Read(s, k) \in Chars
  BY ReadIs
<1> HIDE DEF n, X, C
<1>7. 0 \in S
  <2>1. Len(<< <<>> >>) = 1
    OBVIOUS
  <2>2. Len(X[0]) = C[0] /\ Bytes(X[0]) = 1
    BY <1>2, <2>1, BytesOne
  <2>3. 0 \in 0 .. n
    BY <1>1
  <2> QED BY <2>2, <2>3
<1>8. ASSUME NEW k \in 1 .. n, k - 1 \in S, Before(k) \in S PROVE k \in S
  <2>1. k \in Nat /\ k # 0 /\ k - 1 \in 0 .. n /\ k \in 0 .. n
    BY <1>1
  <2>2. /\ X[k - 1] \in Somes /\ C[k - 1] \in Nat
        /\ Len(X[k - 1]) = C[k - 1] /\ Bytes(X[k - 1]) <= k
    BY <1>1, <1>5, <1>8, <2>1
  <2>3. SUFFICES /\ Len(X[k]) = C[k]
                 /\ Bytes(X[k]) <= k + 1 /\ Bytes(X[k]) \in Nat
                 /\ X[k] # << <<>> >>
    BY <2>1
  <2>4. CASE Read(s, k) = "backslash" /\ k = 1
    <3>1. X[k] = << <<"backslash">> >> /\ C[k] = C[0]
      BY <1>3, <1>4, <2>4
    <3>2. Len(X[k]) = 1
      BY <3>1
    <3> QED BY <1>2, <2>4, <3>1, <3>2, BytesOne
  <2>5. CASE Read(s, k) = "backslash" /\ k # 1
    <3> DEFINE c == Unescape(Read(s, k - 1))
               x == X[k - 2]
    <3>1. k > 1 /\ k - 1 \in 1 .. n /\ k - 2 \in 0 .. n /\ Before(k) = k - 2
      BY <1>1, <2>5 DEF Before
    <3>2. c \in Chars
      BY <1>6, <3>1, EscapedIs
    <3>3. x \in Somes /\ Len(x) = C[k - 2] /\ Bytes(x) <= k - 1
      BY <1>1, <1>8, <3>1
    <3>4. X[k] = Put(c, x) /\ C[k] = C[k - 2]
      BY <1>3, <1>4, <2>5, <3>1
    <3> HIDE DEF c, x
    <3>5. /\ Len(Put(c, x)) = Len(x) /\ Bytes(Put(c, x)) = Bytes(x) + 1 /\ Bytes(x) \in Nat
          /\ Put(c, x) # << <<>> >>
      BY <3>2, <3>3, PutFacts
    <3> QED BY <2>1, <3>3, <3>4, <3>5
  <2>6. CASE Read(s, k) = "comma"
    <3>1. X[k] = Cons(<<>>, X[k - 1]) /\ C[k] = 1 + C[k - 1]
      BY <1>3, <1>4, <2>6
    <3>2. /\ Len(Cons(<<>>, X[k - 1])) = Len(X[k - 1]) + 1
          /\ Bytes(Cons(<<>>, X[k - 1])) = Bytes(X[k - 1]) + 1 /\ Bytes(X[k - 1]) \in Nat
          /\ Cons(<<>>, X[k - 1]) # << <<>> >>
      BY <2>2, CommaFacts
    <3> QED BY <2>1, <2>2, <3>1, <3>2
  <2>7. CASE Read(s, k) \notin {"backslash", "comma"}
    <3> DEFINE c == Read(s, k)
               x == X[k - 1]
    <3>1. X[k] = Put(c, x) /\ C[k] = C[k - 1]
      BY <1>3, <1>4, <2>7
    <3>2. c \in Chars /\ x \in Somes
      BY <1>6, <2>2
    <3>3. Len(x) = C[k - 1] /\ Bytes(x) <= k
      BY <2>2
    <3> HIDE DEF c, x
    <3>4. /\ Len(Put(c, x)) = Len(x) /\ Bytes(Put(c, x)) = Bytes(x) + 1 /\ Bytes(x) \in Nat
          /\ Put(c, x) # << <<>> >>
      BY <3>2, PutFacts
    <3> QED BY <2>1, <3>1, <3>3, <3>4
  <2> QED BY <2>4, <2>5, <2>6, <2>7
<1>9. m \in S
  <2> HIDE DEF S
  <2>1. \A k \in 1 .. n : k - 1 \in S /\ Before(k) \in S => k \in S
    BY <1>8
  <2>2. \A k \in 0 .. n : k \in S
    BY <1>1, <1>7, <2>1, LoopInduction
  <2> QED BY <2>2 DEF n
<1> QED BY <1>9 DEF X, C

(* What is split off a line that is read from its k-th character from the  *)
(* end does not depend on the characters before it.                        *)
Split(s) == CopyLoop(s)[Len(s)]

LEMMA SplitIs ==
    ASSUME NEW s \in Seq(Chars)
    PROVE  /\ Split(s) \in Somes
           /\ s = <<>> => Split(s) = << <<>> >>
<1>1. CopyLoop(s) \in [0 .. Len(s) -> Somes] /\ CopyLoop(s)[0] = << <<>> >>
  BY CopyLoopIs
<1>2. Len(s) \in 0 .. Len(s) /\ (s = <<>> => Len(s) = 0)
  OBVIOUS
<1> QED BY <1>1, <1>2 DEF Split

LEMMA SplitAfter ==
    ASSUME NEW u \in Seq(Chars), NEW t \in Seq(Chars)
    PROVE  CopyLoop(u \o t)[Len(t)] = Split(t)
<1> DEFINE s == u \o t
           n == Len(t)
           Body(f, k) == IF Read(t, k) = "backslash" /\ k = 1 THEN << <<"backslash">> >>
                         ELSE IF Read(t, k) = "backslash"
                              THEN Put(Unescape(Read(t, k - 1)), f[Before(k)])
                         ELSE IF Read(t, k) = "comma" THEN Cons(<<>>, f[k - 1])
                         ELSE Put(Read(t, k), f[k - 1])
<1>1. s \in Seq(Chars) /\ n \in Nat /\ n <= Len(s) /\ Len(s) \in Nat
  OBVIOUS
<1>2. \A k \in 1 .. n : Read(s, k) = Read(t, k)
  BY ReadAfter
<1> HIDE DEF s
<1>3. CopyLoop(s)[0] = << <<>> >> /\ CopyLoop(t)[0] = << <<>> >>
  BY <1>1, CopyLoopIs
<1>4. \A k \in 1 .. n : k \in 1 .. Len(s) /\ (k # 1 => k - 1 \in 1 .. n /\ k - 2 = Before(k))
  BY <1>1 DEF Before
<1>5. ASSUME NEW k \in 1 .. n PROVE CopyLoop(t)[k] = Body(CopyLoop(t), k)
  BY <1>4, CopyLoopIs
<1>6. ASSUME NEW k \in 1 .. n PROVE CopyLoop(s)[k] = Body(CopyLoop(s), k)
  <2>1. CopyLoop(s)[k] =
          IF Read(s, k) = "backslash" /\ k = 1 THEN << <<"backslash">> >>
          ELSE IF Read(s, k) = "backslash" THEN Put(Unescape(Read(s, k - 1)), CopyLoop(s)[k - 2])
          ELSE IF Read(s, k) = "comma" THEN Cons(<<>>, CopyLoop(s)[k - 1])
          ELSE Put(Read(s, k), CopyLoop(s)[k - 1])
    BY <1>1, <1>4, CopyLoopIs
  <2>2. k # 1 => Read(s, k - 1) = Read(t, k - 1)
    BY <1>2, <1>4
  <2> QED BY <1>2, <1>4, <2>1, <2>2
<1>7. Agrees(CopyLoop(s), CopyLoop(t), n)
  BY <1>3, <1>5, <1>6 DEF Agrees
<1>8. \A k \in 0 .. n : CopyLoop(s)[k] = CopyLoop(t)[k]
  BY <1>1, <1>7, SameLoop
<1>9. CopyLoop(s)[n] = CopyLoop(t)[n]
  BY <1>1, <1>8
<1> QED BY <1>9 DEF s, Split

LEMMA SplitComma ==
    ASSUME NEW t \in Seq(Chars) PROVE Split(<<"comma">> \o t) = Cons(<<>>, Split(t))
<1> DEFINE u == <<"comma">>
           n == Len(t)
           s == u \o t
<1>1. u \in Seq(Chars) /\ Len(u) = 1 /\ u[1] = "comma" /\ n \in Nat
  BY DEF Chars
<1> HIDE DEF u
<1>2. s \in Seq(Chars) /\ Len(s) = n + 1 /\ s[1] = "comma"
  <2>1. /\ s \in Seq(Chars) /\ Len(s) = Len(u) + n
        /\ \A i \in 1 .. Len(u) : s[i] = u[i]
    <3>1. u \in Seq(Chars)
      BY <1>1
    <3> QED BY <3>1
  <2> HIDE DEF s, n
  <2> QED BY <1>1, <2>1
<1>3. CopyLoop(s)[n] = Split(t)
  BY <1>1, SplitAfter
<1> HIDE DEF s, n
<1>4. PICK m \in Nat : m = n + 1 /\ m - 1 = n /\ m \in 1 .. Len(s)
  BY <1>1, <1>2
<1>5. Read(s, m) = "comma"
  <2>1. Len(s) - m + 1 = 1
    BY <1>2, <1>4
  <2> QED BY <1>2, <2>1 DEF Read
<1>6. CopyLoop(s)[m] = Cons(<<>>, CopyLoop(s)[m - 1])
  BY <1>2, <1>4, <1>5, CopyLoopIs
<1> QED BY <1>2, <1>3, <1>4, <1>6 DEF Split, s, u

LEMMA SplitChar ==
    ASSUME NEW c \in Chars, NEW t \in Seq(Chars)
    PROVE  Split(Escaped(c) \o t) = Put(c, Split(t))
<1> DEFINE u == Escaped(c)
           n == Len(t)
           s == u \o t
<1>1. u \in Seq(Chars) /\ n \in Nat
  BY EscapedIs
<1>2. \/ Len(u) = 1 /\ u[1] = c /\ c \notin {"comma", "backslash"}
      \/ /\ Len(u) = 2 /\ u[1] = "backslash" /\ u[2] \in Chars /\ Unescape(u[2]) = c
  <2>1. CASE c \in {"comma", "backslash"}
    BY <2>1 DEF Escaped, Unescape, Chars
  <2>2. CASE c = "newline"
    BY <2>2 DEF Escaped, Unescape, Chars
  <2>3. CASE c \notin {"comma", "backslash", "newline"}
    BY <2>3 DEF Escaped
  <2> QED BY <2>1, <2>2, <2>3
<1> HIDE DEF u
<1>3. /\ s \in Seq(Chars) /\ Len(s) = n + Len(u) /\ Len(u) \in Nat
      /\ \A i \in 1 .. Len(u) : s[i] = u[i]
  BY <1>1
<1>4. CopyLoop(s)[n] = Split(t)
  BY <1>1, SplitAfter
<1> HIDE DEF s, n
<1>5. CASE Len(u) = 1 /\ u[1] = c /\ c \notin {"comma", "backslash"}
  <2>1. PICK m \in Nat : m = n + 1 /\ m - 1 = n /\ m \in 1 .. Len(s) /\ Len(s) = m
    BY <1>1, <1>3, <1>5
  <2>2. Read(s, m) = c
    <3>1. Len(s) - m + 1 = 1 /\ s[1] = u[1]
      BY <1>3, <1>5, <2>1
    <3> QED BY <1>5, <3>1 DEF Read
  <2>3. CopyLoop(s)[m] = Put(c, CopyLoop(s)[m - 1])
    BY <1>3, <1>5, <2>1, <2>2, CopyLoopIs
  <2> QED BY <1>4, <2>1, <2>3 DEF Split, s, u
<1>6. CASE Len(u) = 2 /\ u[1] = "backslash" /\ u[2] \in Chars /\ Unescape(u[2]) = c
  <2>1. PICK m \in Nat : m = n + 2 /\ m - 2 = n /\ m \in 1 .. Len(s) /\ Len(s) = m /\ m # 1
    BY <1>1, <1>3, <1>6
  <2>2. Read(s, m) = "backslash" /\ Read(s, m - 1) = u[2]
    <3>1. Len(s) - m + 1 = 1 /\ s[1] = u[1] /\ Len(s) - (m - 1) + 1 = 2 /\ s[2] = u[2]
      BY <1>3, <1>6, <2>1
    <3> QED BY <1>6, <3>1 DEF Read
  <2>3. CopyLoop(s)[m] = Put(Unescape(Read(s, m - 1)), CopyLoop(s)[m - 2])
    BY <1>3, <2>1, <2>2, CopyLoopIs
  <2> QED BY <1>4, <1>6, <2>1, <2>2, <2>3 DEF Split, s, u
<1> QED BY <1>2, <1>5, <1>6

(* The last k of a sequence.                                               *)
LastOf(s, k) == [i \in 1 .. k |-> s[Len(s) - k + i]]

LEMMA LastsAre ==
    ASSUME NEW T, NEW s \in Seq(T)
    PROVE  /\ LastOf(s, 0) = <<>> /\ LastOf(s, Len(s)) = s
           /\ \A k \in 0 .. Len(s) : LastOf(s, k) \in Seq(T)
           /\ \A k \in 1 .. Len(s) : LastOf(s, k) = Cons(Read(s, k), LastOf(s, k - 1))
<1>1. LastOf(s, 0) = <<>>
  BY DEF LastOf
<1>2. LastOf(s, Len(s)) = s
  BY DEF LastOf
<1>3. ASSUME NEW k \in 0 .. Len(s)
      PROVE  /\ LastOf(s, k) \in Seq(T) /\ Len(LastOf(s, k)) = k
             /\ \A i \in 1 .. k : LastOf(s, k)[i] = s[Len(s) - k + i]
  <2>1. \A i \in 1 .. k : s[Len(s) - k + i] \in T
    OBVIOUS
  <2> QED BY <2>1 DEF LastOf
<1>4. ASSUME NEW k \in 1 .. Len(s)
      PROVE  LastOf(s, k) = Cons(Read(s, k), LastOf(s, k - 1))
  <2> DEFINE a == Read(s, k)
             x == LastOf(s, k)
             y == LastOf(s, k - 1)
  <2>1. PICK m \in Nat : m = k - 1 /\ k = m + 1 /\ m \in 0 .. Len(s)
    OBVIOUS
  <2>2. a \in T /\ a = s[Len(s) - k + 1]
    BY ReadIs DEF Read
  <2>3. x \in Seq(T) /\ Len(x) = k /\ \A i \in 1 .. k : x[i] = s[Len(s) - k + i]
    BY <1>3
  <2>4. y \in Seq(T) /\ Len(y) = m /\ \A i \in 1 .. m : y[i] = s[Len(s) - m + i]
    BY <1>3, <2>1
  <2> HIDE DEF a, x, y
  <2>5. /\ Cons(a, y) \in Seq(T) /\ Len(Cons(a, y)) = m + 1 /\ Cons(a, y)[1] = a
        /\ \A i \in 1 .. m : Cons(a, y)[i + 1] = y[i]
    <3>1. a \in T /\ y \in Seq(T)
      BY <2>2, <2>4
    <3>2. /\ Cons(a, y) \in Seq(T) /\ Len(Cons(a, y)) = Len(y) + 1 /\ Cons(a, y)[1] = a
          /\ \A i \in 1 .. Len(y) : Cons(a, y)[i + 1] = y[i]
      BY ONLY <3>1, ConsIs
    <3> QED BY <2>4, <3>2
  <2>6. ASSUME NEW i \in 1 .. k PROVE x[i] = Cons(a, y)[i]
    <3>1. CASE i = 1
      BY <2>2, <2>3, <2>5, <3>1
    <3>2. CASE i # 1
      <4>1. PICK j \in 1 .. m : i = j + 1
        BY <2>1, <3>2
      <4>2. Len(s) - m + j = Len(s) - k + i
        BY <2>1, <4>1
      <4>3. x[i] = s[Len(s) - k + i] /\ y[j] = s[Len(s) - m + j]
        BY <2>3, <2>4, <4>1
      <4>4. Cons(a, y)[i] = y[j]
        BY <2>5, <4>1
      <4> QED BY <4>2, <4>3, <4>4
    <3> QED BY <3>1, <3>2
  <2>7. x = Cons(a, y)
    <3> DEFINE z == Cons(a, y)
    <3>1. z \in Seq(T) /\ Len(z) = k /\ \A i \in 1 .. k : x[i] = z[i]
      BY <2>1, <2>5, <2>6
    <3>2. x \in Seq(T) /\ Len(x) = k
      BY <2>3
    <3> HIDE DEF z
    <3>3. x = z
      BY ONLY <3>1, <3>2
    <3> QED BY <3>3 DEF z
  <2> QED BY <2>7 DEF a, x, y
<1> QED BY <1>1, <1>2, <1>3, <1>4

(* A field that is written is split off again, up to what comes after it.  *)
LEMMA SplitField ==
    ASSUME NEW f \in Seq(Chars), NEW t \in Seq(Chars), NEW r \in Seq(Seq(Chars)),
           Split(t) = Cons(<<>>, r)
    PROVE  Split(FieldLoop(f)[Len(f)] \o t) = Cons(f, r)
<1> DEFINE n == Len(f)
           X == FieldLoop(f)
           S == {k \in 0 .. n : Split(X[k] \o t) = Cons(LastOf(f, k), r)}
<1>1. n \in Nat
  OBVIOUS
<1>2. X[0] = <<>> /\ \A k \in 0 .. n : X[k] \in Seq(Chars)
  BY FieldLoopIs
<1>3. \A k \in 1 .. n : X[k] = Escaped(Read(f, k)) \o X[k - 1] /\ Read(f, k) \in Chars
  BY FieldLoopIs, ReadIs
<1>4. /\ LastOf(f, 0) = <<>> /\ LastOf(f, n) = f
      /\ \A k \in 0 .. n : LastOf(f, k) \in Seq(Chars)
      /\ \A k \in 1 .. n : LastOf(f, k) = Cons(Read(f, k), LastOf(f, k - 1))
  BY LastsAre
<1> HIDE DEF n, X
<1>5. 0 \in S
  <2>1. \A x \in Seq(Chars) : x = <<>> => x \o t = t
    OBVIOUS
  <2>2. X[0] \o t = t
    BY <1>1, <1>2, <2>1
  <2>3. Split(X[0] \o t) = Cons(LastOf(f, 0), r)
    BY <1>4, <2>2
  <2>4. 0 \in 0 .. n
    BY <1>1
  <2> QED BY <2>3, <2>4
<1>6. ASSUME NEW k \in 1 .. n, k - 1 \in S PROVE k \in S
  <2> DEFINE c == Read(f, k)
             w == X[k - 1]
             l == LastOf(f, k - 1)
             e == Escaped(c)
             T == Seq(Chars)
  <2>1. k \in 0 .. n /\ k - 1 \in 0 .. n
    BY <1>1
  <2>2. /\ c \in Chars /\ w \in Seq(Chars) /\ l \in T /\ e \in Seq(Chars)
        /\ X[k] = e \o w /\ LastOf(f, k) = Cons(c, l) /\ Split(w \o t) = Cons(l, r)
    BY <1>2, <1>3, <1>4, <1>6, <2>1, EscapedIs
  <2> HIDE DEF c, w, l
  <2>3. (e \o w) \o t = e \o (w \o t) /\ w \o t \in Seq(Chars)
    <3> HIDE DEF e
    <3> QED BY <2>2
  <2>4. Split(e \o (w \o t)) = Put(c, Split(w \o t))
    BY <2>2, <2>3, SplitChar
  <2>5. Put(c, Cons(l, r)) = Cons(Cons(c, l), r)
    <3>1. r \in Seq(T)
      OBVIOUS
    <3> HIDE DEF T
    <3>2. Head(Cons(l, r)) = l /\ Tail(Cons(l, r)) = r
      BY <2>2, <3>1, ConsIs
    <3> QED BY <3>2 DEF Put
  <2>6. Split(X[k] \o t) = Cons(LastOf(f, k), r)
    BY <2>2, <2>3, <2>4, <2>5
  <2> QED BY <2>1, <2>6
<1>7. n \in S
  <2> HIDE DEF S
  <2>1. \A k \in 1 .. n : k - 1 \in S /\ Before(k) \in S => k \in S
    BY <1>6
  <2>2. \A k \in 0 .. n : k \in S
    BY <1>1, <1>5, <2>1, LoopInduction
  <2> QED BY <1>1, <2>2
<1> QED BY <1>4, <1>7 DEF n, X

(* What is written from some fields is split into them.                    *)
LEMMA SplitWritten ==
    ASSUME NEW s \in Seq(Seq(Chars)), s # <<>>
    PROVE  Split(Written(s)) = s /\ Written(s) \in Seq(Chars)
<1> DEFINE n == Len(s)
           X == WriteLoop(s)
           T == Seq(Chars)
           S == {k \in 0 .. n : k # 0 => Split(X[k]) = LastOf(s, k)}
           Text(f) == FieldLoop(f)[Len(f)]
<1>1. n \in Nat /\ n # 0 /\ s \in Seq(T)
  OBVIOUS
<1>2. \A k \in 0 .. n : X[k] \in Seq(Chars)
  BY WriteLoopIs
<1>3. ASSUME NEW k \in 1 .. n
      PROVE  /\ X[k] = IF k = 1 THEN Text(Read(s, k)) ELSE Text(Read(s, k)) \o <<"comma">> \o X[k - 1]
             /\ Read(s, k) \in Seq(Chars)
  BY WriteLoopIs, ReadIs
<1>4. \A f \in Seq(Chars) : Text(f) \in Seq(Chars)
  <2> SUFFICES ASSUME NEW f \in Seq(Chars) PROVE Text(f) \in Seq(Chars)
    OBVIOUS
  <2>1. Len(f) \in 0 .. Len(f)
    OBVIOUS
  <2> QED BY <2>1, FieldLoopIs
<1>5. ASSUME NEW f \in Seq(Chars), NEW t \in Seq(Chars), NEW r \in Seq(T), Split(t) = Cons(<<>>, r)
      PROVE  Split(Text(f) \o t) = Cons(f, r)
  BY <1>5, SplitField
<1> HIDE DEF n, X, Text, T
<1>6. /\ LastOf(s, 0) = <<>> /\ LastOf(s, n) = s
      /\ \A k \in 0 .. n : LastOf(s, k) \in Seq(T)
      /\ \A k \in 1 .. n : LastOf(s, k) = Cons(Read(s, k), LastOf(s, k - 1))
  BY <1>1, LastsAre DEF n
<1>7. 0 \in S
  BY <1>1
<1>8. ASSUME NEW k \in 1 .. n, k - 1 \in S PROVE k \in S
  <2> DEFINE f == Read(s, k)
             g == Text(f)
  <2>1. k \in 0 .. n /\ k - 1 \in 0 .. n
    BY <1>1
  <2>2. f \in Seq(Chars) /\ g \in Seq(Chars)
    BY <1>3, <1>4
  <2>3. CASE k = 1
    <3> DEFINE e == <<>>
    <3>1. e \in Seq(Chars) /\ e \in Seq(T) /\ g \o e = g
      BY <2>2
    <3>2. Split(e) = Cons(<<>>, e)
      <4>1. e \in Seq(Chars) /\ e = <<>>
        OBVIOUS
      <4>2. Cons(<<>>, <<>>) = << <<>> >>
        BY DEF Cons
      <4> HIDE DEF e
      <4> QED BY <4>1, <4>2, SplitIs
    <3>3. X[k] = g
      BY <1>3, <2>3
    <3>4. LastOf(s, k) = Cons(f, e)
      BY <1>6, <2>3
    <3> HIDE DEF e, f
    <3>5. Split(g \o e) = Cons(f, e)
      BY <1>5, <2>2, <3>1, <3>2
    <3> QED BY <2>1, <3>1, <3>3, <3>4, <3>5
  <2>4. CASE k # 1
    <3> DEFINE w == X[k - 1]
               l == LastOf(s, k - 1)
               u == <<"comma">>
    <3>1. w \in Seq(Chars) /\ l \in Seq(T) /\ Split(w) = l
      BY <1>2, <1>6, <1>8, <2>1, <2>4
    <3>2. u \in Seq(Chars)
      BY DEF Chars
    <3>3. X[k] = g \o u \o w /\ LastOf(s, k) = Cons(f, l)
      BY <1>3, <1>6, <2>4
    <3> HIDE DEF w, l, f, g
    <3>4. Split(u \o w) = Cons(<<>>, l)
      BY <3>1, SplitComma
    <3> HIDE DEF u
    <3>5. g \o u \o w = g \o (u \o w) /\ u \o w \in Seq(Chars)
      BY <2>2, <3>1, <3>2
    <3>6. Split(g \o (u \o w)) = Cons(f, l)
      BY <1>5, <2>2, <3>1, <3>4, <3>5 DEF g
    <3> QED BY <2>1, <3>3, <3>5, <3>6
  <2> QED BY <2>3, <2>4
<1>9. n \in S
  <2> HIDE DEF S
  <2>1. \A k \in 1 .. n : k - 1 \in S /\ Before(k) \in S => k \in S
    BY <1>8
  <2>2. \A k \in 0 .. n : k \in S
    BY <1>1, <1>7, <2>1, LoopInduction
  <2> QED BY <1>1, <2>2
<1>10. Split(X[n]) = s /\ X[n] \in Seq(Chars)
  BY <1>1, <1>2, <1>6, <1>9
<1> QED BY <1>10 DEF Written, n, X

(* What line_split_and_unescape() does with a line that is not empty.      *)
LEMMA LineSplits ==
    ASSUME NEW s \in Seq(Chars), s # <<>>
    PROVE  /\ Len(Fields(s)) = CountFields(s)
           /\ Bytes(Fields(s)) <= Len(s) + 1
           /\ Fields(Written(Fields(s))) = Fields(s)
<1> DEFINE f == Split(s)
           w == Written(f)
<1>1. Fields(s) = f /\ CountFields(s) = CountLoop(s)[Len(s)]
  BY DEF Fields, CountFields, Split
<1>2. Len(s) \in 0 .. Len(s) /\ Len(s) # 0
  OBVIOUS
<1>3. /\ Len(f) = CountLoop(s)[Len(s)] /\ Bytes(f) <= Len(s) + 1 /\ f # << <<>> >>
  BY <1>2, LoopsAgree DEF Split
<1>4. f \in Seq(Seq(Chars)) /\ f # <<>>
  BY SplitIs DEF Somes
<1> HIDE DEF f
<1>5. Split(w) = f /\ w \in Seq(Chars)
  BY <1>4, SplitWritten
<1> HIDE DEF w
<1>6. w # <<>>
  BY <1>3, <1>5, SplitIs
<1>7. Fields(w) = f
  BY <1>5, <1>6 DEF Fields, Split
<1> QED BY <1>1, <1>3, <1>7 DEF w

(* The counting loop and the copying loop agree on the number of fields,   *)
(* the copies fit in the memory claimed for them, and the fields written   *)
(* with escapes are split into the same fields, for lines of any length.   *)
THEOREM LinesSplitExactly == Spec => []SplitExactly
<1> DEFINE LineInv == line \in Seq(Chars)
<1>1. Init => LineInv
  BY DEF Init
<1>2. LineInv /\ [Next]_vars => LineInv'
  <2> SUFFICES ASSUME LineInv, [Next]_vars PROVE LineInv'
    OBVIOUS
  <2>1. line' = <<>> => LineInv'
    OBVIOUS
  <2>2. CASE parse_log_entry
    BY <2>2 DEF parse_log_entry
  <2>3. CASE TakeStep \/ ReadCallTypes \/ mistral_get_call_type_name
    BY <2>3 DEF TakeStep, ReadCallTypes, mistral_get_call_type_name
  <2>4. CASE CheckFieldCount \/ CleanUp
    BY <2>1, <2>4 DEF CheckFieldCount, CleanUp
  <2>5. CASE parse_size \/ CheckUnit \/ RangeWithoutBound \/ EmptyRange
    BY <2>5 DEF parse_size, CheckUnit, RangeWithoutBound, EmptyRange
  <2>6. CASE HandOver \/ mistral_destroy_log_entry
    BY <2>6 DEF HandOver, mistral_destroy_log_entry
  <2>7. CASE UNCHANGED vars
    BY <2>7 DEF vars
  <2> QED BY <2>2, <2>3, <2>4, <2>5, <2>6, <2>7 DEF Next
<1>3. LineInv => SplitExactly
  BY LineSplits DEF SplitExactly, Bytes
<1> QED BY <1>1, <1>2, <1>3, PTL DEF Spec

(***************************************************************************)
(* Powers of two                                                           *)
(*                                                                         *)
(* The provers know nothing of them: 2 ^ n is the number of the subsets of *)
(* a set of n members.                                                     *)
(***************************************************************************)

LEMMA SubsetsOf == ASSUME NEW n \in Nat
   PROVE IsFiniteSet(SUBSET (1 .. n)) /\ Cardinality(SUBSET (1 .. n)) = 2 ^ n
<1>1. IsFiniteSet(1 .. n) /\ Cardinality(1 .. n) = n
  BY FS_Interval
<1> QED BY <1>1, FS_SUBSET

LEMMA PowerOfTwo == ASSUME NEW n \in Nat PROVE 2 ^ n \in Nat /\ 2 ^ (n + 1) = 2 * 2 ^ n
<1> DEFINE A == SUBSET (1 .. n)
           T == SUBSET (1 .. n + 1)
           B == {x \in T : n + 1 \in x}
           f == [x \in A |-> x \cup {n + 1}]
<1>1. IsFiniteSet(A) /\ Cardinality(A) = 2 ^ n
  BY SubsetsOf
<1>2. IsFiniteSet(T) /\ Cardinality(T) = 2 ^ (n + 1)
  BY SubsetsOf
<1>3. T = A \cup B /\ A \cap B = {}
  <2>1. A \subseteq T
    OBVIOUS
  <2>2. \A x \in T : n + 1 \notin x => x \in A
    OBVIOUS
  <2>3. \A x \in A : n + 1 \notin x
    OBVIOUS
  <2> QED BY <2>1, <2>2, <2>3
<1>4. ExistsBijection(A, B)
  <2>1. \A x \in A : f[x] \in B
    OBVIOUS
  <2>2. ASSUME NEW x \in A, NEW y \in A, f[x] = f[y] PROVE x = y
    <3>1. x = f[x] \ {n + 1} /\ y = f[y] \ {n + 1}
      OBVIOUS
    <3> QED BY <2>2, <3>1
  <2>3. ASSUME NEW z \in B PROVE \E x \in A : f[x] = z
    <3>1. z \ {n + 1} \in A
      OBVIOUS
    <3>2. f[z \ {n + 1}] = z
      BY <3>1
    <3> QED BY <3>1, <3>2
  <2>4. f \in [A -> B]
    BY <2>1
  <2> HIDE DEF f, A, B
  <2>5. f \in Bijection(A, B)
    BY <2>2, <2>3, <2>4 DEF Bijection, Injection, Surjection, IsInjective
  <2> QED BY <2>5 DEF ExistsBijection
<1> HIDE DEF A, B, T
<1>5. IsFiniteSet(B) /\ Cardinality(B) = Cardinality(A)
  BY <1>1, <1>4, FS_Bijection
<1>6. Cardinality(T) = Cardinality(A) + Cardinality(B) - Cardinality({})
  BY <1>1, <1>3, <1>5, FS_Union
<1>7. Cardinality({}) = 0 /\ Cardinality(A) \in Nat
  BY <1>1, FS_EmptySet, FS_CardinalityType
<1> QED BY <1>1, <1>2, <1>5, <1>6, <1>7

LEMMA PowerIs == ASSUME NEW n \in Nat PROVE 2 ^ n \in Nat \ {0}
<1> DEFINE S == {k \in Nat : 2 ^ k \in Nat \ {0}}
<1>1. 0 \in S
  OBVIOUS
<1>2. \A k \in Nat : k \in S => k + 1 \in S
  BY PowerOfTwo
<1> HIDE DEF S
<1>3. n \in S
  BY <1>1, <1>2, NatSet
<1> QED BY <1>3 DEF S

LEMMA PowerSum == ASSUME NEW m \in Nat, NEW n \in Nat PROVE 2 ^ (m + n) = 2 ^ m * 2 ^ n
<1> DEFINE S == {k \in Nat : 2 ^ (m + k) = 2 ^ m * 2 ^ k}
<1>0. 2 ^ m \in Nat
  BY PowerIs
<1>1. 0 \in S
  BY <1>0
<1>2. ASSUME NEW k \in Nat, k \in S PROVE k + 1 \in S
  <2> DEFINE a == 2 ^ m
             b == 2 ^ k
             c == 2 ^ (m + k)
  <2>1. a \in Nat /\ b \in Nat /\ c \in Nat /\ c = a * b
    BY <1>2, PowerIs
  <2>2. 2 ^ (k + 1) = 2 * b /\ 2 ^ (m + k + 1) = 2 * c /\ m + (k + 1) = m + k + 1
    BY PowerOfTwo
  <2>3. 2 ^ (m + (k + 1)) = 2 * c
    BY <2>2
  <2> HIDE DEF a, b, c
  <2>4. 2 * c = a * (2 * b)
    BY <2>1
  <2> QED BY <2>2, <2>3, <2>4 DEF a
<1> HIDE DEF S
<1>3. n \in S
  BY <1>1, <1>2, NatSet
<1> QED BY <1>3 DEF S

LEMMA PowerGrows ==
    ASSUME NEW m \in Nat, NEW n \in Nat
    PROVE  /\ m <= n => 2 ^ m <= 2 ^ n
           /\ m < n => 2 * 2 ^ m <= 2 ^ n
           /\ 2 ^ m < 2 ^ n => m < n
<1>1. ASSUME NEW i \in Nat, NEW j \in Nat, i <= j PROVE 2 ^ i <= 2 ^ j
  <2>1. PICK k \in Nat : j = i + k
    <3>1. j - i \in Nat /\ j = i + (j - i)
      BY <1>1
    <3> QED BY <3>1
  <2> DEFINE a == 2 ^ i
             b == 2 ^ k
             c == 2 ^ j
  <2>2. c = a * b
    BY <2>1, PowerSum
  <2>3. a \in Nat /\ b \in Nat \ {0} /\ c \in Nat
    BY PowerIs
  <2> HIDE DEF a, b, c
  <2>4. a <= a * b
    BY <2>3
  <2> QED BY <2>2, <2>4 DEF a, c
<1>2. m < n => 2 * 2 ^ m <= 2 ^ n
  BY <1>1, PowerOfTwo
<1>3. 2 ^ m < 2 ^ n => m < n
  <2>1. 2 ^ m \in Nat /\ 2 ^ n \in Nat
    BY PowerIs
  <2> QED BY <1>1, <2>1
<1> QED BY <1>1, <1>2, <1>3

LEMMA Between ==
    ASSUME NEW x \in Nat, NEW m \in Nat, NEW n \in Nat, 2 ^ m <= x, x < 2 ^ (m + n)
    PROVE  \E k \in 1 .. n : 2 ^ (m + k - 1) <= x /\ x < 2 ^ (m + k)
<1> DEFINE S == {i \in Nat : x < 2 ^ (m + i)
                              => \E k \in 1 .. i : 2 ^ (m + k - 1) <= x /\ x < 2 ^ (m + k)}
<1>1. 0 \in S
  <2>1. 2 ^ (m + 0) \in Nat /\ m + 0 = m
    BY PowerIs
  <2> QED BY <2>1
<1>2. ASSUME NEW i \in Nat, i \in S PROVE i + 1 \in S
  <2>1. SUFFICES ASSUME x < 2 ^ (m + (i + 1))
                 PROVE  \E k \in 1 .. i + 1 : 2 ^ (m + k - 1) <= x /\ x < 2 ^ (m + k)
    OBVIOUS
  <2>2. CASE x < 2 ^ (m + i)
    BY <1>2, <2>2
  <2>3. CASE ~(x < 2 ^ (m + i))
    <3>1. 2 ^ (m + i) \in Nat /\ m + (i + 1) - 1 = m + i
      BY PowerIs
    <3>2. 2 ^ (m + i) <= x
      BY <2>3, <3>1
    <3>3. 2 ^ (m + (i + 1) - 1) <= x
      BY <3>1, <3>2
    <3>4. i + 1 \in 1 .. i + 1
      OBVIOUS
    <3> QED BY <2>1, <3>3, <3>4
  <2> QED BY <2>2, <2>3
<1> HIDE DEF S
<1>3. n \in S
  BY <1>1, <1>2, NatSet
<1> QED BY <1>3 DEF S

LEMMA DivMod ==
    ASSUME NEW x \in Nat, NEW d \in Nat \ {0}
    PROVE  x \div d \in Nat /\ x % d \in 0 .. d - 1 /\ x = (x \div d) * d + (x % d)
OBVIOUS

(* A double is near the number it stands for: within one part in Q + 1.    *)
Near(x, d, Q) == d * (Q + 1) <= x * (Q + 2) /\ x * Q <= d * (Q + 1)

LEMMA RoundedIsNear ==
    ASSUME NEW H \in Nat \ {0}, NEW h \in Nat \ {0}, NEW q \in Nat, NEW r \in 0 .. 2 * h - 1,
           NEW x \in Nat, x = q * (2 * h) + r, (2 * H) * h <= x,
           NEW up \in BOOLEAN, up => h <= r, ~up => r <= h
    PROVE  Near(x, (IF up THEN q + 1 ELSE q) * (2 * h), 2 * H)
<1> DEFINE Q == 2 * H
           R == 2 * h
           b == q * R
           y == H * R
<1>1. y <= b
  <2>1. H <= q
    <3>1. SUFFICES ASSUME q + 1 <= H PROVE FALSE
      OBVIOUS
    <3>2. (q + 1) * R <= H * R
      BY <3>1
    <3>3. (q + 1) * R = q * R + R /\ (2 * H) * h = H * R
      OBVIOUS
    <3> QED BY <3>2, <3>3
  <2> QED BY <2>1
<1>2. b \in Nat /\ x = b + r /\ y = Q * h /\ (q + 1) * R = b + R
  OBVIOUS
<1>3. CASE ~up
  <2>1. r * Q <= h * Q
    BY <1>3
  <2>2. r * (Q + 1) = r * Q + r /\ h * Q = y
    BY <1>2
  <2>3. r * (Q + 1) <= x
    BY <1>1, <1>2, <2>1, <2>2
  <2> DEFINE d == b
  <2>4. d = x - r
    BY <1>2
  <2>5. d * (Q + 1) = x * Q + x - r * (Q + 1) /\ x * (Q + 2) = x * Q + 2 * x
    BY <2>4
  <2>6. Near(x, d, Q)
    <3> HIDE DEF Q, R, b
    <3>1. d * (Q + 1) \in Int /\ x * Q \in Int /\ r * (Q + 1) \in Nat
      BY <1>2 DEF Q
    <3> QED BY <2>3, <2>5, <3>1 DEF Near
  <2> QED BY <1>3, <2>6
<1>4. CASE up
  <2> DEFINE s == R - r
             d == b + R
  <2>1. s \in Nat /\ s <= h /\ d = x + s
    BY <1>2, <1>4
  <2>2. s * Q <= h * Q
    BY <2>1
  <2>3. s * (Q + 1) = s * Q + s /\ h * Q = y
    BY <1>2
  <2>4. s * (Q + 1) <= x
    BY <1>1, <1>2, <1>4, <2>1, <2>2, <2>3
  <2>5. d * (Q + 1) = x * Q + x + s * (Q + 1) /\ x * (Q + 2) = x * Q + 2 * x
    BY <2>1
  <2>6. Near(x, d, Q)
    <3> HIDE DEF Q, R, b, s, d
    <3>1. x * Q \in Int /\ s * (Q + 1) \in Nat
      BY <2>1 DEF Q
    <3> QED BY <2>4, <2>5, <3>1 DEF Near
  <2> QED BY <1>2, <1>4, <2>6
<1> QED BY <1>3, <1>4

(***************************************************************************)
(* Sizes                                                                   *)
(***************************************************************************)

(* What the conversion to a double does.                                   *)
LEMMA DoubleOf ==
    ASSUME NEW x \in Nat, x < 2 ^ (Mantissa + 3 * Width)
    PROVE  \/ x < 2 ^ Mantissa /\ Double(x) = x
           \/ \E e \in 1 .. 3 * Width, q \in Nat, r \in Nat, up \in BOOLEAN :
                /\ 2 ^ (Mantissa + e - 1) <= x /\ x < 2 ^ (Mantissa + e)
                /\ x = q * 2 ^ e + r /\ r < 2 ^ e
                /\ up <=> (2 * r > 2 ^ e \/ (2 * r = 2 ^ e /\ q % 2 = 1))
                /\ Double(x) = (IF up THEN q + 1 ELSE q) * 2 ^ e
<1> DEFINE P(k) == 2 ^ (Mantissa + k - 1) <= x /\ x < 2 ^ (Mantissa + k)
           e == CHOOSE k \in 1 .. 3 * Width : P(k)
           q == x \div 2 ^ e
           r == x % 2 ^ e
           up == 2 * r > 2 ^ e \/ (2 * r = 2 ^ e /\ q % 2 = 1)
<1>1. Mantissa \in Nat /\ Width \in Nat /\ 2 ^ Mantissa \in Nat
  BY LogEntryAssumption, PowerIs
<1>2. CASE x < 2 ^ Mantissa
  BY <1>2 DEF Double
<1>3. CASE ~(x < 2 ^ Mantissa)
  <2>1. 2 ^ Mantissa <= x
    BY <1>1, <1>3
  <2>2. 3 * Width \in Nat
    BY <1>1
  <2>3. \E k \in 1 .. 3 * Width : P(k)
    <3> DEFINE n == 3 * Width
    <3>1. n \in Nat /\ x < 2 ^ (Mantissa + n)
      BY <2>2
    <3> HIDE DEF n
    <3>2. \E k \in 1 .. n : P(k)
      BY <1>1, <2>1, <3>1, Between
    <3> QED BY <3>2 DEF n
  <2>4. e \in 1 .. 3 * Width /\ P(e)
    <3> HIDE DEF P
    <3> QED BY <2>3
  <2>5. Double(x) = (IF up THEN q + 1 ELSE q) * 2 ^ e
    BY <1>3 DEF Double
  <2> HIDE DEF e
  <2>6. e \in Nat /\ 2 ^ e \in Nat \ {0}
    BY <2>2, <2>4, PowerIs
  <2>7. q \in Nat /\ r \in 0 .. 2 ^ e - 1 /\ x = q * 2 ^ e + r
    BY <2>6, DivMod
  <2>8. r \in Nat /\ r < 2 ^ e
    BY <2>6, <2>7
  <2> HIDE DEF q, r
  <2>9. up \in BOOLEAN
    OBVIOUS
  <2>10. \E p \in BOOLEAN : (p <=> up) /\ Double(x) = (IF p THEN q + 1 ELSE q) * 2 ^ e
    BY <2>5, <2>9
  <2> QED BY <2>4, <2>7, <2>8, <2>10
<1> QED BY <1>2, <1>3

LEMMA DoubleIsNear ==
    ASSUME NEW x \in Nat, x < 2 ^ (Mantissa + 3 * Width)
    PROVE  Double(x) \in Nat /\ Near(x, Double(x), 2 ^ Mantissa)
<1> DEFINE Q == 2 ^ Mantissa
           H == 2 ^ (Mantissa - 1)
<1>1. /\ Mantissa \in Nat /\ Width \in Nat /\ Mantissa - 1 \in Nat
      /\ Q \in Nat \ {0} /\ H \in Nat \ {0} /\ Q = 2 * H
  <2>1. Mantissa \in Nat /\ Width \in Nat /\ Mantissa - 1 \in Nat /\ Mantissa = (Mantissa - 1) + 1
    BY LogEntryAssumption
  <2>2. Q \in Nat \ {0} /\ H \in Nat \ {0}
    BY <2>1, PowerIs
  <2>3. \A n \in Nat : 2 ^ (n + 1) = 2 * 2 ^ n
    BY PowerOfTwo
  <2>4. 2 ^ ((Mantissa - 1) + 1) = 2 * H
    BY <2>1, <2>3
  <2> QED BY <2>1, <2>2, <2>4
<1>2. CASE x < Q /\ Double(x) = x
  <2>1. Near(x, x, Q)
    <3> HIDE DEF Q
    <3>1. x * (Q + 1) = x * Q + x /\ x * (Q + 2) = x * Q + 2 * x
      BY <1>1
    <3>2. x * Q \in Nat
      BY <1>1
    <3> QED BY <3>1, <3>2 DEF Near
  <2> QED BY <1>2, <2>1
<1>3. ASSUME NEW e \in 1 .. 3 * Width, NEW q \in Nat, NEW r \in Nat, NEW up \in BOOLEAN,
             2 ^ (Mantissa + e - 1) <= x, x < 2 ^ (Mantissa + e),
             x = q * 2 ^ e + r, r < 2 ^ e,
             up <=> (2 * r > 2 ^ e \/ (2 * r = 2 ^ e /\ q % 2 = 1)),
             Double(x) = (IF up THEN q + 1 ELSE q) * 2 ^ e
      PROVE  Double(x) \in Nat /\ Near(x, Double(x), Q)
  <2>1. PICK i \in Nat : e = i + 1
    <3>1. e - 1 \in Nat /\ e = (e - 1) + 1
      BY <1>1
    <3> QED BY <3>1
  <2> DEFINE h == 2 ^ i
  <2>2. h \in Nat \ {0} /\ 2 ^ e = 2 * h
    BY <2>1, PowerIs, PowerOfTwo
  <2>3. Q * h <= x
    <3>1. 2 ^ (Mantissa + i) = Q * h
      BY <1>1, PowerSum
    <3>2. Mantissa + e - 1 = Mantissa + i
      BY <1>1, <2>1
    <3> QED BY <1>3, <3>1, <3>2
  <2> HIDE DEF Q, H, h
  <2>4. x = q * (2 * h) + r /\ r \in 0 .. 2 * h - 1 /\ (2 * H) * h <= x
    BY <1>1, <1>3, <2>2, <2>3
  <2>5. (up => h <= r) /\ (~up => r <= h)
    BY <1>3, <2>2
  <2>6. Near(x, (IF up THEN q + 1 ELSE q) * (2 * h), 2 * H)
    BY <1>1, <2>2, <2>4, <2>5, RoundedIsNear
  <2>7. Double(x) = (IF up THEN q + 1 ELSE q) * (2 * h)
    BY <1>3, <2>2
  <2>8. (IF up THEN q + 1 ELSE q) \in Nat
    OBVIOUS
  <2>9. \A a, b \in Nat : a * b \in Nat
    OBVIOUS
  <2> QED BY <1>1, <2>2, <2>6, <2>7, <2>8, <2>9
<1>4. CASE \E e \in 1 .. 3 * Width, q \in Nat, r \in Nat, up \in BOOLEAN :
                /\ 2 ^ (Mantissa + e - 1) <= x /\ x < 2 ^ (Mantissa + e)
                /\ x = q * 2 ^ e + r /\ r < 2 ^ e
                /\ up <=> (2 * r > 2 ^ e \/ (2 * r = 2 ^ e /\ q % 2 = 1))
                /\ Double(x) = (IF up THEN q + 1 ELSE q) * 2 ^ e
  BY <1>3, <1>4
<1> QED BY <1>2, <1>4, DoubleOf

(* A limit, one less than a power of two, is rounded to that power or not  *)
(* at all.                                                                 *)
LEMMA DoubleOfLimit ==
    ASSUME NEW j \in Nat, Mantissa <= j, j <= Width
    PROVE  Double(2 ^ j - 1) \in {2 ^ j - 1, 2 ^ j}
<1> DEFINE x == 2 ^ j - 1
<1>1. Mantissa \in Nat \ {0} /\ Width \in Nat /\ 2 ^ j \in Nat \ {0} /\ x \in Nat
  BY LogEntryAssumption, PowerIs
<1>2. x < 2 ^ (Mantissa + 3 * Width)
  <2>1. Mantissa + 3 * Width \in Nat /\ j <= Mantissa + 3 * Width
    BY <1>1
  <2>2. 2 ^ j <= 2 ^ (Mantissa + 3 * Width)
    BY <2>1, PowerGrows
  <2> QED BY <1>1, <2>1, <2>2, PowerIs
<1>3. ASSUME NEW e \in 1 .. 3 * Width, NEW q \in Nat, NEW r \in Nat, NEW up \in BOOLEAN,
             2 ^ (Mantissa + e - 1) <= x, x < 2 ^ (Mantissa + e),
             x = q * 2 ^ e + r, r < 2 ^ e,
             up <=> (2 * r > 2 ^ e \/ (2 * r = 2 ^ e /\ q % 2 = 1)),
             Double(x) = (IF up THEN q + 1 ELSE q) * 2 ^ e
      PROVE  Double(x) = 2 ^ j
  <2>1. e \in Nat /\ Mantissa + e - 1 \in Nat
    BY <1>1
  <2>2. Mantissa + e - 1 < j
    <3>1. 2 ^ (Mantissa + e - 1) < 2 ^ j
      BY <1>1, <1>3, <2>1, PowerIs
    <3> QED BY <2>1, <3>1, PowerGrows
  <2>3. PICK i \in Nat, k \in Nat : e = i + 1 /\ j = (k + 1) + e
    <3>1. e - 1 \in Nat /\ j - e - 1 \in Nat /\ e = (e - 1) + 1 /\ j = ((j - e - 1) + 1) + e
      BY <1>1, <2>1, <2>2
    <3> QED BY <3>1
  <2> DEFINE h == 2 ^ i
             g == 2 ^ k
  <2>4. h \in Nat \ {0} /\ g \in Nat \ {0} /\ 2 ^ e = 2 * h /\ 2 ^ (k + 1) = 2 * g
    BY <2>3, PowerIs, PowerOfTwo
  <2>5. 2 ^ j = (2 * g) * (2 * h)
    <3>1. 2 ^ ((k + 1) + e) = 2 ^ (k + 1) * 2 ^ e
      BY <2>1, PowerSum
    <3> QED BY <2>3, <2>4, <3>1
  <2> HIDE DEF h, g
  <2>6. q = 2 * g - 1 /\ r = 2 * h - 1
    <3> DEFINE R == 2 * h
               G == 2 * g
    <3>1. R \in Nat \ {0} /\ G \in Nat \ {0} /\ r \in 0 .. R - 1 /\ G * R - 1 = q * R + r
      BY <1>3, <2>4, <2>5
    <3> HIDE DEF R, G
    <3>2. q < G
      <4>1. SUFFICES ASSUME G <= q PROVE FALSE
        BY <3>1
      <4>2. G * R <= q * R
        BY <3>1, <4>1
      <4>3. q * R \in Nat /\ G * R \in Nat
        BY <3>1
      <4> QED BY <3>1, <4>2, <4>3
    <3>3. G <= q + 1
      <4>1. SUFFICES ASSUME q + 2 <= G PROVE FALSE
        BY <3>1
      <4>2. (q + 2) * R <= G * R /\ (q + 2) * R = q * R + 2 * R
        BY <3>1, <4>1
      <4>3. q * R \in Nat /\ G * R \in Nat
        BY <3>1
      <4> QED BY <3>1, <4>2, <4>3
    <3>4. q + 1 = G
      BY <3>1, <3>2, <3>3
    <3>5. G * R = q * R + R
      BY <3>1, <3>4
    <3>6. r = R - 1
      <4>1. q * R \in Nat
        BY <3>1
      <4> QED BY <3>1, <3>5, <4>1
    <3> QED BY <3>4, <3>6 DEF G, R
  <2>7. up
    <3>1. q % 2 = 1
      <4>1. \A m \in Nat, y \in Nat : y = 2 * m + 1 => y % 2 = 1
        OBVIOUS
      <4>2. PICK m \in Nat : q = 2 * m + 1
        <5>1. g - 1 \in Nat /\ q = 2 * (g - 1) + 1
          BY <2>4, <2>6
        <5> QED BY <5>1
      <4> QED BY <4>1, <4>2
    <3>2. 2 * r > 2 * h \/ 2 * r = 2 * h
      BY <2>4, <2>6
    <3> QED BY <1>3, <2>4, <3>1, <3>2
  <2>8. Double(x) = (q + 1) * (2 * h) /\ q + 1 = 2 * g
    BY <1>3, <2>4, <2>6, <2>7
  <2> QED BY <2>5, <2>8
<1>4. (\E e \in 1 .. 3 * Width, q \in Nat, r \in Nat, up \in BOOLEAN :
                /\ 2 ^ (Mantissa + e - 1) <= x /\ x < 2 ^ (Mantissa + e)
                /\ x = q * 2 ^ e + r /\ r < 2 ^ e
                /\ up <=> (2 * r > 2 ^ e \/ (2 * r = 2 ^ e /\ q % 2 = 1))
                /\ Double(x) = (IF up THEN q + 1 ELSE q) * 2 ^ e)
      => Double(x) = 2 ^ j
  BY <1>3
<1>5. Double(x) = x \/ Double(x) = 2 ^ j
  <2> HIDE DEF x
  <2> QED BY <1>1, <1>2, <1>4, DoubleOf
<1> QED BY <1>5

(* The error of a product of a rounded number, itself rounded.             *)
LEMMA TwiceNear ==
    ASSUME NEW Q \in Nat \ {0}, NEW v \in Nat, NEW s \in Nat, NEW a \in Nat, NEW b \in Nat,
           Near(v, a, Q), Near(a * s, b, Q)
    PROVE  b * Q <= (v * s) * (Q + 2) /\ (v * s) * Q <= b * Q + 2 * (v * s)
<1> DEFINE x == v * s
           p == a * s
           k == Q + 1
<1>1. x \in Nat /\ p \in Nat /\ k \in Nat \ {0}
  OBVIOUS
<1>2. a * k <= v * (Q + 2) /\ v * Q <= a * k /\ b * k <= p * (Q + 2) /\ p * Q <= b * k
  BY DEF Near
<1>3. p * k <= x * (Q + 2) /\ x * Q <= p * k
  <2> HIDE DEF k
  <2>1. \A c, d, e \in Nat : c <= d => c * e <= d * e
    OBVIOUS
  <2>2. a * k \in Nat /\ v * (Q + 2) \in Nat /\ v * Q \in Nat
    BY <1>1
  <2>3. (a * k) * s <= (v * (Q + 2)) * s /\ (v * Q) * s <= (a * k) * s
    BY <1>2, <2>1, <2>2
  <2>4. (a * k) * s = p * k /\ (v * (Q + 2)) * s = x * (Q + 2) /\ (v * Q) * s = x * Q
    BY <1>1
  <2> QED BY <2>3, <2>4
<1> HIDE DEF x, p
(* b k^2 <= x (Q + 2)^2 and x Q^2 <= b k^2, and (Q + 2) Q < k^2.           *)
<1>4. (b * k) * k <= (x * (Q + 2)) * (Q + 2) /\ (x * Q) * Q <= (b * k) * k
  <2> HIDE DEF k
  <2>1. \A c, d, e \in Nat : c <= d => c * e <= d * e
    OBVIOUS
  <2>2. b * k \in Nat /\ p * (Q + 2) \in Nat /\ p * Q \in Nat /\ p * k \in Nat
        /\ x * Q \in Nat /\ x * (Q + 2) \in Nat /\ Q + 2 \in Nat
    BY <1>1
  <2>3. (b * k) * k <= (p * (Q + 2)) * k /\ (p * Q) * k <= (b * k) * k
    BY <1>1, <1>2, <2>1, <2>2
  <2>4. (p * k) * (Q + 2) <= (x * (Q + 2)) * (Q + 2) /\ (x * Q) * Q <= (p * k) * Q
    BY <1>3, <2>1, <2>2
  <2>5. (p * (Q + 2)) * k = (p * k) * (Q + 2) /\ (p * Q) * k = (p * k) * Q
    BY <1>1
  <2> DEFINE A == (b * k) * k
             B == (p * k) * (Q + 2)
             C == (x * (Q + 2)) * (Q + 2)
             D == (x * Q) * Q
             E == (p * k) * Q
  <2>6. A \in Nat /\ B \in Nat /\ C \in Nat /\ D \in Nat /\ E \in Nat
    <3>1. \A c, d \in Nat : c * d \in Nat
      OBVIOUS
    <3> QED BY <1>1, <2>2, <3>1
  <2>7. A <= B /\ B <= C /\ D <= E /\ E <= A
    BY <2>3, <2>4, <2>5
  <2> HIDE DEF A, B, C, D, E
  <2>8. A <= C /\ D <= A
    BY <2>6, <2>7
  <2> QED BY <2>8 DEF A, C, D
<1>5. b * Q <= x * (Q + 2)
  <2>1. SUFFICES ASSUME x * (Q + 2) < b * Q PROVE FALSE
    BY <1>1
  <2> DEFINE y == x * (Q + 2)
             z == b * Q
             K == k * k
  <2>2. y \in Nat /\ z \in Nat /\ y + 1 <= z /\ K \in Nat \ {0}
    BY <1>1, <2>1
  <2>3. K = (Q + 2) * Q + 1
    OBVIOUS
  <2>4. ((b * k) * k) * Q = z * K /\ (y * (Q + 2)) * Q = y * (K - 1)
    <3>1. (y * (Q + 2)) * Q = y * ((Q + 2) * Q)
      BY <2>2
    <3>2. ((b * k) * k) * Q = z * K
      OBVIOUS
    <3> QED BY <2>3, <3>1, <3>2
  <2>5. ((b * k) * k) * Q <= (y * (Q + 2)) * Q
    <3>1. \A c, d, e \in Nat : c <= d => c * e <= d * e
      OBVIOUS
    <3>2. (b * k) * k \in Nat /\ y * (Q + 2) \in Nat
      BY <2>2
    <3> HIDE DEF k, y
    <3> QED BY <1>4, <3>1, <3>2 DEF y
  <2> HIDE DEF y, z, K
  <2>6. (y + 1) * K <= z * K
    BY <2>2
  <2>7. (y + 1) * K = y * K + K /\ y * (K - 1) = y * K - y
    BY <2>2
  <2>8. y * K \in Nat
    BY <2>2
  <2> QED BY <2>2, <2>4, <2>5, <2>6, <2>7, <2>8
<1>6. x * Q <= b * Q + 2 * x
  <2>1. SUFFICES ASSUME b * Q + 2 * x < x * Q PROVE FALSE
    BY <1>1
  <2> DEFINE z == b * Q
             K == k * k
  <2>2. z \in Nat /\ K \in Nat \ {0} /\ z + 2 * x < x * Q
    BY <1>1, <2>1
  (* (Q - 2) k^2 = Q^3 - 3 Q - 2                                           *)
  <2>3. (x * Q) * K = ((x * Q) * Q) * Q + (2 * ((x * Q) * Q)) + x * Q
    BY <1>1
  <2>4. (2 * x) * K = 2 * ((x * Q) * Q) + 4 * (x * Q) + 2 * x
    BY <1>1
  <2>5. z * K = ((b * k) * k) * Q
    OBVIOUS
  <2>6. ((x * Q) * Q) * Q <= z * K
    <3>1. \A c, d, e \in Nat : c <= d => c * e <= d * e
      OBVIOUS
    <3>2. (b * k) * k \in Nat /\ (x * Q) * Q \in Nat
      BY <1>1
    <3>3. ((x * Q) * Q) * Q <= ((b * k) * k) * Q
      <4> HIDE DEF k
      <4> QED BY <1>4, <3>1, <3>2
    <3> QED BY <2>5, <3>3
  <2>7. (z + 2 * x) * K <= (x * Q) * K
    <3> HIDE DEF z, K
    <3> QED BY <1>1, <2>2
  <2>8. (z + 2 * x) * K = z * K + (2 * x) * K
    <3> HIDE DEF z, K
    <3> QED BY <1>1, <2>2
  <2>9. z * K \in Nat /\ x * Q \in Nat /\ ((x * Q) * Q) \in Nat /\ ((x * Q) * Q) * Q \in Nat
    <3> HIDE DEF z, K
    <3> QED BY <1>1, <2>2
  <2>10. x = 0
    <3> HIDE DEF z, K
    <3> QED BY <1>1, <2>3, <2>4, <2>6, <2>7, <2>8, <2>9
  <2> QED BY <2>2, <2>10
<1> QED BY <1>5, <1>6 DEF x

(* A unit is smaller than the numbers a double holds exactly.              *)
LEMMA ScaleIs ==
    ASSUME NEW u \in Units
    PROVE  UnitScale(u) \in Nat /\ UnitScale(u) < 2 ^ Mantissa
<1> DEFINE T == Thousand
           Q == 2 ^ Mantissa
<1>1. T \in Nat /\ Mantissa \in Nat \ {0} /\ T * T * T < Q
  BY LogEntryAssumption
<1>2. Q \in Nat /\ 1 < Q
  <2>1. PICK n \in Nat : Mantissa = n + 1
    <3>1. Mantissa - 1 \in Nat /\ Mantissa = (Mantissa - 1) + 1
      BY <1>1
    <3> QED BY <3>1
  <2> QED BY <2>1, PowerIs, PowerOfTwo
<1>3. UnitScale(u) \in {1, T, T * T, T * T * T}
  BY DEF Units, UnitScale
<1> HIDE DEF Q, T
<1>4. T * T \in Nat /\ T * T * T \in Nat /\ T <= T * T /\ T * T <= T * T * T
  <2>1. T = 0 \/ 1 <= T
    BY <1>1
  <2>2. \A c, d \in Nat : c * d \in Nat /\ (1 <= d => c <= c * d)
    OBVIOUS
  <2>3. CASE T = 0
    BY <2>3
  <2>4. CASE 1 <= T
    <3>1. T * T \in Nat /\ T <= T * T
      BY <1>1, <2>2, <2>4
    <3>2. T * T * T \in Nat /\ T * T <= T * T * T
      BY <1>1, <2>2, <2>4, <3>1
    <3> QED BY <3>1, <3>2
  <2> QED BY <2>1, <2>3, <2>4
<1>5. \A z \in {1, T, T * T, T * T * T} : z \in Nat /\ z < Q
  <2> DEFINE a == T * T
             b == T * T * T
  <2>1. a \in Nat /\ b \in Nat /\ T <= a /\ a <= b /\ b < Q
    BY <1>1, <1>4
  <2> HIDE DEF a, b
  <2>2. \A z \in {1, T, a, b} : z \in Nat /\ z < Q
    BY <1>1, <1>2, <2>1
  <2> QED BY <2>2 DEF a, b
<1> QED BY <1>3, <1>5 DEF Q

LEMMA LimitIs ==
    ASSUME NEW u \in Units
    PROVE  /\ Limit(u) \in Nat /\ Limit(u) <= UINT64_MAX /\ UINT64_MAX \in Nat
           /\ Double(Limit(u)) \in {Limit(u), Limit(u) + 1}
<1>1. Width \in Nat /\ Width - 1 \in Nat /\ Mantissa \in Nat /\ Mantissa <= Width - 1
  BY LogEntryAssumption
<1>2. ASSUME NEW j \in {Width, Width - 1}
      PROVE  /\ 2 ^ j - 1 \in Nat /\ 2 ^ j - 1 <= UINT64_MAX
             /\ Double(2 ^ j - 1) \in {2 ^ j - 1, (2 ^ j - 1) + 1}
  <2>1. j \in Nat /\ Mantissa <= j /\ j <= Width
    BY <1>1
  <2>2. 2 ^ j \in Nat \ {0} /\ 2 ^ j <= 2 ^ Width /\ 2 ^ Width \in Nat
    BY <1>1, <2>1, PowerIs, PowerGrows
  <2>3. Double(2 ^ j - 1) \in {2 ^ j - 1, 2 ^ j}
    BY <2>1, DoubleOfLimit
  <2>4. (2 ^ j - 1) + 1 = 2 ^ j
    BY <2>2
  <2> QED BY <2>2, <2>3, <2>4 DEF UINT64_MAX
<1>3. Limit(u) = 2 ^ Width - 1 \/ Limit(u) = 2 ^ (Width - 1) - 1
  BY DEF Limit, SSIZE_MAX, UINT64_MAX
<1>4. UINT64_MAX \in Nat
  BY <1>2 DEF UINT64_MAX
<1> QED BY <1>2, <1>3, <1>4

(* The product of a number and its unit, and its error.                    *)
LEMMA ProductIs ==
    ASSUME NEW v \in UInt64, NEW u \in Units
    PROVE  LET product == Double(Double(v) * UnitScale(u))
               exact   == v * UnitScale(u)
               ulp     == exact \div 2 ^ (Mantissa - 1)
           IN  /\ product \in Nat /\ exact \in Nat /\ ulp \in Nat
               /\ product <= exact + ulp /\ exact <= product + ulp
<1> DEFINE Q == 2 ^ Mantissa
           H == 2 ^ (Mantissa - 1)
           s == UnitScale(u)
           a == Double(v)
           p == a * s
           b == Double(p)
           x == v * s
           d == x \div H
<1>1. /\ Mantissa \in Nat /\ Width \in Nat /\ Mantissa - 1 \in Nat /\ Width > 1
      /\ Mantissa = (Mantissa - 1) + 1
  BY LogEntryAssumption
<1>2. Q \in Nat \ {0} /\ H \in Nat \ {0} /\ Q = 2 * H
  <2>1. Q \in Nat \ {0} /\ H \in Nat \ {0}
    BY <1>1, PowerIs
  <2>2. \A n \in Nat : 2 ^ (n + 1) = 2 * 2 ^ n
    BY PowerOfTwo
  <2>3. 2 ^ ((Mantissa - 1) + 1) = 2 * H
    BY <1>1, <2>2
  <2> QED BY <1>1, <2>1, <2>3
<1>3. s \in Nat /\ s < Q
  BY ScaleIs
<1>4. v \in Nat /\ v < 2 ^ Width /\ 2 ^ Width \in Nat
  <2>1. 2 ^ Width \in Nat
    BY <1>1, PowerIs
  <2> QED BY <2>1 DEF UInt64, UINT64_MAX
<1>5. a \in Nat /\ Near(v, a, Q)
  <2>1. Mantissa + 3 * Width \in Nat /\ Width <= Mantissa + 3 * Width
    BY <1>1
  <2>2. 2 ^ Width <= 2 ^ (Mantissa + 3 * Width) /\ 2 ^ (Mantissa + 3 * Width) \in Nat
    BY <1>1, <2>1, PowerGrows, PowerIs
  <2>3. v < 2 ^ (Mantissa + 3 * Width)
    BY <1>4, <2>2
  <2> QED BY <1>4, <2>3, DoubleIsNear
<1>6. a <= 2 * v
  <2> HIDE DEF Q, a
  <2>1. a * (Q + 1) <= v * (Q + 2)
    BY <1>5 DEF Near
  <2>2. v * (Q + 2) <= (2 * v) * (Q + 1)
    <3>1. v * (Q + 2) = v * Q + 2 * v /\ (2 * v) * (Q + 1) = 2 * (v * Q) + 2 * v /\ v * Q \in Nat
      BY <1>2, <1>4
    <3> QED BY <1>4, <3>1
  <2>3. SUFFICES ASSUME 2 * v + 1 <= a PROVE FALSE
    BY <1>4, <1>5
  <2>4. (2 * v + 1) * (Q + 1) <= a * (Q + 1)
    BY <1>2, <1>4, <1>5, <2>3
  <2>5. (2 * v + 1) * (Q + 1) = (2 * v) * (Q + 1) + Q + 1
    BY <1>2, <1>4
  <2>6. (2 * v) * (Q + 1) \in Nat /\ a * (Q + 1) \in Nat /\ v * (Q + 2) \in Nat
    BY <1>2, <1>4, <1>5
  <2> QED BY <1>2, <2>1, <2>2, <2>4, <2>5, <2>6
<1>7. p \in Nat /\ p < 2 ^ (Mantissa + 3 * Width)
  <2> DEFINE w == 2 ^ Width
  <2>1. p \in Nat /\ p <= (2 * w) * Q
    <3> HIDE DEF Q, a, s, w
    <3>1. a <= 2 * w /\ w \in Nat
      BY <1>4, <1>5, <1>6 DEF w
    <3>2. \A c, f, g, h \in Nat : c <= f /\ g <= h => c * g <= f * h /\ c * g \in Nat
      <4> SUFFICES ASSUME NEW c \in Nat, NEW f \in Nat, NEW g \in Nat, NEW h \in Nat, c <= f, g <= h
                   PROVE  c * g <= f * h /\ c * g \in Nat
        OBVIOUS
      <4>1. c * g <= f * g /\ f * g <= f * h
        OBVIOUS
      <4>2. c * g \in Nat /\ f * g \in Nat /\ f * h \in Nat
        OBVIOUS
      <4> QED BY <4>1, <4>2
    <3> QED BY <1>2, <1>3, <1>5, <3>1, <3>2
  <2>2. (2 * w) * Q = 2 ^ ((Width + 1) + Mantissa)
    <3>1. 2 ^ (Width + 1) = 2 * w /\ Width + 1 \in Nat
      BY <1>1, PowerOfTwo
    <3>2. 2 ^ ((Width + 1) + Mantissa) = 2 ^ (Width + 1) * Q
      BY <1>1, <3>1, PowerSum
    <3> QED BY <3>1, <3>2
  <2>3. 2 ^ ((Width + 1) + Mantissa) < 2 ^ (Mantissa + 3 * Width)
    <3> DEFINE i == (Width + 1) + Mantissa
               j == Mantissa + 3 * Width
    <3>1. i \in Nat /\ j \in Nat /\ i < j
      BY <1>1
    <3> HIDE DEF i, j
    <3>2. 2 * 2 ^ i <= 2 ^ j /\ 2 ^ i \in Nat \ {0} /\ 2 ^ j \in Nat
      BY <3>1, PowerGrows, PowerIs
    <3>3. 2 ^ i < 2 ^ j
      BY <3>2
    <3> QED BY <3>3 DEF i, j
  <2>4. 2 ^ ((Width + 1) + Mantissa) \in Nat /\ 2 ^ (Mantissa + 3 * Width) \in Nat
    BY <1>1, PowerIs
  <2> HIDE DEF p
  <2> QED BY <2>1, <2>2, <2>3, <2>4
<1>8. b \in Nat /\ Near(p, b, Q)
  <2> HIDE DEF p
  <2> QED BY <1>7, DoubleIsNear
<1> HIDE DEF Q, H, a, b, s
<1>9. b * Q <= x * (Q + 2) /\ x * Q <= b * Q + 2 * x
  BY <1>2, <1>3, <1>4, <1>5, <1>8, TwiceNear
<1>10. x \in Nat /\ d \in Nat
  <2>1. x \in Nat
    BY <1>3, <1>4
  <2> HIDE DEF x
  <2> QED BY <1>2, <2>1, DivMod
<1> HIDE DEF x
<1>11. b <= x + d
  <2>1. b <= x \/ x < b
    BY <1>8, <1>10
  <2>2. CASE x < b
    <3>1. PICK c \in Nat : b = x + c
      <4>1. b - x \in Nat /\ b = x + (b - x)
        BY <1>8, <1>10, <2>2
      <4> QED BY <4>1
    <3>2. b * Q = x * Q + 2 * (c * H) /\ x * (Q + 2) = x * Q + 2 * x
      BY <1>2, <1>10, <3>1
    <3>3. c * H <= x
      <4>1. c * H \in Nat /\ x * Q \in Nat
        BY <1>2, <1>10, <3>1
      <4> QED BY <1>9, <1>10, <3>2, <4>1
    <3>4. c <= d
      BY <1>2, <1>10, <3>1, <3>3
    <3> HIDE DEF d
    <3> QED BY <1>10, <3>1, <3>4
  <2> HIDE DEF d
  <2> QED BY <1>8, <1>10, <2>1, <2>2
<1>12. x <= b + d
  <2>1. x <= b \/ b < x
    BY <1>8, <1>10
  <2>2. CASE b < x
    <3>1. PICK c \in Nat : x = b + c
      <4>1. x - b \in Nat /\ x = b + (x - b)
        BY <1>8, <1>10, <2>2
      <4> QED BY <4>1
    <3>2. x * Q = b * Q + 2 * (c * H)
      BY <1>2, <1>8, <3>1
    <3>3. c * H <= x
      <4>1. c * H \in Nat /\ b * Q \in Nat
        BY <1>2, <1>8, <3>1
      <4> QED BY <1>9, <1>10, <3>2, <4>1
    <3>4. c <= d
      BY <1>2, <1>10, <3>1, <3>3
    <3> HIDE DEF d
    <3> QED BY <1>8, <1>10, <3>1, <3>4
  <2> HIDE DEF d
  <2> QED BY <1>8, <1>10, <2>1, <2>2
<1> QED BY <1>8, <1>10, <1>11, <1>12 DEF b, p, a, s, x, d, H

(* A size that was parsed is one its number and unit may have.             *)
ParsedInv ==
    parsed # Null =>
        \E value \in UInt64, u \in Units : \E size \in Scaled(value, u) :
            parsed = [value |-> value, unit |-> u, size |-> size]

(* A size is the product of its number and its unit but for the last place *)
(* of a double as long as that is within the limit, and the limit above it,*)
(* for integers and doubles of any width and any unit that fits in one.    *)
THEOREM SizesAreScaled == Spec => []ScaledRight
<1>1. Init => ParsedInv
  BY DEF Init, ParsedInv
<1>2. ParsedInv /\ [Next]_vars => ParsedInv'
  <2> SUFFICES ASSUME ParsedInv, [Next]_vars PROVE ParsedInv'
    OBVIOUS
  <2>1. UNCHANGED parsed => ParsedInv'
    BY DEF ParsedInv
  <2>2. CASE parse_log_entry \/ TakeStep \/ CheckFieldCount \/ ReadCallTypes
    BY <2>1, <2>2 DEF parse_log_entry, TakeStep, CheckFieldCount, ReadCallTypes
  <2>3. CASE mistral_get_call_type_name \/ RangeWithoutBound \/ EmptyRange
    BY <2>1, <2>3 DEF mistral_get_call_type_name, RangeWithoutBound, EmptyRange
  <2>4. CASE HandOver \/ mistral_destroy_log_entry \/ CleanUp
    BY <2>1, <2>4 DEF HandOver, mistral_destroy_log_entry, CleanUp
  <2>5. CASE parse_size
    BY <2>1, <2>5 DEF parse_size, ParsedInv
  <2>6. CASE CheckUnit
    BY <2>6 DEF CheckUnit, ParsedInv
  <2>7. CASE UNCHANGED vars
    BY <2>1, <2>7 DEF vars
  <2> QED BY <2>2, <2>3, <2>4, <2>5, <2>6, <2>7 DEF Next
<1>3. ParsedInv => ScaledRight
  <2> SUFFICES ASSUME NEW v \in UInt64, NEW u \in Units, NEW z \in Scaled(v, u),
                      parsed = [value |-> v, unit |-> u, size |-> z]
               PROVE  ScaledRight
    BY DEF ParsedInv, ScaledRight
  <2> DEFINE b == Double(Double(v) * UnitScale(u))
             x == v * UnitScale(u)
             d == x \div 2 ^ (Mantissa - 1)
             l == Limit(u)
  <2>1. b \in Nat /\ x \in Nat /\ d \in Nat /\ b <= x + d /\ x <= b + d
    BY ProductIs
  <2>2. l \in Nat /\ l <= UINT64_MAX /\ UINT64_MAX \in Nat /\ Double(l) \in {l, l + 1}
    BY LimitIs
  <2>3. /\ b > Double(l) => z = l
        /\ b <= Double(l) /\ b <= UINT64_MAX => z = b
    <3>1. Double(l) \in Nat
      BY <2>2
    <3>2. b > Double(l) => z = l
      BY DEF Scaled
    <3>3. ~(b > Double(l)) /\ b <= UINT64_MAX => z = b
      BY DEF Scaled
    <3> HIDE DEF b, l
    <3> QED BY <2>1, <3>1, <3>2, <3>3
  <2> HIDE DEF b, x, d, l
  <2>4. x + d < l => z - x \in -d .. d
    <3>1. x + d < l => b <= Double(l) /\ b <= UINT64_MAX
      BY <2>1, <2>2
    <3>2. x + d < l => z = b
      BY <2>3, <3>1
    <3> QED BY <2>1, <3>2
  <2>5. x - d > l + 1 => z = l
    <3>1. x - d > l + 1 => b > Double(l)
      BY <2>1, <2>2
    <3> QED BY <2>3, <3>1
  <2>6. parsed.value = v /\ parsed.unit = u /\ parsed.size = z
    OBVIOUS
  <2> QED BY <2>4, <2>5, <2>6 DEF ScaledRight, x, d, l
<1> QED BY <1>1, <1>2, <1>3, PTL DEF Spec
=============================================================================
