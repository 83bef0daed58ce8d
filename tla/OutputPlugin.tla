---------------------------- MODULE OutputPlugin ----------------------------
(***************************************************************************)
(* What a plug-in promises for the log entries it is handed: each reaches  *)
(* its destination at most once and in the order received, and one that    *)
(* does not is lost only if the plug-in has complained (in its error log,  *)
(* or by shutting down).                                                   *)
(***************************************************************************)
EXTENDS Subsequence

CONSTANT Entries        \* the log entries, in the order they come

VARIABLES
    pending,            \* entries received and not yet dealt with, in order
    stored,             \* what the destination has taken, in order
    lost,               \* entries given up
    told                \* the plug-in has complained

vars == <<pending, stored, lost, told>>

Init ==
    /\ pending = <<>> /\ stored = <<>>
    /\ lost = {} /\ told = FALSE

Receive ==
    \E e \in Entries :
        /\ e \notin Range(pending) \cup Range(stored) \cup lost
        /\ pending' = Append(pending, e)
        /\ UNCHANGED <<stored, lost, told>>

Complain ==
    /\ told' = TRUE
    /\ UNCHANGED <<pending, stored, lost>>

(* The first n entries are dealt with: what is kept of them is stored.     *)
Settle ==
    \E n \in 1 .. Len(pending) :
        LET batch == SubSeq(pending, 1, n)
        IN  \E kept \in Subsequences(batch) :
                /\ pending' = SubSeq(pending, n + 1, Len(pending))
                /\ stored' = stored \o kept
                /\ lost' = lost \cup (Range(batch) \ Range(kept))
                /\ told' \in {told, TRUE}
                /\ lost' # lost => told'

Next == Receive \/ Complain \/ Settle

Spec == Init /\ [][Next]_vars
=============================================================================
