---------------------------- MODULE MessageList ----------------------------
(***************************************************************************)
(* The linked list of common/plugin_control.c, one pointer at a time:      *)
(* parse_message() appends with insque() through messages_tail,            *)
(* processing_thread() takes from messages_head with remque(), both inside *)
(* the message_list semaphore, and main() frees what is left once the      *)
(* thread has been joined.  Cells are calloc'ed and freed, so that an      *)
(* address is used again: messages_tail is left dangling whenever the list *)
(* becomes empty.                                                          *)
(***************************************************************************)
EXTENDS Naturals, Sequences, FiniteSets

CONSTANTS
    Cells,      \* addresses malloc can hand out
    Messages,   \* contents of a message
    Null

ASSUME ListAssumption ==
    /\ Null \notin Cells
    /\ IsFiniteSet(Cells) /\ Cells # {}

VARIABLES
    heap,           \* the allocated cells: message and list pointers
    messages_head, messages_tail,
    message_list,   \* the semaphore, 1 when free
    comm,           \* position of the communication thread
    new,            \* its cell, this_message
    proc,           \* position of the processing thread
    taken,          \* its cell, message
    invalid         \* a pointer to freed memory was followed

listVars == <<heap, messages_head, messages_tail>>
vars == <<listVars, message_list, comm, new, proc, taken, invalid>>

Allocated == DOMAIN heap

Init ==
    /\ heap = <<>>
    /\ messages_head = Null /\ messages_tail = Null
    /\ message_list = 1
    /\ comm = "read" /\ new = Null
    /\ proc = "loop" /\ taken = Null
    /\ invalid = FALSE

(* Writing a pointer of the cell at address a: lost, but noticed, when the *)
(* cell has been freed.                                                    *)
SetNext(h, a, c) == IF a \in DOMAIN h THEN [h EXCEPT ![a].next = c] ELSE h
SetPrev(h, a, c) == IF a \in DOMAIN h THEN [h EXCEPT ![a].prev = c] ELSE h

Free(h, a) == [c \in DOMAIN h \ {a} |-> h[c]]

Follows(as) == invalid' = (invalid \/ \E a \in as : a \notin Allocated)

-----------------------------------------------------------------------------
(* parse_message().                                                        *)

NewMessage ==
    /\ comm = "read"
    /\ \E c \in Cells \ Allocated, m \in Messages :
          /\ heap' = [a \in Allocated \cup {c} |->
                        IF a = c THEN [data |-> m, next |-> Null, prev |-> Null]
                        ELSE heap[a]]
          /\ new' = c
    /\ comm' = "wait"
    /\ UNCHANGED <<messages_head, messages_tail, message_list, proc, taken, invalid>>

(* Wrong: the tail tells whether the list is empty.                        *)
CommWaitsTestsTail ==
    /\ comm = "wait" /\ message_list > 0
    /\ message_list' = message_list - 1
    /\ comm' = IF messages_tail = Null THEN "first" ELSE "append"
    /\ UNCHANGED <<listVars, new, proc, taken, invalid>>

(* Wrong: the list is taken for empty.                                     *)
CommWaitsRestarts ==
    /\ comm = "wait" /\ message_list > 0
    /\ message_list' = message_list - 1
    /\ comm' = "first"
    /\ UNCHANGED <<listVars, new, proc, taken, invalid>>

(* Wrong: the semaphore is only looked at.                                 *)
CommWaitsPolls ==
    /\ comm = "wait" /\ message_list > 0
    /\ comm' = IF messages_head = Null THEN "first" ELSE "append"
    /\ UNCHANGED <<listVars, message_list, new, proc, taken, invalid>>

CommWaits ==
    /\ comm = "wait" /\ message_list > 0
    /\ message_list' = message_list - 1
    /\ comm' = IF messages_head = Null THEN "first" ELSE "append"
    /\ UNCHANGED <<listVars, new, proc, taken, invalid>>

(* sem_wait() fails: the message is neither listed nor freed, and          *)
(* mistral_shutdown() ends the reading.                                    *)
CommGivesUp ==
    /\ comm = "wait" /\ comm' = "join"
    /\ UNCHANGED <<listVars, message_list, new, proc, taken, invalid>>

(* The empty list: both ends, then insque(this_message, NULL).             *)
LinkFirst ==
    /\ comm = "first" /\ comm' = "post"
    /\ messages_head' = new /\ messages_tail' = new
    /\ heap' = SetPrev(SetNext(heap, new, Null), new, Null)
    /\ UNCHANGED <<message_list, new, proc, taken, invalid>>

(* insque(this_message, messages_tail), which follows messages_tail.       *)
InsertAfterTail ==
    /\ comm = "append" /\ comm' = "tail"
    /\ Follows({messages_tail})
    /\ LET after == IF messages_tail \in Allocated
                    THEN heap[messages_tail].next ELSE Null
           h1 == SetNext(heap, messages_tail, new)
           h2 == SetPrev(SetNext(h1, new, after), new, messages_tail)
       IN  heap' = SetPrev(h2, after, new)
    /\ UNCHANGED <<messages_head, messages_tail, message_list, new, proc, taken>>

AdvanceTail ==
    /\ comm = "tail" /\ comm' = "post"
    /\ messages_tail' = new
    /\ UNCHANGED <<heap, messages_head, message_list, new, proc, taken, invalid>>

CommPosts ==
    /\ comm = "post"
    /\ message_list' = message_list + 1
    /\ comm' = "read" /\ new' = Null
    /\ UNCHANGED <<listVars, proc, taken, invalid>>

(* read_data_from_mistral() has returned.                                  *)
StopsReading ==
    /\ comm = "read" /\ comm' = "join"
    /\ UNCHANGED <<listVars, message_list, new, proc, taken, invalid>>

-----------------------------------------------------------------------------
(* processing_thread().                                                    *)

ProcWaits ==
    /\ proc = "loop" /\ message_list > 0
    /\ message_list' = message_list - 1
    /\ proc' = IF messages_head = Null THEN "post" ELSE "take"
    /\ taken' = messages_head
    /\ UNCHANGED <<listVars, comm, new, invalid>>

(* messages_head = message->next.                                          *)
AdvanceHead ==
    /\ proc = "take" /\ proc' = "unlink"
    /\ Follows({taken})
    /\ messages_head' = IF taken \in Allocated THEN heap[taken].next ELSE Null
    /\ UNCHANGED <<heap, messages_tail, message_list, comm, new, taken>>

(* The neighbours of cell a after remque(a).                               *)
Unlinked(h, a) ==
    LET after == h[a].next
        before == h[a].prev
    IN  SetNext(SetPrev(h, after, before), before, after)

Neighbours(a) == {heap[a].next, heap[a].prev} \ {Null}

Unlink ==
    /\ proc = "unlink" /\ proc' = "post"
    /\ Follows(Neighbours(taken))
    /\ heap' = Unlinked(heap, taken)
    /\ UNCHANGED <<messages_head, messages_tail, message_list, comm, new, taken>>

(* The list was empty: sleep; otherwise the message is processed.          *)
ProcPosts ==
    /\ proc = "post"
    /\ message_list' = message_list + 1
    /\ proc' = IF taken = Null THEN "loop" ELSE "process"
    /\ UNCHANGED <<listVars, comm, new, taken, invalid>>

(* The plug-in is called, then destroy_message_details() frees the cell.   *)
Destroy ==
    /\ proc = "process" /\ proc' = "loop"
    /\ Follows({taken})
    /\ heap' = Free(heap, taken)
    /\ taken' = Null
    /\ UNCHANGED <<messages_head, messages_tail, message_list, comm, new>>

(* The thread ends, on an error with messages still listed.                *)
ThreadEnds ==
    /\ proc = "loop" /\ proc' = "exited"
    /\ UNCHANGED <<listVars, message_list, comm, new, taken, invalid>>

-----------------------------------------------------------------------------
(* main(), alone again: frees the left-over messages one by one.           *)
DiscardHead ==
    /\ comm = "join" /\ proc = "exited" /\ messages_head # Null
    /\ Follows({messages_head} \cup Neighbours(messages_head))
    /\ heap' = Free(Unlinked(heap, messages_head), messages_head)
    /\ messages_head' = heap[messages_head].next
    /\ UNCHANGED <<messages_tail, message_list, comm, new, proc, taken>>

(* Wrong: what is left on the list is left there.                          *)
FinishAtOnce ==
    /\ comm = "join" /\ proc = "exited"
    /\ comm' = "done" /\ messages_tail' = Null
    /\ UNCHANGED <<heap, messages_head, message_list, new, proc, taken, invalid>>

Finish ==
    /\ comm = "join" /\ proc = "exited" /\ messages_head = Null
    /\ comm' = "done" /\ messages_tail' = Null
    /\ UNCHANGED <<heap, messages_head, message_list, new, proc, taken, invalid>>

Done == comm = "done" /\ UNCHANGED vars

Next ==
    \/ NewMessage \/ CommWaits \/ CommGivesUp
    \/ LinkFirst \/ InsertAfterTail \/ AdvanceTail \/ CommPosts \/ StopsReading
    \/ ProcWaits \/ AdvanceHead \/ Unlink \/ ProcPosts \/ Destroy \/ ThreadEnds
    \/ DiscardHead \/ Finish \/ Done

Spec == Init /\ [][Next]_vars

-----------------------------------------------------------------------------
Pointer == Cells \cup {Null}

TypeOK ==
    /\ Allocated \subseteq Cells
    /\ \A c \in Allocated :
          heap[c] \in [data : Messages, next : Pointer, prev : Pointer]
    /\ messages_head \in Pointer /\ messages_tail \in Pointer
    /\ new \in Pointer /\ taken \in Pointer
    /\ message_list \in 0 .. 1 /\ invalid \in BOOLEAN

(* The cells met when following next from messages_head.                   *)
Hop[k \in Nat] ==
    IF k = 0 THEN messages_head
    ELSE IF Hop[k - 1] \in Allocated THEN heap[Hop[k - 1]].next ELSE Null

Length == Cardinality({k \in 1 .. Cardinality(Cells) : Hop[k - 1] # Null})

Chain == [k \in 1 .. Length |-> Hop[k - 1]]

(* Freed memory is never read or written, although messages_tail dangles   *)
(* each time the processing thread empties the list.                       *)
NoUseAfterFree == ~invalid

(* In the end every message has been freed, by the thread that took it or  *)
(* by main(), except the one that could not be listed: it is lost to       *)
(* memory as well when sem_wait() fails.                                   *)
AllFreed == comm = "done" => Allocated \subseteq {new}

(* The list is a queue to both threads.                                    *)
Queue == INSTANCE MessageQueue
         WITH queue <- [k \in DOMAIN Chain |-> heap[Chain[k]].data]

ImplementsQueue == Queue!QueueSpec
=============================================================================
