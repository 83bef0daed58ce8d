---------------------------- MODULE MessageQueue ----------------------------
(***************************************************************************)
(* What the two threads of common/plugin_control.c expect of the list they *)
(* share: a first-in first-out queue of messages that either of them uses  *)
(* atomically.  PluginControl is written in terms of it; MessageList shows *)
(* that the linked list, the semaphore and insque()/remque() provide it.   *)
(***************************************************************************)
EXTENDS Sequences

CONSTANT Messages

VARIABLE queue

QueueInit == queue = <<>>

Enqueue(m) == queue' = Append(queue, m)

Dequeue == queue # <<>> /\ queue' = Tail(queue)

QueueNext == Dequeue \/ \E m \in Messages : Enqueue(m)

QueueSpec == QueueInit /\ [][QueueNext]_queue
=============================================================================
