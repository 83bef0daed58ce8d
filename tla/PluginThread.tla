---------------------------- MODULE PluginThread ----------------------------
(***************************************************************************)
(* The framework and what asks it to stop: a plug-in function, called by   *)
(* the processing thread or by main(), or a thread of the plug-in's own.   *)
(* mistral_shutdown() only sets a flag, which the processing thread looks  *)
(* at when it has processed a message and the communication thread before  *)
(* it reads a line.  What each had done when the flag was set is kept      *)
(* here, to bound what it still does.                                      *)
(***************************************************************************)
EXTENDS PluginControl, Integers

VARIABLE asked  \* history: who set the flag, and how far each thread was

threadVars == <<vars, asked>>

Asked(who, calls, read) == [by |-> who, calls |-> calls, lines |-> read]

ThreadInit == Init /\ asked = Asked("nobody", 0, 0)

(* A thread of the plug-in moves neither of the framework's.               *)
ThreadNext ==
    /\ Next
    /\ asked' = IF shutdown' = shutdown THEN asked
                ELSE Asked(IF UNCHANGED <<cpc, ppc>> THEN "thread" ELSE "function",
                           Len(handled'), lines')

ThreadSpec == ThreadInit /\ [][ThreadNext]_threadVars /\ Fairness

-----------------------------------------------------------------------------
(* After a plug-in function has asked for a shutdown no plug-in function   *)
(* is called but mistral_exit(), whose state may be half made.  A thread   *)
(* of the plug-in is heeded later, and not much: one more message is       *)
(* processed at most.  Either way one more line at most is read, by the    *)
(* getline() that was waiting for it.                                      *)
ShutdownHeeded ==
    shutdown =>
        /\ Len(handled) - asked.calls <= IF asked.by = "function" THEN 0 ELSE 1
        /\ lines - asked.lines <= 1
=============================================================================
