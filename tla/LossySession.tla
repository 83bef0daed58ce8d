---------------------------- MODULE LossySession ----------------------------
(***************************************************************************)
(* The framework at work with Mistral.  Mistral is outside this code: its  *)
(* side of a session is modelled from the messages parse_message expects,  *)
(* one version message, then blocks numbered from 1, each a start, data    *)
(* lines and an end, then a shutdown message.  Any line may be lost on the *)
(* way, which mistral_received_data_start(3) calls the most likely failure.*)
(* A data line carries the number of the block Mistral wrote it in, so     *)
(* that mixing two blocks can be seen.                                     *)
(***************************************************************************)
EXTENDS PluginControl

CONSTANTS
    MaxBlocks,      \* bound on the blocks Mistral sends
    MaxEntries      \* bound on the data lines of a block

ASSUME SessionAssumption ==
    /\ MaxBlocks \in Number /\ MaxEntries \in Nat
    /\ Payload = Number /\ Blank = 0

VARIABLES
    phase,      \* where Mistral is in the session
    block,      \* the block it is in, or was in last
    entries,    \* data lines it has written in this block
    lost        \* number of lines lost

mistral == <<phase, block, entries, lost>>
sessionVars == <<vars, mistral>>

SessionInit ==
    /\ Init
    /\ phase = "version" /\ block = 0 /\ entries = 0 /\ lost = 0

Control(type, number) ==
    [message |-> type, number |-> number, min |-> 1, wellformed |-> TRUE,
     terminated |-> TRUE, data |-> Blank]

(* Mistral writes line l.                                                  *)
Writes(l) ==
    \/ /\ phase = "version" /\ l = Control("SUP_VERSION", ver)
       /\ phase' = "between" /\ UNCHANGED <<block, entries>>
    \/ /\ phase = "between" /\ block < MaxBlocks
       /\ l = Control("DATA_START", block + 1)
       /\ phase' = "inside" /\ block' = block + 1 /\ entries' = 0
    \/ /\ phase = "inside" /\ entries < MaxEntries
       /\ l = [Control("DATA_LINE", 0) EXCEPT !.data = block]
       /\ entries' = entries + 1 /\ UNCHANGED <<phase, block>>
    \/ /\ phase = "inside" /\ l = Control("DATA_END", block)
       /\ phase' = "between" /\ UNCHANGED <<block, entries>>
    \/ /\ phase = "between" /\ l = Control("SHUTDOWN", 0)
       /\ phase' = "over" /\ UNCHANGED <<block, entries>>

Delivered == \E l \in Lines : Writes(l) /\ ReadLine(l) /\ UNCHANGED lost

Lost ==
    /\ \E l \in Lines : Writes(l)
    /\ lost' = lost + 1
    /\ UNCHANGED vars

SessionNext ==
    \/ Delivered
    \/ Lost
    \/ Inside /\ UNCHANGED mistral

SessionSpec == SessionInit /\ [][SessionNext]_sessionVars

-----------------------------------------------------------------------------
(* What a plug-in is given between a start and an end that is not flagged  *)
(* comes from one block of Mistral's, the one whose number it is told,     *)
(* whatever was lost.  (Lines may be missing: nothing counts them.)        *)
UnflaggedBlocksArePure ==
    \A i \in DOMAIN accepted :
        (accepted[i].message = "DATA_END" /\ ~accepted[i].error) =>
            \A j \in Before(accepted, i, {"DATA_LINE"}) :
                (\A k \in Before(accepted, i, {"DATA_START", "DATA_END"}) : k < j) =>
                    accepted[j].data = accepted[i].block_num

(* The count is resynchronised by every start that gets through: an end is *)
(* flagged only when the start of its block was lost or refused.           *)
FlaggedEndLacksStart ==
    \A i, j \in DOMAIN accepted :
        /\ accepted[i].message = "DATA_END" /\ accepted[i].error
        /\ accepted[j].message = "DATA_START"
        => accepted[j].block_num # accepted[i].block_num

(* A plug-in that is told of an error has lost something.                  *)
NoFalseAlarm ==
    (\E i \in DOMAIN accepted : accepted[i].error) => lost > 0
=============================================================================
