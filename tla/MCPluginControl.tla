-------------------------- MODULE MCPluginControl --------------------------
(***************************************************************************)
(* Small instances of PluginControl.  A run picks one of the sets of lines *)
(* below: every message type in its valid form, and the corrupted forms    *)
(* the checks of parse_message are there for.                              *)
(***************************************************************************)
EXTENDS PluginControl

Line(type, number, wellformed, terminated, data) ==
    [message |-> type, number |-> number, min |-> 1,
     wellformed |-> wellformed, terminated |-> terminated, data |-> data]

Good(type, number) == Line(type, number, TRUE, TRUE, Blank)

Version == Good("SUP_VERSION", 2)
Entry == Line("DATA_LINE", 0, TRUE, TRUE, "entry")

\* The control messages of a session: blocks 1 and 2, two intervals.
SessionLines ==
    {Version, Good("INTERVAL", 1), Good("INTERVAL", 2), Good("DATA_START", 1),
     Good("DATA_END", 1), Entry, Good("SHUTDOWN", 0)}

\* Block numbers at the ends of the range, with and without trailing junk;
\* versions out of range on either side, ill-formed, a message only the
\* plug-in may send, an unterminated line and an empty one.
OddLines ==
    {Version, Entry, Good("INTERVAL", 0), Good("INTERVAL", 1), Good("SHUTDOWN", 0)}
    \cup {Good("DATA_START", n) : n \in {0, 1, 2, BlockModulus - 1}}
    \cup {Good("DATA_END", n) : n \in {0, 1, BlockModulus - 1}}
    \cup {Line(t, 1, FALSE, TRUE, Blank) : t \in {"DATA_START", "DATA_END"}}
    \cup {Good("SUP_VERSION", 1), [Version EXCEPT !.number = 3, !.min = 3],
          [Version EXCEPT !.min = 0], [Version EXCEPT !.wellformed = FALSE],
          Good("USED_VERSION", 2), Line("SHUTDOWN", 0, TRUE, FALSE, Blank),
          Line("DATA_LINE", 0, TRUE, TRUE, Blank)}
=============================================================================
