--------------------------- MODULE MCLossySession ---------------------------
(***************************************************************************)
(* LossySession with the lines a session of at most MaxBlocks blocks uses. *)
(***************************************************************************)
EXTENDS LossySession

MCLines ==
    {Control("SUP_VERSION", ver), Control("SHUTDOWN", 0)}
    \cup {Control(t, n) : t \in {"DATA_START", "DATA_END"}, n \in 1 .. MaxBlocks}
    \cup {[Control("DATA_LINE", 0) EXCEPT !.data = n] : n \in 1 .. MaxBlocks}

MCPayload == 0 .. (BlockModulus - 1)
=============================================================================
