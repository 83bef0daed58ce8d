---------------------------- MODULE MCSqlOutput ----------------------------
(***************************************************************************)
(* Small instances of SqlOutput: two dates, of tables 3 and 4, and two     *)
(* rules.  The columns keep as much of the long one as makes the other;    *)
(* other is a text no entry has.                                           *)
(***************************************************************************)
EXTENDS SqlOutput, TLC

CONSTANTS monday, tuesday, short, long, other

TwoDates == {monday, tuesday}
TwoTables == (monday :> 3) @@ (tuesday :> 4)
TwoRules == {short, long}
AllTexts == {short, long, other}
CutToShort == [t \in AllTexts |-> IF t = long THEN short ELSE t]
CutNothing == [t \in AllTexts |-> t]
=============================================================================
