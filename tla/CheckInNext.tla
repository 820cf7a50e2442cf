---------------------------- MODULE CheckInNext ----------------------------
(***************************************************************************)
(* CheckIn, with a record of what the hub owed the board when it last      *)
(* checked in: what the documents say of the next check-in is about that   *)
(* one, and not about what happens in the end.                             *)
(***************************************************************************)
EXTENDS CheckIn

VARIABLE
  owed            \* history: what the operator had been told is set when the
                  \* board last reported to the hub; 0 if that DATA was lost

varsNext == <<vars, owed>>

InitNext == Init /\ owed = 0

NextOwed == /\ Next
            /\ owed' = IF ReportHeard THEN acked ELSE IF ReportLost THEN 0 ELSE owed

SpecNext == InitNext /\ [][NextOwed]_varsNext

-----------------------------------------------------------------------------
(* A request "takes effect on that node's next check-in" (api.py:82-84,    *)
(* node_config.py:24-25): a window of a report that the hub has received   *)
(* is not closed by a frame that is not the answer, with what was set      *)
(* before the report still to come. That no frame arrives at all is not    *)
(* counted. The code looks at one frame, whatever it is (leaf_main.c:64).  *)
TakesEffectNext == [][Hear /\ step' = "asleep" => wake >= owed]_varsNext
=============================================================================
