--------------------------- MODULE MCOrderEventLog ---------------------------
(***************************************************************************)
(* Small instances of OrderEventLog: e1 and e2 report one fill under two   *)
(* event ids, i1 is an event the codec ignores.                            *)
(***************************************************************************)
EXTENDS OrderEventLog

CONSTANTS e1, e2, i1, f1, f2

MCFillOf == [e \in Events |-> IF e = i1 THEN f2 ELSE f1]
MCReceivedAt == [e \in Events |-> IF e = i1 THEN 0 ELSE IF e = e1 THEN 1 ELSE 2]

=============================================================================
