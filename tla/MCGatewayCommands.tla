-------------------------- MODULE MCGatewayCommands --------------------------
(***************************************************************************)
(* Small instances of GatewayCommands: o1 and o2 are two orders with one   *)
(* dedupe key, c1, c2 and c3 condition commands with another, b1 a         *)
(* backfill request with that one too.                                     *)
(***************************************************************************)
EXTENDS GatewayCommands

CONSTANTS o1, o2, c1, c2, c3, b1, kOrder, kControl

MCKeyOf == [i \in Ids |-> IF i \in {o1, o2} THEN kOrder ELSE kControl]
MCKind == [i \in Ids |-> IF i \in {o1, o2} THEN "order"
                        ELSE IF i = b1 THEN "backfill" ELSE "condition"]
MCRank == [i \in Ids |-> IF i \in {o1, o2} THEN 0 ELSE 1]
MCTTL == [i \in Ids |-> IF i \in {o1, c1} THEN 2 ELSE 1]
MCMaxAttempts == [i \in Ids |-> IF i = o2 THEN 1 ELSE 2]

=============================================================================
