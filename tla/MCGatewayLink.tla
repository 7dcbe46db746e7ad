---------------------------- MODULE MCGatewayLink ----------------------------
(***************************************************************************)
(* Small instances of GatewayLink: o1 and o2 are two orders with one       *)
(* dedupe key, t1 a TR request.                                            *)
(***************************************************************************)
EXTENDS GatewayLink

CONSTANTS o1, o2, t1, kOrder, kControl

MCKeyOf == [i \in Ids |-> IF i \in {o1, o2} THEN kOrder ELSE kControl]
MCKind == [i \in Ids |-> IF i \in {o1, o2} THEN "order" ELSE "other"]
MCRank == [i \in Ids |-> IF i \in {o1, o2} THEN 0 ELSE 1]
MCTTL == [i \in Ids |-> 1]
MCMaxAttempts == [i \in Ids |-> 2]

=============================================================================
