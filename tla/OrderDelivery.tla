---------------------------- MODULE OrderDelivery ----------------------------
(***************************************************************************)
(* What the command channel promises to the order paths of Core, with no   *)
(* queue, no database and no messages: an accepted order is sent to the    *)
(* gateway at most once or not at all, a withdrawn order is never sent,    *)
(* and two orders with one dedupe key are sent at least the retention      *)
(* period apart.                                                           *)
(***************************************************************************)
EXTENDS Integers

CONSTANTS
    Orders,    \* order command ids
    Keys,      \* dedupe keys
    KeyOf,     \* the key of each order
    Retention  \* seconds

VARIABLES
    clock,  \* wall clock
    phase,  \* what became of each order
    sentAt  \* when an order with this key was last sent, or 0

vars == <<clock, phase, sentAt>>

Phases == {"none", "pending", "sent", "withdrawn"}

Init ==
    /\ clock = 1
    /\ phase = [i \in Orders |-> "none"]
    /\ sentAt = [k \in Keys |-> 0]

Advance == clock' = clock + 1 /\ UNCHANGED <<phase, sentAt>>

Accept(i) ==
    /\ phase[i] = "none"
    /\ phase' = [phase EXCEPT ![i] = "pending"]
    /\ UNCHANGED <<clock, sentAt>>

Rested(k) == sentAt[k] = 0 \/ clock >= sentAt[k] + Retention

\* The pending orders of S are sent, those of W given up for good.
Settle(S, W) ==
    /\ \A i \in S \cup W : phase[i] = "pending"
    /\ \A i \in S : Rested(KeyOf[i])
    /\ \A i, j \in S : KeyOf[i] = KeyOf[j] => i = j
    /\ phase' = [i \in Orders |-> IF i \in S THEN "sent"
                                  ELSE IF i \in W THEN "withdrawn" ELSE phase[i]]
    /\ sentAt' = [k \in Keys |-> IF \E i \in S : KeyOf[i] = k THEN clock ELSE sentAt[k]]
    /\ UNCHANGED clock

Next ==
    \/ Advance
    \/ \E i \in Orders : Accept(i)
    \/ \E S, W \in SUBSET Orders : Settle(S, W)

Spec == Init /\ [][Next]_vars

=============================================================================
