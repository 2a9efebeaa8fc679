-------------------------- MODULE MCDeliveryOutbox --------------------------
(***************************************************************************)
(* Three calls on one delivery; two of them replay the same trace and draw *)
(* the same claim and attempt identifiers.                                 *)
(***************************************************************************)
EXTENDS DeliveryOutbox

CONSTANTS w1, w2, w3, c1, c2, a1, a2

MCWorkers == {w1, w2, w3}
MCClaims == {c1, c2}
MCAttempts == {a1, a2}
MCClaimOf == [w \in MCWorkers |-> IF w = w3 THEN c2 ELSE c1]
MCAttemptOf == [w \in MCWorkers |-> IF w = w3 THEN a2 ELSE a1]
=============================================================================
