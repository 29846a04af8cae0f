------------------------------ MODULE MCChase ------------------------------
EXTENDS Chase

CONSTANTS p, q, r

MCQuarries == {{q, r}, {q}}
MCParties == {{p, q}}
MCOrders == {<<q, p, r>>}
MCSpeed == [a \in Actor |-> CASE a = p -> 10 [] a = q -> 2 [] OTHER -> 0]
MCBrought == [a \in Actor |-> CASE a = p -> 1 [] a = q -> 4 [] OTHER -> 0]
MCFreeDashes == [a \in Actor |-> CASE a = q -> 0 [] a = p -> 1 [] OTHER -> 2]
=============================================================================
