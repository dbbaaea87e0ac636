----------------------------- MODULE MCDiscovery -----------------------------
(***************************************************************************)
(* Discovery for TLC: the first address may be added twice and changes its *)
(* node id, the other does neither.                                        *)
(***************************************************************************)
EXTENDS Discovery

CONSTANT A

MCIdsOf      == [a \in Addresses |-> IF a = A THEN {0, 1} ELSE {2}]
MCMaxEntries == [a \in Addresses |-> IF a = A THEN 2 ELSE 1]

=============================================================================
