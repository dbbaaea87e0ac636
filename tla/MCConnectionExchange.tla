------------------------ MODULE MCConnectionExchange ------------------------
(***************************************************************************)
(* ConnectionExchange for TLC.  The nodes are alike, so that packets are   *)
(* reordered on their way to one of them only; what fails or restarts may  *)
(* be either.                                                              *)
(***************************************************************************)
EXTENDS ConnectionExchange

TwoAndOne == [n \in {A, B} |-> IF n = A THEN 2 ELSE 1]

=============================================================================
