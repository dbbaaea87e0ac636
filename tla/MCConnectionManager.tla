------------------------ MODULE MCConnectionManager ------------------------
(***************************************************************************)
(* The connection manager for TLC.  Threads are alike, and so are the      *)
(* incarnations of the remote node.                                        *)
(***************************************************************************)
EXTENDS ConnectionManager, TLC

Symmetry == Permutations(Threads) \cup Permutations(Idents)

=============================================================================
