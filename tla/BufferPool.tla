----------------------------- MODULE BufferPool -----------------------------
(***************************************************************************)
(* What RecvBufferPool promises its callers, with the ring, the cursors    *)
(* and the threads taken away: the receive buffers are either available,   *)
(* in the order in which they will be handed out, or with the rest of the  *)
(* program.  A buffer is never in two places and never lost.               *)
(***************************************************************************)
EXTENDS Integers, Sequences

CONSTANT PoolSize  \* number of receive buffers

VARIABLES
  avail,  \* the available buffers, next one to be handed out first
  out     \* the buffers the rest of the program holds

vars == <<avail, out>>

(* The slices of the memory region, named by their index.                  *)
Buffers == 0..PoolSize - 1

Elems(s) == {s[i] : i \in 1..Len(s)}

Init ==
  /\ avail = [i \in 1..PoolSize |-> i - 1]
  /\ out = {}

(* Hand out the first k available buffers.                                 *)
Take ==
  \E k \in 1..Len(avail) :
    /\ avail' = SubSeq(avail, k + 1, Len(avail))
    /\ out' = out \cup Elems(SubSeq(avail, 1, k))

(* Take back a batch of buffers; they become available behind the others.  *)
Give ==
  \E k \in 1..PoolSize : \E batch \in [1..k -> out] :
    /\ \A i, j \in 1..k : i # j => batch[i] # batch[j]
    /\ avail' = avail \o batch
    /\ out' = out \ Elems(batch)

Next == Take \/ Give

Spec == Init /\ [][Next]_vars

=============================================================================
