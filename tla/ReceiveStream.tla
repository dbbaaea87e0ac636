---------------------------- MODULE ReceiveStream ----------------------------
(***************************************************************************)
(* What the receive path promises: the messages the HCA accepts reach the  *)
(* handler cut into pieces of at most a buffer each, completely, in the    *)
(* order in which they were accepted, with the sender of each piece and    *)
(* with the flow control data exactly once.                                *)
(***************************************************************************)
EXTENDS Integers, Sequences

CONSTANTS
  Nodes,       \* the remote nodes
  MaxSGEs,     \* the number of buffers for a message
  BufferSize,  \* the size of a buffer
  MaxFC        \* the largest flow control value of a message

VARIABLE stream  \* the pieces accepted and not yet handed to the handler

Init == stream = <<>>

(* The full buffers of a message, then the rest.                           *)
Full(len) == [i \in 1..len \div BufferSize |-> BufferSize]
Rest(len) == IF len % BufferSize = 0 /\ len > 0 THEN <<>> ELSE <<len % BufferSize>>

Pieces(src, len, fc) ==
  LET lengths == Full(len) \o Rest(len)
  IN  [i \in DOMAIN lengths |->
         [src |-> src, len |-> lengths[i], fc |-> IF i = 1 THEN fc ELSE 0]]

Accept(src, len, fc) == stream' = stream \o Pieces(src, len, fc)

Handle == \E k \in 1..Len(stream) : stream' = SubSeq(stream, k + 1, Len(stream))

Next ==
  \/ \E src \in Nodes, len \in 0..MaxSGEs * BufferSize, fc \in 0..MaxFC :
       Accept(src, len, fc)
  \/ Handle

Spec == Init /\ [][Next]_stream

=============================================================================
