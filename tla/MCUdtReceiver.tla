--------------------------- MODULE MCUdtReceiver ---------------------------
(***************************************************************************)
(* UdtReceiver for TLC: a stream of nine bytes in five packets, the last   *)
(* sent with its FIN or without, and a FIN of its own; a receive buffer    *)
(* smaller than the stream; reads of one byte and of more than a packet.   *)
(***************************************************************************)
EXTENDS UdtReceiver

P(seq, len, fin) == [seq |-> seq, len |-> len, fin |-> fin]
MCSegs == {P(1, 2, FALSE), P(3, 2, FALSE), P(5, 2, FALSE), P(7, 2, FALSE),
           P(9, 1, FALSE), P(9, 1, TRUE), P(10, 0, TRUE)}
MCReads == {1, 3}
NoJunk == {0}        \* the 0xcc fill of a debug build is negative, which counts as 0
AnyJunk == {0, 64}   \* a release build: any value of the stack
=============================================================================
