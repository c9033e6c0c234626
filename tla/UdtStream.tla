----------------------------- MODULE UdtStream -----------------------------
(***************************************************************************)
(* What a connection promises its two applications: in each direction a    *)
(* stream of bytes that arrives in order, without a hole, a repetition or  *)
(* an invention; an end of the stream that is reported only when all of it *)
(* has arrived; and, after an error, silence.  Nothing is said of packets, *)
(* windows, timers or sequence numbers.                                    *)
(***************************************************************************)
EXTENDS Integers, Sequences

CONSTANTS Ends, Peer(_)

VARIABLES written,   \* written[e]: how many bytes end e has committed to send
          finished,  \* finished[e]: end e has sent the end of its stream
          arrived,   \* arrived[e]: how many bytes of the peer end e has accepted
          read,      \* read[e]: the bytes the application at e has been given
          status     \* status[e]: "open", "eof" (the peer has finished), "failed"

Init ==
  /\ written = [e \in Ends |-> 0]
  /\ finished = [e \in Ends |-> FALSE]
  /\ arrived = [e \in Ends |-> 0]
  /\ read = [e \in Ends |-> << >>]
  /\ status = [e \in Ends |-> "open"]

\* More of the stream is committed until it is finished or has failed.
Writes(e) ==
  /\ written'[e] >= written[e]
  /\ finished[e] => finished'[e] /\ written'[e] = written[e]
  /\ status[e] = "failed" => written'[e] = written[e] /\ finished'[e] = finished[e]

\* Bytes that were committed arrive, while the stream is open.
Arrives(e) ==
  /\ arrived[e] <= arrived'[e]
  /\ arrived'[e] <= written[Peer(e)]
  /\ status[e] # "open" => arrived'[e] = arrived[e]

\* The application is given the next bytes that have arrived.
IsGiven(e) ==
  \E n \in Len(read[e]) .. arrived'[e] : read'[e] = [i \in 1 .. n |-> i]

\* The end of the peer's stream, or an error, is final.
Changes(e) ==
  \/ status'[e] = status[e]
  \/ status'[e] = "failed"
  \/ /\ status[e] = "open" /\ status'[e] = "eof"
     /\ finished[Peer(e)] /\ arrived'[e] = written[Peer(e)]

Step(e) ==
  /\ Writes(e) /\ Arrives(e) /\ IsGiven(e) /\ Changes(e)
  /\ \A o \in Ends \ {e} :
       <<written[o], finished[o], arrived[o], read[o], status[o]>>' =
         <<written[o], finished[o], arrived[o], read[o], status[o]>>

Next == \E e \in Ends : Step(e)

Spec == Init /\ [][Next]_<<written, finished, arrived, read, status>>
=============================================================================
