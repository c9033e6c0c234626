---------------------------- MODULE UdtReceiver ----------------------------
(***************************************************************************)
(* One established connection seen from its receiving end: packets of a    *)
(* fixed stream arrive in any order, any number of times or not at all;    *)
(* the application reads; the sending half of the control block calls      *)
(* output() whenever it likes.  The io_service runs one handler at a time, *)
(* so a handler is one step.                                               *)
(***************************************************************************)
EXTENDS UdtRcvBuf

CONSTANTS Segs,    \* the packets the peer cuts its stream into
          Reads,   \* the sizes of the application's receive buffers
          Junk     \* what the uninitialized rcv_win of output() may hold

\* The peer's packets: of one stream, cut once.  Two packets that differ do
\* not overlap, unless they are the same data with and without a FIN; only
\* the last packet carries a FIN, and only a FIN travels without data.
StreamEnd(n) == \A p \in Segs : p.seq + p.len <= n
ASSUME SegsAssumption ==
  /\ Segs \subseteq Packet
  /\ \A p \in Segs : /\ p.seq >= 1
                     /\ p.len = 0 => p.fin
                     /\ p.fin => StreamEnd(p.seq + p.len)
  /\ \A p, s \in Segs : \/ p.seq = s.seq /\ p.len = s.len
                        \/ p.seq + p.len <= s.seq
                        \/ s.seq + s.len <= p.seq
ASSUME ReadsAssumption == Reads \subseteq Nat \ {0}
ASSUME JunkAssumption == Junk \subseteq Int

VARIABLES r,        \* the receive half, see UdtRcvBuf
          eof,      \* m_last_error is eof: the peer's FIN has been counted
          op,       \* the size of the pending receive operation, 0 if none
          arrived,  \* ghost: the packets that have arrived
          eofTold   \* ghost: the application was told eof

vars == <<r, eof, op, arrived, eofTold>>

Init ==
  /\ r = Advertise(RcvInit(1), RcvHiWat)   \* what the segment with the SYN told
  /\ eof = FALSE
  /\ op = 0
  /\ arrived = {}
  /\ eofTold = FALSE

----------------------------------------------------------------------------
(* What the steps are made of. *)

\* What a call of output() leaves: no segment, a segment without data, or
\* one with data, whose window is computed from an uninitialized variable.
AfterOutput(x) == {x, Advertise(x, Acc(x))} \cup {Advertise(x, j) : j \in Junk}

\* recv_data: with an error the operation completes with what there is;
\* without one it waits (delay_copy_timer_) until its buffer can be filled.
Dispatched(x, err, n) == n # 0 /\ (err \/ n <= Len(x.q)) /\ (err \/ Len(x.q) > 0)
AfterRecvData(x, err, n) == IF Dispatched(x, err, n) THEN Copy(x, n) ELSE x

\* The rest of a handler once recv_data may run: the copy, then the output()
\* that announces the space it freed.
Readable(x, err, n) ==
  /\ LET y == AfterRecvData(x, err, n)
     IN  IF Dispatched(x, err, n) /\ ~err THEN r' \in AfterOutput(y) ELSE r' = y
  /\ op' = IF Dispatched(x, err, n) THEN 0 ELSE n
  /\ eofTold' = (eofTold \/ (err /\ Dispatched(x, err, n)))

----------------------------------------------------------------------------
(* The handlers. *)

\* input() on a packet outside the window: it is acknowledged, not kept.
InputOutside(p) ==
  /\ OutOfWindow(r, p.seq, p.len, FALSE)
  /\ r' \in AfterOutput(r)
  /\ arrived' = arrived \cup {p}
  /\ UNCHANGED <<eof, op, eofTold>>

\* input() on a packet inside the window: header prediction or TCP_REASS;
\* handle_fin unless handle_ack returned early (counted = FALSE); then
\* commit_notifies: output(), on_readable().
InputInside(p, counted) ==
  /\ ~OutOfWindow(r, p.seq, p.len, FALSE)
  /\ arrived' = arrived \cup {p}
  /\ LET x == TcpReass(r, p)
         isFin == FinAtBack(x) /\ ~eof /\ counted
         y == IF isFin THEN CountFin(x) ELSE x
     IN  /\ eof' = (eof \/ isFin)
         /\ \E z \in AfterOutput(y) : Readable(z, eof', op)

\* async_receive: refused at once after an error, queued and tried otherwise.
AsyncReceive(n) ==
  /\ op = 0
  /\ IF eof THEN eofTold' = TRUE /\ UNCHANGED <<r, op>>
            ELSE Readable(r, FALSE, n)
  /\ UNCHANGED <<eof, arrived>>

\* Mutant: the operation waits for the rest of its buffer.
DelayTimerPartial ==
  /\ op # 0 /\ Len(r.q) > 0
  /\ r' = Copy(r, op)
  /\ op' = op - Least(op, Len(r.q))
  /\ UNCHANGED <<eof, arrived, eofTold>>

\* handle_delay_recv_operation: the operation takes what there is.
DelayTimer ==
  /\ op # 0
  /\ Len(r.q) > 0
  /\ r' = Copy(r, op)
  /\ op' = 0
  /\ eofTold' = (eofTold \/ eof)
  /\ UNCHANGED <<eof, arrived>>

\* output() called by a timer, by a send, or by an ACK that arrived.
Output ==
  /\ r' \in AfterOutput(r)
  /\ UNCHANGED <<eof, op, arrived, eofTold>>

Next ==
  \/ \E p \in Segs : InputOutside(p)
  \/ \E p \in Segs, counted \in BOOLEAN : InputInside(p, counted)
  \/ \E n \in Reads : AsyncReceive(n)
  \/ DelayTimer
  \/ Output

Spec == Init /\ [][Next]_vars

----------------------------------------------------------------------------
(* Properties. *)

FinCount == IF eof THEN 1 ELSE 0

\* The fields of the control block and of the receive buffer have their types.
TypeOK ==
  /\ r \in [nxt : Nat, adv : Nat, q : Seq(Nat), fin : {"none", "bare", "data"},
            reasm : SUBSET Segs, got : Seq(Nat), ok : BOOLEAN]
  /\ eof \in BOOLEAN
  /\ op \in Reads \cup {0}
  /\ arrived \subseteq Segs
  /\ eofTold \in BOOLEAN

\* What the application has read, followed by what is buffered, is the stream
\* from its first byte, without a hole or a repetition, up to m_rcv_nxt.
InOrderDelivery ==
  r.got \o r.q = Bytes(1, r.nxt - 1 - FinCount)

\* m_rcv_nxt, which is what the peer is sent as uh_ack, never passes a byte
\* that no packet brought: a loss is never acknowledged.
AckHonest ==
  \A b \in 1 .. (r.nxt - 1 - FinCount) : \E p \in arrived : Holds(p, b)

\* The assertions after udt_buf::append never fail: what is buffered fits,
\* because the window promised to the peer is no larger than the free space.
AppendFits == r.ok

\* A SACK block reports only bytes that wait in the reassembly queue, ahead of
\* the cumulative acknowledgement: the sender frees what is reported.
SackHonest ==
  \A s \in SackBlocks(r.reasm) :
    /\ s[1] >= r.nxt
    /\ \A b \in s[1] .. (s[2] - 1) : \E p \in r.reasm \cap arrived : Holds(p, b)

\* The peer's FIN is counted only when every byte before it has been accepted:
\* no end of stream is reported over a hole.
EofIsComplete == eof => StreamEnd(r.nxt - 1)

\* udt_test/udt_test_server.cpp:53 treats eof as the end of the stream: an
\* application that is told eof has read everything.
EofAfterData == eofTold => r.q = << >>

----------------------------------------------------------------------------
(* The inductive invariants of the proofs. *)

\* What x, the receive half, is when E says whether the FIN has been counted
\* and A is the set of packets that have arrived.
Edge(x, E) == IF E THEN x.nxt - 1 ELSE x.nxt
RcvInv(x, E, A) ==
  /\ x \in [nxt : Nat, adv : Nat, q : Seq(Nat), fin : {"none", "bare", "data"},
            reasm : SUBSET Segs, got : Seq(Nat), ok : BOOLEAN]
  /\ Edge(x, E) >= 1
  /\ x.got \o x.q = Bytes(1, Edge(x, E) - 1)
  /\ \A b \in 1 .. (Edge(x, E) - 1) : \E p \in A : Holds(p, b)
  /\ x.reasm \subseteq A
  /\ \A p \in x.reasm : p.seq > x.nxt
  /\ \A p \in x.reasm : p.seq + p.len <= Greatest(x.adv, x.nxt + RcvHiWat)
  /\ x.fin # "none" /\ ~E => StreamEnd(x.nxt)
  /\ E => StreamEnd(x.nxt - 1)

\* The promise to the peer, and what waits for reassembly, end where the
\* buffer does: this is what the uninitialized window breaks.
FitInv(x) ==
  /\ x.ok
  /\ Len(x.q) <= RcvHiWat
  /\ x.adv <= x.nxt + Acc(x)
  /\ \A p \in x.reasm : p.seq + p.len <= x.nxt + Acc(x)

\* The invariant that the handlers of the receive path keep, see RcvInv: it is
\* stronger than each property above, and every handler maps it to itself.
IndInv ==
  /\ RcvInv(r, eof, arrived)
  /\ eof \in BOOLEAN /\ op \in Reads \cup {0}
  /\ arrived \subseteq Segs /\ eofTold \in BOOLEAN

\* The same with the bound of the buffer, when rcv_win is never positive junk.
IndFits == IndInv /\ FitInv(r)
=============================================================================
