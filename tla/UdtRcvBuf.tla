----------------------------- MODULE UdtRcvBuf -----------------------------
(***************************************************************************)
(* The receive half of one connection: the receive buffer of udt_buf.cpp,  *)
(* the reassembly of udt_cb_input.cpp, the window advertised by            *)
(* udt_cb_output.cpp and the SACK blocks of udt_option.cpp, as operators   *)
(* on a record r:                                                          *)
(*   nxt    m_rcv_nxt, the next sequence number expected                   *)
(*   adv    m_rcv_adv, the right edge of the window the peer was told      *)
(*   q      m_pkts, flattened to the bytes it holds; Len(q) is m_cc        *)
(*   fin    what the packet at the back of m_pkts carries: "none" (no      *)
(*          FIN), "bare" (a FIN without data), "data" (a FIN with data)    *)
(*   reasm  m_reasm_pkts: a set, its order is the order of uh_seq          *)
(*   got    ghost: the bytes handed to the application, in order           *)
(*   ok     ghost: FALSE after a failed append (BOOST_ASSERT(false))       *)
(* A byte of the stream is identified by its sequence number: the sender   *)
(* cuts its stream into packets once (udt_buf::append) and retransmits     *)
(* those same packets.  Sequence numbers do not wrap here.                 *)
(***************************************************************************)
EXTENDS Integers, Sequences, FiniteSets

CONSTANTS MaxSeg,     \* m_maxseg
          RcvHiWat,   \* m_hiwat of the receive buffer
          MaxWin      \* TCP_MAXWIN

ASSUME RcvBufAssumption ==
  MaxSeg \in Nat \ {0} /\ RcvHiWat \in Nat \ {0} /\ MaxWin \in Nat \ {0}

Least(a, b) == IF a < b THEN a ELSE b
Greatest(a, b) == IF a > b THEN a ELSE b

Packet == [seq : Nat, len : Nat, fin : BOOLEAN]

\* The bytes of a packet that starts at a.
Bytes(a, n) == [i \in 1 .. n |-> a + i - 1]
Holds(p, b) == p.seq <= b /\ b < p.seq + p.len
FinMark(p) == IF ~p.fin THEN "none" ELSE IF p.len = 0 THEN "bare" ELSE "data"

RcvInit(irs) == [nxt |-> irs, adv |-> irs, q |-> << >>, fin |-> "none",
                 reasm |-> {}, got |-> << >>, ok |-> TRUE]

\* udt_buf::acc: the free space.
Acc(r) == RcvHiWat - Len(r.q)

----------------------------------------------------------------------------
(* Arriving packets. *)

\* Mutant: the right edge of the window is not checked.
OutOfWindowLeftOnly(r, seq, len, syn) == r.nxt - seq - (IF syn THEN 1 ELSE 0) > 0
OutOfWindowSlack(r, seq, len, syn) ==
  \/ r.nxt - seq - (IF syn THEN 1 ELSE 0) > 1
  \/ seq + len > r.nxt + Greatest(Greatest(Acc(r), 0), r.adv - r.nxt)

\* drop_out_of_rcv_wnd_packet: starts before rcv_nxt, or ends beyond the
\* larger of the free space and the window already promised.
OutOfWindow(r, seq, len, syn) ==
  \/ r.nxt - seq - (IF syn THEN 1 ELSE 0) > 0
  \/ seq + len > r.nxt + Greatest(Greatest(Acc(r), 0), r.adv - r.nxt)

\* udt_buf::append of one packet; the callers assert that it fits.
AppendPkt(r, p) ==
  IF p.len > Acc(r) THEN [r EXCEPT !.ok = FALSE]
  ELSE [r EXCEPT !.q = @ \o Bytes(p.seq, p.len),
                 !.nxt = @ + p.len,
                 !.fin = FinMark(p)]

\* The first sequence number from n on that no packet of R holds.
IsFrontier(R, n, e) ==
  /\ e >= n
  /\ ~ \E p \in R : Holds(p, e)
  /\ \A b \in n .. (e - 1) : \E p \in R : Holds(p, b)

\* Mutant: the merge does not stop at a hole.
FrontierOverHoles(R, n) ==
  CHOOSE e \in {n} \cup {p.seq + p.len : p \in R} :
    e >= n /\ \A p \in R : p.seq + p.len <= e

Frontier(R, n) == CHOOSE e \in {n} \cup {p.seq + p.len : p \in R} : IsFrontier(R, n, e)

\* The packets merge_reasm_pkts moves to m_pkts when rcv_nxt becomes e.
Merged(R, e) == {p \in R : p.seq + p.len <= e}
LastOf(R) == CHOOSE p \in R : \A o \in R : o.seq <= p.seq

\* Mutant: what is merged is not taken out of the queue.
MergeReasmPktsKept(r, R) ==
  LET e == Frontier(R, r.nxt)
  IN  IF e - r.nxt > Acc(r) THEN [r EXCEPT !.ok = FALSE]
      ELSE [r EXCEPT !.q = @ \o Bytes(r.nxt, e - r.nxt), !.nxt = e, !.reasm = R]

\* merge_reasm_pkts with R as the reassembly queue.
MergeReasmPkts(r, R) ==
  LET e == Frontier(R, r.nxt)
      M == Merged(R, e)
  IN  IF M = {} THEN [r EXCEPT !.reasm = R]
      ELSE IF e - r.nxt > Acc(r) THEN [r EXCEPT !.ok = FALSE]
      ELSE [r EXCEPT !.q = @ \o Bytes(r.nxt, e - r.nxt),
                     !.nxt = e,
                     !.fin = FinMark(LastOf(M)),
                     !.reasm = R \ M]

\* tcp_reass: insert by sequence number, discard a duplicate, then merge.
InsertReasm(r, p) ==
  IF \E o \in r.reasm : o.seq = p.seq THEN r
  ELSE MergeReasmPkts(r, r.reasm \cup {p})

\* Mutant: an empty queue is taken for a packet in sequence.
InSequenceIfEmpty(r, p) == r.reasm = {}

\* TCP_REASS: the common case inline, the reassembly queue otherwise.
InSequence(r, p) == p.seq = r.nxt /\ r.reasm = {}
TcpReass(r, p) == IF InSequence(r, p) THEN AppendPkt(r, p) ELSE InsertReasm(r, p)

\* Mutant: the FIN of a packet that waits for reassembly is seen too.
FinAnywhere(r) == r.fin # "none" \/ \E p \in r.reasm : p.fin

\* udt_rcv_buf::fin: the packet at the back of m_pkts carries a FIN.
FinAtBack(r) == r.fin # "none"

\* handle_fin: the FIN takes one sequence number.
CountFin(r) == [r EXCEPT !.nxt = @ + 1]

----------------------------------------------------------------------------
(* Reading. *)

\* udt_buf::copy with erase_copied: a packet read to its end is erased; a
\* bare FIN goes only when the read asks for more than is buffered.
Copy(r, n) ==
  LET k == Least(n, Len(r.q))
  IN  [r EXCEPT !.q = SubSeq(@, k + 1, Len(@)),
                !.got = @ \o SubSeq(r.q, 1, k),
                !.fin = IF \/ r.fin = "data" /\ k = Len(r.q)
                           \/ r.fin = "bare" /\ n > Len(r.q)
                        THEN "none" ELSE @]

----------------------------------------------------------------------------
(* What the peer is told. *)

\* Mutant: the whole buffer is promised, whatever it holds.
AdvertisedHiWat(r, raw) == Least(RcvHiWat, MaxWin)

\* output, "Calculate receive window": raw is rcv_win as it was computed, or
\* whatever the uninitialized variable held when the segment carries data.
AdvertisedWindow(r, raw) ==
  LET w == IF raw < RcvHiWat \div 4 /\ raw < MaxSeg THEN 0 ELSE Least(raw, MaxWin)
  IN  Greatest(w, r.adv - r.nxt)

\* output, "remember the size of the advertised window".
Advertise(r, raw) ==
  LET w == AdvertisedWindow(r, raw)
  IN  [r EXCEPT !.adv = IF w > 0 THEN Greatest(@, r.nxt + w) ELSE @]

\* output: the window grew by two segments or by half of the buffer.
WindowUpdateDue(r) ==
  LET grow == Least(Acc(r), MaxWin) - (r.adv - r.nxt)
  IN  Acc(r) > 0 /\ (grow >= 2 * MaxSeg \/ 2 * grow >= RcvHiWat)

\* udt_option_sack::compose: the runs of adjacent packets in the reassembly
\* queue, highest first, at most MAX_PAIR_SEQS of them.
MaxPairSeqs == 3
SackBlocks(R) ==
  LET starts == {p.seq : p \in {x \in R :
                   ~ \E o \in R : o.seq < x.seq /\ o.seq + o.len = x.seq}}
  IN  {<<s, Frontier(R, s)>> :
         s \in {x \in starts : Cardinality({y \in starts : y > x}) < MaxPairSeqs}}
=============================================================================
