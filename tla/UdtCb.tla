------------------------------- MODULE UdtCb -------------------------------
(***************************************************************************)
(* The control block of one connection (udt_cb*.cpp, udt_timo.cpp,         *)
(* udt_sub.cpp, udt_usrreq.cpp) with the part of udt_socket.cpp it calls   *)
(* back: one operator per function, from a record c to a record.           *)
(*                                                                         *)
(*   st               m_state                                              *)
(*   err              m_last_error                                         *)
(*   flags            the TF_ flags of m_flags                             *)
(*   una nxt max fack m_snd_una, m_snd_nxt, m_snd_max, m_snd_fack          *)
(*   retrans          m_retrans_data                                       *)
(*   sb sbseq         the send buffer: its packets, a set whose order is   *)
(*                    the order of uh_seq, and its m_seq                   *)
(*   ops              send_ops_: the sizes of the queued send operations   *)
(*   wnd cwnd         m_snd_wnd, m_snd_cwnd                                *)
(*   dupacks          m_dupacks, which counts no further than it matters   *)
(*   incr             is_pkt_lost_rate_incr(), a function of the time of   *)
(*                    the last three losses                                *)
(*   shift            m_rxtshift                                           *)
(*   rtt rtseq        whether m_rtt # 0, and m_rtseq                       *)
(*   pseq             m_pseq                                               *)
(*   rexmt persist keep msl   whether the timer is armed; how long it runs *)
(*                    is not modelled, it may expire at any time           *)
(*   r                the receive half, see UdtRcvBuf                      *)
(*   op delay         the pending receive operation (0: none), and whether *)
(*                    delay_copy_timer_ runs                               *)
(*   handler          the connect or accept handler has not been called    *)
(*   up               ghost: it has been called without an error           *)
(*   shut             shutdown_handler_ is set                             *)
(*   deaf             no async_receive_from is pending on the UDP socket   *)
(*   told             ghost: a segment with a FIN has been sent            *)
(*   out              ghost: the datagrams this step has sent, in order    *)
(*   bad              ghost: the assertions this step has failed           *)
(*                                                                         *)
(* u holds what a step reads that is not modelled: u.junk the value of the *)
(* uninitialized rcv_win in output(), u.loss whether the losses come       *)
(* faster after one more of them, u.idle whether m_idle has reached the    *)
(* limit it is compared with.  u.force is m_force, u.inp is TRUE below     *)
(* handle_receive, where no async_receive_from is pending.                 *)
(***************************************************************************)
EXTENDS UdtRcvBuf, FiniteSetsExt, Functions

CONSTANTS SndHiWat,     \* m_hiwat of the send buffer
          CwndSegs,     \* min_cwnd() in segments: 8 in the code
          RexmtThresh,  \* s_tcprexmtthresh: 3
          MaxRxtShift,  \* TCP_MAXRXTSHIFT: 12
          SendClamp,    \* send_packets_clamp: 10
          KeepAlive     \* UDT_KEEPALIVE in so_options_

ASSUME CbAssumption ==
  /\ SndHiWat \in Nat \ {0} /\ CwndSegs \in Nat \ {0} /\ CwndSegs * MaxSeg <= MaxWin
  /\ RexmtThresh \in Nat /\ MaxRxtShift \in Nat \ {0} /\ SendClamp \in Nat \ {0}
  /\ KeepAlive \in BOOLEAN

Opening == {"CLOSED", "LISTEN", "SYN_SENT", "SYN_RECEIVED"}
States == Opening \cup {"ESTABLISHED", "CLOSE_WAIT", "FIN_WAIT_1", "CLOSING",
                        "LAST_ACK", "FIN_WAIT_2", "TIME_WAIT"}

OutFlags == [s \in States |->
  CASE s = "CLOSED" -> {"RST", "ACK"}
    [] s = "LISTEN" -> {}
    [] s = "SYN_SENT" -> {"SYN"}
    [] s = "SYN_RECEIVED" -> {"SYN", "ACK"}
    [] s \in {"FIN_WAIT_1", "CLOSING", "LAST_ACK"} -> {"FIN", "ACK"}
    [] OTHER -> {"ACK"}]

HaveRcvdFin(c) == c.st \in {"CLOSE_WAIT", "TIME_WAIT", "CLOSING"}

HaveSndFin(c) == "SENTFIN" \in c.flags

MinCwnd == CwndSegs * MaxSeg

\* udt_cb::init; s_iss is 0.
CbInit == [st |-> "CLOSED", err |-> "none", flags |-> {},
           una |-> 0, nxt |-> 0, max |-> 0, fack |-> 0, retrans |-> 0,
           sb |-> {}, sbseq |-> 0, ops |-> << >>,
           wnd |-> MinCwnd, cwnd |-> MinCwnd, dupacks |-> 0, incr |-> FALSE,
           shift |-> 0, rtt |-> FALSE, rtseq |-> 0, pseq |-> 0,
           rexmt |-> FALSE, persist |-> FALSE, keep |-> FALSE, msl |-> FALSE,
           r |-> RcvInit(0), op |-> 0, delay |-> FALSE,
           handler |-> FALSE, up |-> FALSE, shut |-> FALSE, deaf |-> TRUE,
           told |-> FALSE, out |-> << >>, bad |-> {}]

On(c, fs) == [c EXCEPT !.flags = @ \cup fs]
Off(c, fs) == [c EXCEPT !.flags = @ \ fs]
Assert_(c, name, cond) == IF cond THEN c ELSE [c EXCEPT !.bad = @ \cup {name}]

\* The bytes of a set of packets: each byte is counted with its packet, and
\* in pending_data() with its send operation.
SumLen(S) == Cardinality({x \in S \X (1 .. MaxSeg) : x[2] <= x[1].len})
Pending(c) == Cardinality(UNION {{i} \X (1 .. c.ops[i]) : i \in DOMAIN c.ops})
Marked(S) == {p \in S : p.rx}
FirstOf(S) == {p \in S : \A o \in S : p.seq <= o.seq}

----------------------------------------------------------------------------
(* The congestion window. *)

Inflight(c) == Greatest(0, c.nxt - c.fack + c.retrans)
CanSendBytes(c) ==
  Greatest(0, Least(c.cwnd - Inflight(c), Greatest(0, c.wnd - (c.nxt - c.una))))

SlowStart(c) == IF c.incr THEN [c EXCEPT !.cwnd = MinCwnd + Inflight(c)] ELSE c

IncrCwnd(c) ==
  LET seg == IF c.incr THEN Greatest(1, (MaxSeg * MaxSeg) \div c.cwnd) ELSE MaxSeg
  IN  [c EXCEPT !.cwnd = Least(@ + seg, MaxWin)]

HandlePacketLost(c, u) ==
  [c EXCEPT !.incr = u.loss,
            !.cwnd = IF u.loss THEN Greatest(@ - @ \div 4, MinCwnd) ELSE @]

----------------------------------------------------------------------------
(* Timers that are helpers of every path. *)

XmitTimer(c) == [c EXCEPT !.rtt = FALSE, !.shift = 0]
UpdateRtt(c, seq) == IF c.rtt /\ seq = c.rtseq THEN XmitTimer(c) ELSE c

LeavePersist(c) ==
  IF c.persist THEN [c EXCEPT !.persist = FALSE, !.shift = 0] ELSE c
EnterPersist(c) ==
  [Assert_(c, "enter_persist", ~c.rexmt)
     EXCEPT !.persist = TRUE, !.shift = Least(@ + 1, MaxRxtShift)]
\* Mutants: the retransmit timer is ignored; a closed window is never probed.
CanPersistAlways(c) == Pending(c) + SumLen(c.sb) # 0 /\ ~c.persist
CanPersistNever(c) == FALSE
CanPersist(c) == Pending(c) + SumLen(c.sb) # 0 /\ ~c.persist /\ ~c.rexmt

ResetRexmtTimer(c) ==
  IF c.una = c.max THEN On([c EXCEPT !.rexmt = FALSE], {"NEED_OUTPUT"})
  ELSE [c EXCEPT !.rexmt = @ \/ ~c.persist]

----------------------------------------------------------------------------
(* The send buffer. *)

\* udt_buf::append: n bytes cut into packets of MaxSeg and a shorter last one.
Cut(seq, n) ==
  {[seq |-> seq + k * MaxSeg, len |-> Least(MaxSeg, n - k * MaxSeg), rx |-> FALSE] :
     k \in {j \in 0 .. n : j * MaxSeg < n}}

\* consume_pending_data: the operations that fit, in order.
ConsumeOne(c) ==
  IF c.ops = << >> \/ Head(c.ops) > SndHiWat - SumLen(c.sb) THEN c
  ELSE [c EXCEPT !.sb = @ \cup Cut(c.sbseq, Head(c.ops)),
                 !.sbseq = @ + Head(c.ops), !.ops = Tail(@)]
ConsumePendingData(c) ==
  LET after[k \in 0 .. Len(c.ops)] == IF k = 0 THEN c ELSE ConsumeOne(after[k - 1])
  IN  after[Len(c.ops)]

\* Mutant: m_retrans_data is not told of the packets that go.
DropSndPktsUncounted(c, gone) ==
  [c EXCEPT !.sb = @ \ gone]

\* drop_snd_pkt on every packet of a set.
DropSndPkts(c, gone) ==
  [c EXCEPT !.sb = @ \ gone, !.retrans = @ - SumLen(Marked(c.sb \cap gone))]

\* Mutant: snd_nxt is not moved up to an acknowledgement that overtakes it.
DropAckedDataOvertaken(c, ack) ==
  [DropSndPkts(c, {p \in c.sb : p.seq < ack})
     EXCEPT !.una = ack, !.fack = Greatest(@, ack)]

\* drop_acked_data, with update_snd_una; check_rexmt_data asserts the account.
DropAckedData(c, ack) ==
  LET d == DropSndPkts(c, {p \in c.sb : p.seq < ack})
  IN  [Assert_(d, "check_rexmt_data", d.retrans = SumLen(Marked(d.sb)))
         EXCEPT !.una = ack, !.nxt = Greatest(@, ack), !.fack = Greatest(@, ack)]

\* Mutant: everything from the start of a block on is freed.
HandleOptionSackOpen(c, blocks) ==
  DropSndPkts(c, {p \in c.sb : \E b \in blocks : b[1] <= p.seq})

\* handle_option_sack: what a block covers is freed.
HandleOptionSack(c, blocks) ==
  IF blocks = {} THEN c
  ELSE DropSndPkts([c EXCEPT !.fack = Greatest(@, Max({b[2] : b \in blocks}))],
         {p \in c.sb : \E b \in blocks :
            b[1] <= p.seq /\ p.seq + p.len <= b[2]})

\* Mutant: the first packet is always taken for one being retransmitted.
ValidateFirstPktAlways(c) ==
  LET first == FirstOf(c.sb)
  IN  [c EXCEPT !.sb = (@ \ first) \cup {[p EXCEPT !.rx = FALSE] : p \in first},
                !.retrans = @ - SumLen(first)]
ValidateFirstPkt(c) ==
  LET first == FirstOf(c.sb)
  IN  [c EXCEPT !.sb = (@ \ first) \cup {[p EXCEPT !.rx = FALSE] : p \in first},
                !.retrans = @ - SumLen(Marked(first))]

\* get_snd_pkt: the first packet from snd_nxt on that is not being
\* retransmitted, if it is not longer than n; the empty set if there is none.
SndPkt(c, n) ==
  {p \in FirstOf({o \in c.sb : o.seq >= c.nxt /\ ~o.rx}) : p.len <= n}
GetSndPkt(c, p) ==
  LET d == Assert_(c, "get_snd_pkt", p.seq < c.max => p.seq + p.len <= c.max /\ p.seq # 0)
  IN  IF p.seq < c.max
      THEN [d EXCEPT !.nxt = p.seq, !.retrans = @ + p.len,
                     !.sb = (@ \ {p}) \cup {[p EXCEPT !.rx = TRUE]}]
      ELSE [d EXCEPT !.nxt = p.seq]

----------------------------------------------------------------------------
(* output. *)

Segment(c, flags, seq, ack, len, win, sack) ==
  [c EXCEPT !.told = @ \/ "FIN" \in flags,
            !.out = Append(@, [flags |-> flags, seq |-> seq, ack |-> ack, len |-> len,
                               win |-> win, sack |-> sack, pseq |-> c.pseq])]

\* respond: a segment without data or options, and the free space as window.
Respond(c, seq, flags) == Segment(c, flags, seq, c.r.nxt, 0, Acc(c.r), {})

\* m_snd_nxt as a segment finds it: a SYN is always the first, a FIN that is
\* sent again takes its old number.
StartOf(c, flags) ==
  IF "SYN" \in flags THEN 0
  ELSE IF "FIN" \in flags /\ HaveSndFin(c) /\ c.nxt = c.max THEN c.nxt - 1
  ELSE c.nxt

\* "Advance snd_nxt over sequence space of this segment", from n to m.
AdvanceNxt(c, flags, n, m) ==
  LET arm == ~c.rexmt /\ m # c.una
      d == IF arm THEN LeavePersist(c) ELSE c
  IN  [d EXCEPT !.nxt = m, !.max = Greatest(@, m), !.rexmt = @ \/ arm,
                !.rtt = @ \/ m > c.max, !.rtseq = IF m > c.max /\ ~c.rtt THEN n ELSE @,
                !.flags = @ \cup (IF "FIN" \in flags THEN {"SENTFIN"} ELSE {})]

\* Mutant: a probe is counted as one byte, whatever packet it carries.
ProbeNxtByte(c, n, m) == [c EXCEPT !.nxt = n, !.max = Greatest(@, n + 1)]

\* A window probe: just set snd_max.
ProbeNxt(c, n, m) == [c EXCEPT !.nxt = n, !.max = Greatest(@, m)]

\* From the label "send:" to the end of one round, with the value rcv_win holds
\* and the SACK blocks.
SendSegment(c, u, flags, len, raw, sack) ==
  LET n == StartOf(c, flags)
      seq == IF len > 0 \/ flags \cap {"SYN", "FIN"} # {} \/ c.persist THEN n ELSE c.max
      d == Assert_(Assert_(Segment(c, flags, seq, c.r.nxt, len, AdvertisedWindow(c.r, raw), sack),
                           "output", len > 0 => seq = c.nxt),
                   "check_sack_option", \A b \in sack : b[1] < b[2])
      e == IF u.force /\ c.persist THEN ProbeNxt(d, n, n + len)
           ELSE AdvanceNxt(d, flags, n, n + len + Cardinality(flags \cap {"SYN", "FIN"}))
  IN  Off([e EXCEPT !.r = Advertise(@, raw)], {"ACKNOW", "DELACK", "NEED_OUTPUT"})

\* The flags of s_tcp_outflags; no FIN before the data that is waiting.
FlagsFor(c, len) ==
  OutFlags[c.st] \ (IF c.nxt + len < c.sbseq + Pending(c) THEN {"FIN"} ELSE {})

MustSend(c, flags, len) ==
  \/ len > 0
  \/ WindowUpdateDue(c.r)
  \/ "ACKNOW" \in c.flags
  \/ flags \cap {"SYN", "RST"} # {}
  \/ "FIN" \in flags /\ (~HaveSndFin(c) \/ c.nxt = c.una)

\* Packet p becomes the one to send; without one, a closed window stops the
\* retransmit timer.
ChoosePkt(c, u, p) == IF u.force THEN GetSndPkt(c, p) ELSE LeavePersist(GetSndPkt(c, p))
NoPkt(c, can) ==
  IF can < MaxSeg /\ c.wnd < MaxSeg THEN [c EXCEPT !.nxt = c.una, !.rexmt = FALSE] ELSE c

\* One round from the label "again:"; more: another one is due.
OutputLen(c, u, can, len) ==
  LET flags == FlagsFor(c, len)
  IN  IF MustSend(c, flags, len)
      THEN [more |-> len > 0 /\ ~u.force /\ can > len,
            c |-> SendSegment(c, u, flags, len, IF len > 0 THEN u.junk ELSE Acc(c.r),
                              IF "ACK" \in flags THEN SackBlocks(c.r.reasm) ELSE {})]
      ELSE [more |-> FALSE,
            c |-> IF CanPersist(c) THEN EnterPersist([c EXCEPT !.shift = 0]) ELSE c]
OutputPkt(c, u, can) ==
  LET pkts == IF can >= MaxSeg THEN SndPkt(c, can) ELSE {}
      p == CHOOSE x \in pkts : TRUE
  IN  IF pkts = {} THEN OutputLen(NoPkt(c, can), u, can, 0)
      ELSE OutputLen(ChoosePkt(c, u, p), u, can, p.len)
OutputRound(c, u) ==
  LET can == CanSendBytes(c)
      room == c.sbseq < can + c.nxt \/ c.sb = {}
  IN  OutputPkt(IF Pending(c) > 0 /\ room THEN ConsumePendingData(c) ELSE c, u,
                IF u.force THEN Greatest(can, MaxSeg) ELSE can)

\* The rounds of one call, send_packets_clamp of them at most.
OutputRounds(c, u) ==
  LET after[k \in 0 .. SendClamp] ==
        IF k = 0 THEN [more |-> TRUE, c |-> c]
        ELSE LET d == after[k - 1] IN IF d.more THEN OutputRound(d.c, u) ELSE d
  IN  after[SendClamp].c

Output(c, u) ==
  LET d == IF c.max = c.una /\ u.idle THEN SlowStart(c) ELSE c
  IN  IF c.st = "CLOSED" THEN c
      ELSE OutputRounds(Assert_(d, "force_output", u.force => d.una = d.nxt), u)
=============================================================================
