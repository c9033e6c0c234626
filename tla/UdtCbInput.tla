----------------------------- MODULE UdtCbInput -----------------------------
(***************************************************************************)
(* What drives a control block: input() on a datagram, the slow and the    *)
(* fast timer, and the calls of the application through udt_socket.cpp.    *)
(* Operators on the record c of UdtCb.                                     *)
(***************************************************************************)
EXTENDS UdtCb

----------------------------------------------------------------------------
(* udt_socket.cpp, as far as the control block calls it. *)

\* recv_data: without an error an operation waits for delay_copy_timer_ until
\* its buffer can be filled; with one it takes what there is.
RecvData(c, u) ==
  IF c.op = 0 \/ (c.r.q = << >> /\ c.err = "none") THEN c
  ELSE IF c.err # "none" THEN [c EXCEPT !.r = Copy(@, c.op), !.op = 0]
  ELSE IF c.op > Len(c.r.q) THEN [c EXCEPT !.delay = TRUE]
  ELSE Output([c EXCEPT !.r = Copy(@, c.op), !.op = 0], u)

\* on_writable.
OnWritable(c, u) ==
  LET d == ConsumePendingData(c)
  IN  IF d.sbseq # c.sbseq THEN Output(d, u) ELSE d

\* on_connected: the handler is called; the send buffer starts at snd_nxt.
OnConnected(c) ==
  [c EXCEPT !.up = @ \/ c.handler, !.handler = FALSE, !.sbseq = c.nxt]

\* cancel: nothing stays queued; the pending async_receive_from is aborted.
Cancel(c, u) ==
  [c EXCEPT !.ops = << >>, !.op = 0, !.handler = FALSE, !.shut = FALSE,
            !.delay = FALSE, !.deaf = @ \/ ~u.inp]

\* drop, with on_disconnected: every queued operation is completed with an
\* error.  The timers are left as they are.
Drop(c, e, u) ==
  LET d == [c EXCEPT !.err = IF e = "none" THEN @ ELSE e]
  IN  [Cancel(RecvData(d, u), u) EXCEPT !.st = "CLOSED"]

CancelTimers(c) ==
  [c EXCEPT !.rexmt = FALSE, !.persist = FALSE, !.keep = FALSE, !.msl = FALSE]

\* commit_notifies: what the handler has asked for, from the innermost call.
CommitOutput(c, u) ==
  IF c.flags \cap {"ACKNOW", "NEED_OUTPUT"} # {} THEN Output(c, u) ELSE c
CommitReset(c) ==
  IF "NEED_RESET" \in c.flags
  THEN Off(Respond(c, c.nxt, {"RST"}), {"NEED_RESET"}) ELSE c
CommitRead(c, u) ==
  IF "NOTIFY_READ" \notin c.flags THEN c
  ELSE Off(IF c.r.q # << >> \/ HaveRcvdFin(c) THEN RecvData(c, u) ELSE c, {"NOTIFY_READ"})
CommitWrite(c, u) ==
  IF "NOTIFY_WRITE" \in c.flags THEN Off(OnWritable(c, u), {"NOTIFY_WRITE"}) ELSE c
CommitDrop(c, u) ==
  IF "NOTIFY_DROP" \in c.flags THEN Off(Drop(c, c.err, u), {"NOTIFY_DROP"}) ELSE c
CommitNotifies(c, u) ==
  CommitDrop(CommitWrite(CommitRead(CommitReset(CommitOutput(c, u)), u), u), u)

----------------------------------------------------------------------------
(* input. *)

\* do_header_prediction, its common condition and its two cases.
Predicted(c, p) ==
  /\ c.st = "ESTABLISHED"
  /\ p.flags \cap {"SYN", "FIN", "RST", "ACK"} = {"ACK"}
  /\ p.seq = c.r.nxt
  /\ p.win # 0 /\ p.win = c.wnd
  /\ c.nxt = c.max
PredictedAck(c, p) ==
  Predicted(c, p) /\ p.len = 0 /\ p.ack > c.una /\ p.ack <= c.max /\ c.cwnd >= c.wnd
PredictedData(c, p) ==
  Predicted(c, p) /\ p.len > 0 /\ p.ack = c.una /\ c.r.reasm = {} /\ p.len <= Acc(c.r)

HandlePredictedAck(c, p, u) ==
  LET d == On(ResetRexmtTimer(DropAckedData(c, p.ack)), {"NOTIFY_WRITE"})
  IN  IF d.sb # {} THEN Output(d, u) ELSE d

Piece(p, seq) == [seq |-> seq, len |-> p.len, fin |-> "FIN" \in p.flags]

\* TCP_REASS: in order, delay the ACK; out of order, send it now.
TcpReassemble(c, p, seq) ==
  LET piece == Piece(p, seq)
      d == [c EXCEPT !.r = TcpReass(@, piece)]
      read == IF d.r.nxt # c.r.nxt THEN {"NOTIFY_READ"} ELSE {}
  IN  On(d, read \cup IF InSequence(c.r, piece) THEN {"DELACK"} ELSE {"ACKNOW"})

\* handle_syn: the SYN takes a sequence number.  It returns TRUE, after an
\* assertion that fails, in every state the switch does not name.
SynExpected(c) ==
  c.st \in {"LISTEN", "SYN_SENT", "SYN_RECEIVED", "ESTABLISHED"}

\* Mutant: the acceptor is established by the SYN.
HandleSynEager(c, p) ==
  [OnConnected(On(c, {"ACKNOW"}))
     EXCEPT !.wnd = p.win, !.st = "ESTABLISHED", !.r.nxt = p.seq + 1, !.r.adv = p.seq + 1]
HandleSyn(c, p) ==
  LET d == On([c EXCEPT !.wnd = p.win], {"ACKNOW"})
  IN  CASE c.st = "LISTEN" ->
             [d EXCEPT !.una = 0, !.nxt = 0, !.max = 0, !.fack = 0, !.st = "SYN_RECEIVED",
                       !.r.nxt = p.seq + 1, !.r.adv = p.seq + 1, !.keep = TRUE]
        [] c.st \in {"SYN_SENT", "SYN_RECEIVED"} ->
             [d EXCEPT !.st = "SYN_RECEIVED", !.keep = TRUE,
                       !.r.nxt = p.seq + 1, !.r.adv = p.seq + 1]
        [] c.st = "ESTABLISHED" -> [d EXCEPT !.keep = TRUE]
        [] OTHER -> Assert_(d, "handle_syn", FALSE)

\* update_ack_state: everything sent has been acknowledged.
UpdateAckState(c) ==
  LET d == CASE c.st = "SYN_SENT" -> On([c EXCEPT !.st = "SYN_RECEIVED"], {"ACKNOW"})
             [] c.st = "SYN_RECEIVED" ->
                  OnConnected([(IF c.rtt THEN XmitTimer(c) ELSE c)
                                 EXCEPT !.st = "ESTABLISHED"])
             [] OTHER -> c
  IN  IF ~HaveSndFin(d) THEN d
      ELSE CASE d.st = "FIN_WAIT_1" -> [d EXCEPT !.st = "FIN_WAIT_2"]
             [] d.st = "CLOSING" ->
                  On([CancelTimers(d) EXCEPT !.st = "TIME_WAIT", !.msl = TRUE],
                     {"NOTIFY_DROP"})
             [] d.st = "LAST_ACK" -> On([d EXCEPT !.st = "CLOSED"], {"NOTIFY_DROP"})
             [] OTHER -> d

DoFastRexmt(c, ack, u) ==
  LET lost == HandlePacketLost(c, u)
      c1 == [lost EXCEPT !.rexmt = FALSE, !.nxt = ack]
      c2 == ValidateFirstPkt([c1 EXCEPT !.cwnd = Inflight(c1) + MaxSeg])
  IN  [Output(c2, u) EXCEPT !.cwnd = lost.cwnd, !.nxt = c.nxt]

\* Mutant: the state moves on with any acknowledgement.
AcksAllAlways(c, p) == p.ack >= c.una

\* handle_ack: everything sent is acknowledged.
AcksAll(c, p) == p.ack = c.max

\* handle_ack; done is what it returns.
HandleAck(c, p, u) ==
  LET s == HandleOptionSack(IF AcksAll(c, p) THEN UpdateAckState(c) ELSE c, p.sack)
      dup == [s EXCEPT !.dupacks = Least(@ + 1, RexmtThresh + 1)]
  IN  CASE p.ack < c.una -> [c |-> c, done |-> TRUE]
        [] p.ack > c.max -> [done |-> TRUE, c |->
             On([c EXCEPT !.err = "malformed_packet"], {"NOTIFY_DROP", "NEED_RESET"})]
        [] p.ack = c.una /\ p.ack <= c.max /\ p.win # s.wnd -> [done |-> FALSE, c |->
             ResetRexmtTimer(On([s EXCEPT !.wnd = p.win], {"NEED_OUTPUT"}))]
        [] p.ack = c.una /\ p.ack <= c.max /\ p.win = s.wnd ->
             IF ~s.rexmt
             THEN [done |-> FALSE, c |-> ResetRexmtTimer([s EXCEPT !.dupacks = 0])]
             ELSE IF dup.dupacks = RexmtThresh
             THEN [done |-> TRUE, c |-> DoFastRexmt([dup EXCEPT !.rtt = FALSE], p.ack, u)]
             ELSE IF dup.dupacks > RexmtThresh
             THEN [done |-> TRUE, c |-> On(dup, {"NEED_OUTPUT"})]
             ELSE [done |-> FALSE, c |-> ResetRexmtTimer(dup)]
        [] p.ack > c.una /\ p.ack <= c.max -> [done |-> FALSE, c |->
             ResetRexmtTimer(On([DropAckedData([IncrCwnd(s) EXCEPT !.dupacks = 0], p.ack)
                                   EXCEPT !.wnd = p.win], {"NOTIFY_WRITE", "NEED_OUTPUT"}))]

HandleFin(c) ==
  LET d == IF HaveRcvdFin(c) THEN c
           ELSE On([c EXCEPT !.r = CountFin(@), !.err = "eof"], {"ACKNOW", "NOTIFY_READ"})
  IN  CASE c.st \in {"ESTABLISHED", "CLOSE_WAIT"} -> [d EXCEPT !.st = "CLOSE_WAIT"]
        [] c.st \in {"FIN_WAIT_1", "CLOSING"} -> [d EXCEPT !.st = "CLOSING"]
        [] c.st \in {"FIN_WAIT_2", "TIME_WAIT"} ->
             On([d EXCEPT !.st = "TIME_WAIT", !.msl = TRUE], {"NOTIFY_DROP"})
        [] OTHER -> d

\* The slow path of input(), after handle_syn; fin is read before handle_ack.
FinishInput(a, fin) == IF ~a.done /\ fin THEN HandleFin(a.c) ELSE a.c
InputAck(c, p, u) ==
  FinishInput(IF "ACK" \in p.flags THEN HandleAck(c, p, u) ELSE [c |-> c, done |-> FALSE],
              FinAtBack(c.r))
InputSegment(c, p, u) ==
  LET syn == "SYN" \in p.flags
      seq == IF syn THEN p.seq + 1 ELSE p.seq
  IN  InputAck(IF p.len > 0 \/ syn \/ "FIN" \in p.flags THEN TcpReassemble(c, p, seq) ELSE c,
               p, u)

Input(c, p, u) ==
  LET d == UpdateRtt([c EXCEPT !.pseq = p.seq, !.keep = TRUE], p.pseq)
      syn == "SYN" \in p.flags
      e == CASE d.st = "CLOSED" ->
                  IF "RST" \in p.flags THEN d
                  ELSE On([d EXCEPT !.err = "connection_reset"], {"NOTIFY_DROP", "NEED_RESET"})
             [] d.st # "CLOSED" /\ "RST" \in p.flags ->
                  On([d EXCEPT !.err = "connection_reset"], {"NOTIFY_DROP"})
             [] d.st # "CLOSED" /\ "RST" \notin p.flags ->
                  IF OutOfWindow(d.r, p.seq, p.len, syn) THEN On(d, {"ACKNOW"})
                  ELSE IF PredictedAck(d, p) THEN HandlePredictedAck(d, p, u)
                  ELSE IF PredictedData(d, p)
                  THEN On([d EXCEPT !.r = AppendPkt(@, Piece(p, p.seq))],
                          {"DELACK", "NOTIFY_READ"})
                  ELSE IF syn /\ ~SynExpected(d) THEN HandleSyn(d, p)
                  ELSE InputSegment(IF syn THEN HandleSyn(d, p) ELSE d, p, u)
  IN  CommitNotifies(e, u)

----------------------------------------------------------------------------
(* Timers. *)

\* Mutants: m_retrans_data is not cleared; nothing is sent, and never again.
RexmtTimeoutUncleared(c, u) ==
  Output([c EXCEPT !.nxt = c.una, !.fack = c.una, !.rtt = FALSE,
                   !.sb = {[p EXCEPT !.rx = FALSE] : p \in @}], u)
RexmtTimeoutSilent(c, u) == [c EXCEPT !.rexmt = FALSE, !.nxt = c.una, !.fack = c.una]

\* handle_slow_timo, TCPT_REXMT, with clear_snd_buf_flags.
RexmtTimeout(c, u) ==
  IF c.shift + 1 > MaxRxtShift
  THEN Drop([c EXCEPT !.rexmt = FALSE, !.shift = MaxRxtShift], "timed_out", u)
  ELSE LET d == HandlePacketLost([c EXCEPT !.shift = @ + 1, !.rexmt = TRUE, !.rtt = FALSE,
                                           !.nxt = c.una, !.fack = c.una], u)
           Clear(p) == IF p.seq < c.max THEN [p EXCEPT !.rx = FALSE] ELSE p
       IN  Output([d EXCEPT !.sb = {Clear(p) : p \in @}, !.retrans = 0], u)

\* TCPT_PERSIST: a window probe.
PersistTimeout(c, u) ==
  Output(ValidateFirstPkt(EnterPersist([c EXCEPT !.persist = FALSE])),
         [u EXCEPT !.force = TRUE])

\* TCPT_KEEP; u.idle is m_idle >= s_keepidle + s_maxidle.
KeepTimeout(c, u) ==
  LET d == [c EXCEPT !.keep = FALSE]
  IN  IF c.st \in Opening THEN Drop(d, "timed_out", u)
      ELSE IF c.st \in {"ESTABLISHED", "CLOSE_WAIT"} /\ KeepAlive
      THEN IF u.idle THEN Drop(d, "timed_out", u)
           ELSE [Respond(d, c.una - 1, {"ACK"}) EXCEPT !.keep = TRUE]
      ELSE [d EXCEPT !.keep = TRUE]

\* TCPT_2MSL.
MslTimeout(c, u) == Drop([c EXCEPT !.msl = FALSE], "timed_out", u)

\* handle_fast_timo.
FastTimeout(c, u) ==
  IF "DELACK" \in c.flags THEN Output(On(Off(c, {"DELACK"}), {"ACKNOW"}), u) ELSE c

\* handle_delay_recv_operation: the operation takes what there is.
DelayTimeout(c) ==
  LET d == [c EXCEPT !.delay = FALSE]
  IN  IF c.op # 0 /\ (c.r.q # << >> \/ c.err # "none")
      THEN [d EXCEPT !.r = Copy(@, c.op), !.op = 0] ELSE d

----------------------------------------------------------------------------
(* Calls of the application. *)

\* async_connect, with do_receive and udt_cb::connect.
Connect(c, u) ==
  Output([c EXCEPT !.handler = TRUE, !.deaf = FALSE, !.st = "SYN_SENT", !.keep = TRUE,
                   !.una = 0, !.nxt = 0, !.max = 0, !.fack = 0], u)

\* async_accept.
Accept(c) == [c EXCEPT !.handler = TRUE, !.deaf = FALSE, !.st = "LISTEN"]

\* async_send of n bytes: after an error it is refused.
AsyncSend(c, n, u) ==
  IF c.err # "none" THEN c ELSE OnWritable([c EXCEPT !.ops = Append(@, n)], u)

\* async_receive into n bytes: after an error it is refused.
AsyncReceive(c, n, u) ==
  IF c.err # "none" THEN c ELSE RecvData([c EXCEPT !.op = n], u)

\* Mutant: the FIN waits for something else to send it.
AsyncShutdownSilent(c, u) ==
  [c EXCEPT !.shut = TRUE,
            !.st = IF @ = "ESTABLISHED" THEN "FIN_WAIT_1"
                   ELSE IF @ = "CLOSE_WAIT" THEN "LAST_ACK" ELSE @]

\* async_shutdown.
AsyncShutdown(c, u) ==
  LET d == [c EXCEPT !.shut = TRUE]
  IN  CASE c.st = "ESTABLISHED" -> Output([d EXCEPT !.st = "FIN_WAIT_1"], u)
        [] c.st = "CLOSE_WAIT" -> Output([d EXCEPT !.st = "LAST_ACK"], u)
        [] OTHER -> d
=============================================================================
