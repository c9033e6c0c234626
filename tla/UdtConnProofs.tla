--------------------------- MODULE UdtConnProofs ---------------------------
(***************************************************************************)
(* Two connected control blocks: every handler of udt_cb_input.cpp,        *)
(* udt_timo.cpp and udt_socket.cpp keeps the invariant of UdtCbProofs, and *)
(* so does every step of UdtConn.                                          *)
(***************************************************************************)
EXTENDS UdtConn, UdtCbProofs

----------------------------------------------------------------------------
(* What a handler may change. *)

\* c and d are in one state of the connection.
Still(c, d) ==
  /\ d.st = c.st /\ d.err = c.err /\ d.una = c.una /\ d.up = c.up /\ d.r.nxt = c.r.nxt

\* A handler is a chain of such steps.
LEMMA LeadsTrans ==
  ASSUME NEW P \in Peers, NEW a \in Cb, NEW b, NEW c, Leads(a, b, P), Leads(b, c, P)
  PROVE  Leads(a, c, P)
<1>1. a.max \in Nat /\ b.max \in Nat /\ c.max \in Nat
  BY CbNumbers DEF Leads, Good, Kept
<1> QED BY <1>1 DEF Leads

\* A handler that changes nothing.
LEMMA LeadsSelf ==
  ASSUME NEW P \in Peers, NEW c, Good(c, P)
  PROVE  Leads(c, c, P) /\ Still(c, c)
<1>1. c.max \in Nat
  BY CbNumbers DEF Good, Kept
<1> QED BY <1>1 DEF Leads, Still

\* An end that has counted the SYN of its peer has left CLOSED, LISTEN and SYN_SENT.
LEMMA CountedSyn ==
  ASSUME NEW P \in Peers, NEW c, Good(c, P)
  PROVE  /\ c.r.nxt \in Nat /\ (Unopened(c) => c.r.nxt = 0)
         /\ c.r.nxt >= 1 => ~Unopened(c) /\ c.st \notin {"LISTEN", "SYN_SENT"}
         /\ c.st \notin {"CLOSED", "LISTEN", "SYN_SENT"} => c.r.nxt >= 1
<1>1. c.r.nxt \in Nat
  BY DEF Good, Kept, Cb, Half
<1> QED BY <1>1 DEF Good, Kept, Phased, Opened, Fresh, Unopened

\* Another receive half: what waits for reassembly ends within what the peer has
\* sent, and the receive buffer is not overrun.
TakeHalf(c, r, n) == [c EXCEPT !.r = r, !.op = n]
(* A receive half that keeps its invariant can replace the old one. *)
LEMMA ReceiveKeeps ==
  ASSUME NEW P \in Peers, NEW c, Good(c, P), NEW r \in Half, NEW n \in Nat,
         r.nxt >= c.r.nxt, c.r.nxt >= 1 \/ r.nxt = c.r.nxt,
         \A p \in r.reasm : p.seq + p.len <= P.max, Len(r.q) <= RcvHiWat,
         NEW d, d = TakeHalf(c, r, n)
  PROVE  /\ Leads(c, d, P) /\ d.r = r /\ d.flags = c.flags /\ d.st = c.st /\ d.err = c.err
         /\ d.una = c.una /\ d.up = c.up /\ d.max = c.max /\ d.sb = c.sb
<1>1. c \in Cb /\ c.max \in Nat /\ c.r.nxt \in Nat /\ r.nxt \in Nat /\ c.out \in Seq(Datagram)
  BY CbNumbers DEF Good, Kept, Cb, Half
<1>2. d = [c EXCEPT !.r = r, !.op = n]
  BY DEF TakeHalf
<1>3. d \in Cb
  BY ZenonT(60), <1>1 DEF Cb, TakeHalf
<1>4. /\ d.r = r /\ d.st = c.st /\ d.err = c.err /\ d.flags = c.flags /\ d.up = c.up
      /\ d.una = c.una /\ d.nxt = c.nxt /\ d.fack = c.fack /\ d.max = c.max
      /\ d.sb = c.sb /\ d.sbseq = c.sbseq /\ d.retrans = c.retrans /\ d.ops = c.ops
  BY <1>1, <1>2 DEF Cb
<1>5. d.out = c.out /\ d.bad = c.bad /\ d.rexmt = c.rexmt /\ d.persist = c.persist
      /\ d.cwnd = c.cwnd
  BY <1>1, <1>2 DEF Cb
<1>6. Phased(d)
  <2>1. Unopened(d) => Fresh(d)
    BY <1>1, <1>4, <1>5 DEF Unopened, Fresh, Good, Kept, Phased
  <2> QED BY <1>4, <1>5, <2>1 DEF Good, Kept, Phased
<1>7. Opened(d, P)
  <2>1. c.r.nxt >= 1 => c.st # "SYN_SENT"
    BY <1>1 DEF Good, Kept, Opened
  <2> QED BY <1>1, <1>4, <2>1 DEF Good, Kept, Opened
<1>8. Buffered(d)
  BY <1>4 DEF Good, Kept, Buffered
<1>9. Heard(d, P)
  <2>1. View(c) \in Peers /\ View(d) \in Peers /\ P.max <= P.max
    BY <1>1, <1>4 DEF View, Peers
  <2>2. View(c).max <= View(d).max /\ (View(c).rcv >= 1 => View(d).rcv >= 1)
    BY <1>1, <1>4 DEF View
  <2>3. \A i \in 1 .. Len(c.out) : c.out[i] \in Datagram
    BY <1>1, ElementOfSeq
  <2>4. \A i \in 1 .. Len(c.out) : Sound(c.out[i], View(c), P)
    BY DEF Good, Kept, Heard
  <2>5. \A i \in 1 .. Len(c.out) : Sound(c.out[i], View(d), P)
    BY <2>1, <2>2, <2>3, <2>4, SoundGrows
  <2> QED BY <1>4, <1>5, <2>5 DEF Heard
<1>10. Good(d, P)
  BY <1>3, <1>4, <1>5, <1>6, <1>7, <1>8, <1>9 DEF Good, Kept
<1> QED BY <1>1, <1>4, <1>5, <1>10 DEF Leads, Wide, Acked

\* udt_buf::copy takes bytes out of the receive buffer and nothing else.
LEMMA CopyHalf ==
  ASSUME NEW r \in Half, NEW n \in Nat
  PROVE  LET d == Copy(r, n)
         IN  d \in Half /\ d.nxt = r.nxt /\ d.reasm = r.reasm /\ Len(d.q) <= Len(r.q)
<1> DEFINE k == Least(n, Len(r.q))
           q2 == SubSeq(r.q, k + 1, Len(r.q))
           g2 == r.got \o SubSeq(r.q, 1, k)
           f2 == IF \/ r.fin = "data" /\ k = Len(r.q)
                    \/ r.fin = "bare" /\ n > Len(r.q)
                 THEN "none" ELSE r.fin
           d == Copy(r, n)
<1>1. r.q \in Seq(Nat) /\ r.got \in Seq(Nat) /\ Len(r.q) \in Nat
      /\ r.fin \in {"none", "bare", "data"}
  BY LenProperties DEF Half
<1>2. k \in 0 .. Len(r.q)
  BY <1>1 DEF Least
<1> HIDE DEF k
<1>3. q2 \in Seq(Nat) /\ Len(q2) = Len(r.q) - k /\ g2 \in Seq(Nat)
  BY <1>1, <1>2, MovePrefix
<1>4. f2 \in {"none", "bare", "data"}
  BY <1>1
<1>5. d = [r EXCEPT !.q = q2, !.got = g2, !.fin = f2]
  BY DEF Copy, k
<1> HIDE DEF q2, g2, f2, d
<1>6. d \in Half
  BY <1>3, <1>4, <1>5 DEF Half
<1>7. d.nxt = r.nxt /\ d.reasm = r.reasm /\ d.q = q2
  BY <1>5 DEF Half
<1> QED BY <1>1, <1>2, <1>3, <1>6, <1>7 DEF d

\* A receive operation is completed.
LEMMA CopyKeeps ==
  ASSUME NEW P \in Peers, NEW c, Good(c, P)
  PROVE  LET d == [c EXCEPT !.r = Copy(@, c.op), !.op = 0]
         IN  Leads(c, d, P) /\ Still(c, d) /\ d.flags = c.flags
<1> DEFINE r == Copy(c.r, c.op)
<1>1. c \in Cb /\ c.r \in Half /\ c.op \in Nat /\ c.r.nxt \in Nat /\ c.r.q \in Seq(Nat)
  BY DEF Good, Kept, Cb, Half
<1>2. r \in Half /\ r.nxt = c.r.nxt /\ r.reasm = c.r.reasm /\ Len(r.q) <= Len(c.r.q)
  BY <1>1, CopyHalf
<1> HIDE DEF r
<1>3. Len(r.q) \in Nat /\ Len(c.r.q) \in Nat
  BY <1>1, <1>2, LenProperties DEF Half
<1>4. Len(r.q) <= RcvHiWat /\ \A p \in r.reasm : p.seq + p.len <= P.max
  BY <1>2, <1>3, RcvBufAssumption DEF Good, Kept, Heard
<1>5. r.nxt >= c.r.nxt
  BY <1>1, <1>2
<1> DEFINE d == [c EXCEPT !.r = Copy(@, c.op), !.op = 0]
<1>6. d = TakeHalf(c, r, 0)
  BY DEF r, TakeHalf
<1> HIDE DEF d
<1>7. /\ Leads(c, d, P) /\ d.r = r /\ d.flags = c.flags /\ d.st = c.st /\ d.err = c.err
      /\ d.una = c.una /\ d.up = c.up
  BY <1>2, <1>4, <1>5, <1>6, ReceiveKeeps
<1> QED BY <1>2, <1>7 DEF Still, d

----------------------------------------------------------------------------
(* udt_socket.cpp. *)

\* recv_data.
LEMMA RecvDataKeeps ==
  ASSUME NEW P \in Peers, NEW c, Good(c, P), c.st # "LISTEN" \/ c.err # "none", NEW u \in Inputs
  PROVE  LET d == RecvData(c, u)
         IN  Leads(c, d, P) /\ Still(c, d)
<1> DEFINE b == [c EXCEPT !.r = Copy(@, c.op), !.op = 0]
           w == [c EXCEPT !.delay = TRUE]
           d == RecvData(c, u)
<1>1. Leads(c, b, P) /\ Still(c, b)
  BY CopyKeeps
<1>2. c \in Cb
  BY DEF Good, Kept
<1>3. Leads(c, w, P) /\ Still(c, w)
  <2>1. w \in Cb /\ Same(c, w) /\ w.cwnd = c.cwnd
    BY <1>2 DEF Cb, Same, Unopened
  <2>2. Leads(c, w, P)
    BY <2>1, SameGood
  <2> QED BY <1>2, <2>1, <2>2 DEF Same, Still
<1>4. d = c \/ (c.err # "none" /\ d = b) \/ d = w \/ (c.err = "none" /\ d = Output(b, u))
  BY DEF RecvData
<1> HIDE DEF b, w, d
<1>5. CASE c.err = "none" /\ d = Output(b, u)
  <2>1. b.st # "LISTEN" /\ Good(b, P)
    BY <1>1, <1>5 DEF Still, Leads
  <2>2. /\ Leads(b, d, P)
        /\ d.st = b.st /\ d.err = b.err /\ d.una = b.una /\ d.up = b.up /\ d.r.nxt = b.r.nxt
    BY <1>5, <2>1, OutputKeeps
  <2>3. Leads(c, d, P)
    BY <1>1, <1>2, <2>2, LeadsTrans
  <2> QED BY <1>1, <2>2, <2>3 DEF Still, d
<1> QED BY <1>1, <1>3, <1>4, <1>5, LeadsSelf DEF d

\* on_writable: what was queued and fits is sent.
LEMMA OnWritableKeeps ==
  ASSUME NEW P \in Peers, NEW c, Good(c, P), c.st # "LISTEN", NEW u \in Inputs
  PROVE  LET d == OnWritable(c, u)
         IN  Leads(c, d, P) /\ Still(c, d)
<1> DEFINE b == ConsumePendingData(c)
           d == OnWritable(c, u)
<1>1. c \in Cb /\ c.max \in Nat
  BY CbNumbers DEF Good, Kept
<1>2. Good(b, P) /\ b = [c EXCEPT !.sb = b.sb, !.sbseq = b.sbseq, !.ops = b.ops]
  BY ConsumeKeeps
<1>3. d = b \/ d = Output(b, u)
  BY DEF OnWritable
<1> HIDE DEF b, d
<1>4. Still(c, b) /\ b.max = c.max /\ b.cwnd = c.cwnd
  BY ZenonT(60), <1>1, <1>2 DEF Cb, Still
<1>5. Leads(c, b, P)
  BY <1>1, <1>2, <1>4 DEF Leads, Still, Wide, Acked
<1>6. CASE d = Output(b, u)
  <2>1. b.st # "LISTEN"
    BY <1>4 DEF Still
  <2>2. /\ Leads(b, d, P)
        /\ d.st = b.st /\ d.err = b.err /\ d.una = b.una /\ d.up = b.up /\ d.r.nxt = b.r.nxt
    BY <1>2, <1>6, <2>1, OutputKeeps
  <2>3. Leads(c, d, P)
    BY <1>1, <1>5, <2>2, LeadsTrans
  <2> QED BY <1>4, <2>2, <2>3 DEF Still, d
<1> QED BY <1>3, <1>4, <1>5, <1>6 DEF d

\* on_disconnected and the end of drop: nothing stays queued in CLOSED.
LEMMA CancelKeeps ==
  ASSUME NEW P \in Peers, NEW c, Good(c, P), c.err # "none", NEW u \in Inputs
  PROVE  LET d == [Cancel(c, u) EXCEPT !.st = "CLOSED"]
         IN  Leads(c, d, P) /\ d.st = "CLOSED" /\ d.err = c.err /\ d.flags = c.flags
<1> DEFINE a == [c EXCEPT !.ops = << >>, !.op = 0, !.handler = FALSE]
           deaf == c.deaf \/ ~u.inp
           b == [a EXCEPT !.shut = FALSE, !.delay = FALSE, !.deaf = deaf]
           d == [Cancel(c, u) EXCEPT !.st = "CLOSED"]
<1>1. c \in Cb /\ c.max \in Nat
  BY CbNumbers DEF Good, Kept
<1>2. a \in Cb
  <2>1. << >> \in Seq(Nat) /\ 0 \in Nat
    OBVIOUS
  <2> QED BY <1>1, <2>1 DEF Cb
<1>3. deaf \in BOOLEAN
  BY <1>1 DEF Inputs, Cb
<1>4. d = [b EXCEPT !.st = "CLOSED"]
  <2>1. Cancel(c, u) = b
    BY <1>1 DEF Cancel, Cb
  <2> QED BY <2>1
<1> HIDE DEF deaf, d
<1>5. b \in Cb
  <2> HIDE DEF a
  <2> QED BY ZenonT(60), <1>2, <1>3 DEF Cb
<1>6. /\ b.err = c.err /\ b.flags = c.flags /\ b.up = c.up /\ b.r = c.r /\ b.una = c.una
      /\ b.nxt = c.nxt /\ b.fack = c.fack /\ b.max = c.max /\ b.sb = c.sb
      /\ b.sbseq = c.sbseq /\ b.retrans = c.retrans /\ b.ops = << >>
  BY <1>1 DEF Cb
<1>7. /\ b.out = c.out /\ b.bad = c.bad /\ b.rexmt = c.rexmt /\ b.persist = c.persist
      /\ b.cwnd = c.cwnd
  BY <1>1 DEF Cb
<1> HIDE DEF b
<1>8. "CLOSED" \in States
  BY DEF States, Opening
<1>9. d \in Cb
  BY ZenonT(60), <1>4, <1>5, <1>8 DEF Cb
<1>10. /\ d.st = "CLOSED" /\ d.err = b.err /\ d.flags = b.flags /\ d.up = b.up /\ d.r = b.r
       /\ d.una = b.una /\ d.nxt = b.nxt /\ d.fack = b.fack /\ d.max = b.max /\ d.sb = b.sb
       /\ d.sbseq = b.sbseq /\ d.retrans = b.retrans /\ d.ops = b.ops
  BY <1>4, <1>5 DEF Cb
<1>11. /\ d.out = b.out /\ d.bad = b.bad /\ d.rexmt = b.rexmt /\ d.persist = b.persist
       /\ d.cwnd = b.cwnd
  BY <1>4, <1>5 DEF Cb
<1>12. Phased(d)
  BY <1>6, <1>7, <1>10, <1>11 DEF Phased, Unopened, Handshaking, Finishing
<1>13. Opened(d, P) /\ Buffered(d) /\ Heard(d, P)
  <2>1. Opened(d, P)
    BY <1>6, <1>10 DEF Good, Kept, Opened, Opening
  <2>2. Buffered(d)
    BY <1>6, <1>10 DEF Good, Kept, Buffered
  <2>3. Heard(d, P)
    BY <1>6, <1>7, <1>10, <1>11 DEF Good, Kept, Heard, View
  <2> QED BY <2>1, <2>2, <2>3
<1>14. Good(d, P)
  BY <1>6, <1>7, <1>9, <1>10, <1>11, <1>12, <1>13 DEF Good, Kept
<1>15. (Acked(c) => Acked(d)) /\ (Wide(c) => Wide(d))
  BY <1>6, <1>7, <1>10, <1>11 DEF Acked, Wide, Opening
<1> QED BY <1>1, <1>6, <1>10, <1>14, <1>15 DEF Leads, d

\* An error, once there is one, is never withdrawn; a fresh end that has one
\* is no longer waiting to be opened.
WithErr(c, e) == [c EXCEPT !.err = e]
(* Setting error_code_ in an end that is open keeps the invariant. *)
LEMMA ErrKeeps ==
  ASSUME NEW P \in Peers, NEW c, Good(c, P), NEW e \in Errs, e # "none"
  PROVE  LET d == WithErr(c, e)
         IN  /\ Leads(c, d, P) /\ d.err = e /\ d.st = c.st /\ d.una = c.una /\ d.up = c.up
             /\ d.r = c.r /\ d.flags = c.flags /\ d.max = c.max
<1> DEFINE d == WithErr(c, e)
<1>1. c \in Cb /\ c.max \in Nat
  BY CbNumbers DEF Good, Kept
<1>2. d = [c EXCEPT !.err = e]
  BY DEF WithErr
<1> HIDE DEF d
<1>3. d \in Cb
  BY ZenonT(40), <1>1, <1>2 DEF Cb
<1>4. /\ d.err = e /\ d.st = c.st /\ d.flags = c.flags /\ d.up = c.up /\ d.r = c.r
      /\ d.una = c.una /\ d.nxt = c.nxt /\ d.fack = c.fack /\ d.max = c.max /\ d.sb = c.sb
      /\ d.sbseq = c.sbseq /\ d.retrans = c.retrans /\ d.ops = c.ops
  BY <1>1, <1>2 DEF Cb
<1>5. /\ d.out = c.out /\ d.bad = c.bad /\ d.rexmt = c.rexmt /\ d.persist = c.persist
      /\ d.cwnd = c.cwnd
  BY <1>1, <1>2 DEF Cb
<1>6. Phased(d)
  BY <1>4, <1>5 DEF Good, Kept, Phased, Unopened, Fresh
<1>7. Opened(d, P) /\ Buffered(d) /\ Heard(d, P)
  BY <1>4, <1>5 DEF Good, Kept, Opened, Buffered, Heard, View
<1>8. Good(d, P)
  BY <1>3, <1>4, <1>5, <1>6, <1>7 DEF Good, Kept
<1> QED BY <1>1, <1>4, <1>5, <1>8 DEF Leads, Acked, Wide, d

\* Flags of m_flags: a drop is asked for only with an error, and a fresh end is
\* asked for nothing but a drop and a reset.
LEMMA FlagsKeep ==
  ASSUME NEW P \in Peers, NEW c, Good(c, P), NEW fl \in SUBSET CbFlags,
         "SENTFIN" \in fl <=> "SENTFIN" \in c.flags,
         "NOTIFY_DROP" \in fl => "NOTIFY_DROP" \in c.flags \/ c.err # "none",
         ~Unopened(c) \/ fl \subseteq c.flags \cup {"NOTIFY_DROP", "NEED_RESET"},
         NEW d, d = [c EXCEPT !.flags = fl]
  PROVE  /\ Leads(c, d, P) /\ Still(c, d) /\ d.flags = fl /\ d.r = c.r /\ d.max = c.max
         /\ d.nxt = c.nxt /\ d.sb = c.sb /\ d.rexmt = c.rexmt /\ d.wnd = c.wnd /\ d.cwnd = c.cwnd
<1>1. c \in Cb /\ c.max \in Nat
  BY CbNumbers DEF Good, Kept
<1>3. d \in Cb
  BY ZenonT(40), <1>1 DEF Cb
<1>4. /\ d.err = c.err /\ d.st = c.st /\ d.flags = fl /\ d.up = c.up /\ d.r = c.r
      /\ d.una = c.una /\ d.nxt = c.nxt /\ d.fack = c.fack /\ d.max = c.max /\ d.sb = c.sb
      /\ d.sbseq = c.sbseq /\ d.retrans = c.retrans /\ d.ops = c.ops
  BY <1>1 DEF Cb
<1>5. /\ d.out = c.out /\ d.bad = c.bad /\ d.rexmt = c.rexmt /\ d.persist = c.persist
      /\ d.cwnd = c.cwnd /\ d.wnd = c.wnd
  BY <1>1 DEF Cb
<1> USE <1>3
<1>6. Phased(d)
  <2>1. Unopened(d) => Fresh(d)
    BY <1>4, <1>5 DEF Good, Kept, Phased, Unopened, Fresh
  <2> QED BY <1>4, <1>5, <2>1 DEF Good, Kept, Phased
<1>7. Opened(d, P) /\ Buffered(d) /\ Heard(d, P)
  BY <1>4, <1>5 DEF Good, Kept, Opened, Buffered, Heard, View
<1>8. Good(d, P)
  BY <1>3, <1>4, <1>5, <1>6, <1>7 DEF Good, Kept
<1> QED BY <1>1, <1>4, <1>5, <1>8 DEF Leads, Acked, Wide, Still

(* Setting a flag of m_flags that the invariant does not read. *)
LEMMA OnLeads ==
  ASSUME NEW P \in Peers, NEW c, Good(c, P), NEW fs \in SUBSET (CbFlags \ {"SENTFIN"}),
         "NOTIFY_DROP" \in fs => c.err # "none",
         ~Unopened(c) \/ fs \subseteq {"NOTIFY_DROP", "NEED_RESET"}
  PROVE  LET d == On(c, fs)
         IN  /\ Leads(c, d, P) /\ Still(c, d) /\ d.flags = c.flags \cup fs /\ d.r = c.r
             /\ d.max = c.max /\ d.nxt = c.nxt /\ d.sb = c.sb /\ d.rexmt = c.rexmt
             /\ d.wnd = c.wnd /\ d.cwnd = c.cwnd
<1> DEFINE fl == c.flags \cup fs
           d == On(c, fs)
<1>1. c.flags \in SUBSET CbFlags
  BY CbNumbers DEF Good, Kept
<1>2. /\ fl \in SUBSET CbFlags /\ ("SENTFIN" \in fl <=> "SENTFIN" \in c.flags)
      /\ "NOTIFY_DROP" \in fl => "NOTIFY_DROP" \in c.flags \/ c.err # "none"
      /\ ~Unopened(c) \/ fl \subseteq c.flags \cup {"NOTIFY_DROP", "NEED_RESET"}
  BY <1>1
<1>3. d = [c EXCEPT !.flags = fl]
  BY DEF On
<1> HIDE DEF fl, d
<1>4. /\ Leads(c, d, P) /\ Still(c, d) /\ d.flags = fl /\ d.r = c.r /\ d.max = c.max
      /\ d.nxt = c.nxt /\ d.sb = c.sb /\ d.rexmt = c.rexmt /\ d.wnd = c.wnd /\ d.cwnd = c.cwnd
  BY <1>2, <1>3, FlagsKeep
<1> QED BY <1>4 DEF fl, d

(* Clearing a flag of m_flags. *)
LEMMA OffLeads ==
  ASSUME NEW P \in Peers, NEW c, Good(c, P), NEW fs \in SUBSET (CbFlags \ {"SENTFIN"})
  PROVE  LET d == Off(c, fs)
         IN  Leads(c, d, P) /\ Still(c, d) /\ d.flags = c.flags \ fs
<1> DEFINE fl == c.flags \ fs
           d == Off(c, fs)
<1>1. c.flags \in SUBSET CbFlags
  BY CbNumbers DEF Good, Kept
<1>2. /\ fl \in SUBSET CbFlags /\ ("SENTFIN" \in fl <=> "SENTFIN" \in c.flags)
      /\ "NOTIFY_DROP" \in fl => "NOTIFY_DROP" \in c.flags \/ c.err # "none"
      /\ ~Unopened(c) \/ fl \subseteq c.flags \cup {"NOTIFY_DROP", "NEED_RESET"}
  BY <1>1
<1>3. d = [c EXCEPT !.flags = fl]
  BY DEF Off
<1> HIDE DEF fl, d
<1>4. Leads(c, d, P) /\ Still(c, d) /\ d.flags = fl
  BY <1>2, <1>3, FlagsKeep
<1> QED BY <1>4 DEF fl, d

\* drop: the end is in CLOSED, with an error.
LEMMA DropKeeps ==
  ASSUME NEW P \in Peers, NEW c, Good(c, P), NEW e \in Errs, e # "none" \/ c.err # "none",
         NEW u \in Inputs
  PROVE  LET d == Drop(c, e, u)
         IN  Leads(c, d, P) /\ d.st = "CLOSED" /\ d.err # "none"
<1> DEFINE x == IF e = "none" THEN c.err ELSE e
           a == WithErr(c, x)
           b == RecvData(a, u)
           d == Drop(c, e, u)
<1>1. c \in Cb /\ x \in Errs /\ x # "none"
  BY CbNumbers DEF Good, Kept
<1>2. d = [Cancel(b, u) EXCEPT !.st = "CLOSED"]
  BY DEF Drop, WithErr
<1>3. Leads(c, a, P) /\ a.err = x
  <2> HIDE DEF x, a
  <2>1. a = WithErr(c, x)
    BY DEF a
  <2> QED BY <1>1, <2>1, ErrKeeps
<1> HIDE DEF x, a
<1>4. Leads(a, b, P) /\ Still(a, b)
  BY <1>1, <1>3, RecvDataKeeps DEF Leads
<1> HIDE DEF b, d
<1>5. Good(b, P) /\ b.err # "none"
  BY <1>1, <1>3, <1>4 DEF Leads, Still
<1>6. Leads(b, d, P) /\ d.st = "CLOSED" /\ d.err = b.err
  BY <1>2, <1>5, CancelKeeps
<1>7. Leads(c, b, P)
  BY <1>1, <1>3, <1>4, LeadsTrans
<1>8. Leads(c, d, P)
  BY <1>1, <1>6, <1>7, LeadsTrans
<1> QED BY <1>5, <1>6, <1>8 DEF d

\* commit_notifies: in LISTEN, and in CLOSED before an error, nothing but a drop
\* and a reset is asked for.
LEMMA CommitNotifiesKeeps ==
  ASSUME NEW P \in Peers, NEW c, Good(c, P), NEW u \in Inputs
  PROVE  Leads(c, CommitNotifies(c, u), P)
<1> DEFINE c1 == CommitOutput(c, u)
           c2 == CommitReset(c1)
           c3 == CommitRead(c2, u)
           c4 == CommitWrite(c3, u)
           c5 == CommitDrop(c4, u)
<1>1. \A b : Good(b, P) => (b.st = "LISTEN" => b.flags \subseteq {"NOTIFY_DROP", "NEED_RESET"})
  BY DEF Good, Kept, Phased, Fresh, Unopened
<1>2. \A b : Good(b, P) => b \in Cb
  BY DEF Good, Kept
<1>3. Leads(c, c1, P)
  <2>1. CASE c.flags \cap {"ACKNOW", "NEED_OUTPUT"} # {}
    <3>1. c1 = Output(c, u) /\ c.st # "LISTEN"
      BY <1>1, <2>1 DEF CommitOutput
    <3> HIDE DEF c1
    <3> QED BY <3>1, OutputKeeps
  <2>2. CASE ~(c.flags \cap {"ACKNOW", "NEED_OUTPUT"} # {})
    <3>1. c1 = c
      BY <2>2 DEF CommitOutput
    <3> QED BY <3>1, LeadsSelf
  <2> QED BY <2>1, <2>2
<1> HIDE DEF c1
<1>4. Leads(c1, c2, P)
  <2> DEFINE b == Respond(c1, c1.nxt, {"RST"})
  <2>1. Good(c1, P) /\ c1.nxt \in Int
    BY <1>3, CbNumbers DEF Leads, Good, Kept
  <2>2. CASE "NEED_RESET" \in c1.flags
    <3>1. c2 = Off(b, {"NEED_RESET"})
      BY <2>2 DEF CommitReset
    <3>2. Leads(c1, b, P)
      BY <2>1, RespondKeeps
    <3> HIDE DEF b, c2
    <3>3. {"NEED_RESET"} \in SUBSET (CbFlags \ {"SENTFIN"})
      BY DEF CbFlags
    <3>4. Leads(b, c2, P)
      BY <3>1, <3>2, <3>3, OffLeads DEF Leads
    <3> QED BY <1>2, <2>1, <3>2, <3>4, LeadsTrans
  <2>3. CASE "NEED_RESET" \notin c1.flags
    <3>1. c2 = c1
      BY <2>3 DEF CommitReset
    <3> QED BY <2>1, <3>1, LeadsSelf
  <2> QED BY <2>2, <2>3
<1> HIDE DEF c2
<1>5. Leads(c2, c3, P)
  <2> DEFINE b == IF c2.r.q # << >> \/ HaveRcvdFin(c2) THEN RecvData(c2, u) ELSE c2
  <2>1. Good(c2, P)
    BY <1>4 DEF Leads
  <2>2. CASE "NOTIFY_READ" \in c2.flags
    <3>1. c3 = Off(b, {"NOTIFY_READ"})
      BY <2>2 DEF CommitRead
    <3>2. c2.st # "LISTEN"
      BY <1>1, <2>1, <2>2
    <3>3. Leads(c2, b, P)
      BY <2>1, <3>2, RecvDataKeeps, LeadsSelf
    <3> HIDE DEF b, c3
    <3>4. {"NOTIFY_READ"} \in SUBSET (CbFlags \ {"SENTFIN"})
      BY DEF CbFlags
    <3>5. Leads(b, c3, P)
      BY <3>1, <3>3, <3>4, OffLeads DEF Leads
    <3> QED BY <1>2, <2>1, <3>3, <3>5, LeadsTrans
  <2>3. CASE "NOTIFY_READ" \notin c2.flags
    <3>1. c3 = c2
      BY <2>3 DEF CommitRead
    <3> QED BY <2>1, <3>1, LeadsSelf
  <2> QED BY <2>2, <2>3
<1> HIDE DEF c3
<1>6. Leads(c3, c4, P)
  <2> DEFINE b == OnWritable(c3, u)
  <2>1. Good(c3, P)
    BY <1>5 DEF Leads
  <2>2. CASE "NOTIFY_WRITE" \in c3.flags
    <3>1. c4 = Off(b, {"NOTIFY_WRITE"})
      BY <2>2 DEF CommitWrite
    <3>2. c3.st # "LISTEN"
      BY <1>1, <2>1, <2>2
    <3>3. Leads(c3, b, P)
      BY <2>1, <3>2, OnWritableKeeps
    <3> HIDE DEF b, c4
    <3>4. {"NOTIFY_WRITE"} \in SUBSET (CbFlags \ {"SENTFIN"})
      BY DEF CbFlags
    <3>5. Leads(b, c4, P)
      BY <3>1, <3>3, <3>4, OffLeads DEF Leads
    <3> QED BY <1>2, <2>1, <3>3, <3>5, LeadsTrans
  <2>3. CASE "NOTIFY_WRITE" \notin c3.flags
    <3>1. c4 = c3
      BY <2>3 DEF CommitWrite
    <3> QED BY <2>1, <3>1, LeadsSelf
  <2> QED BY <2>2, <2>3
<1> HIDE DEF c4
<1>7. Leads(c4, c5, P)
  <2> DEFINE b == Drop(c4, c4.err, u)
  <2>1. Good(c4, P) /\ c4.err \in Errs
    BY <1>6, CbNumbers DEF Leads, Good, Kept
  <2>2. CASE "NOTIFY_DROP" \in c4.flags
    <3>1. c5 = Off(b, {"NOTIFY_DROP"})
      BY <2>2 DEF CommitDrop
    <3>2. c4.err # "none"
      BY <2>1, <2>2 DEF Good, Kept, Phased
    <3>3. Leads(c4, b, P)
      BY <2>1, <3>2, DropKeeps
    <3> HIDE DEF b, c5
    <3>4. {"NOTIFY_DROP"} \in SUBSET (CbFlags \ {"SENTFIN"})
      BY DEF CbFlags
    <3>5. Leads(b, c5, P)
      BY <3>1, <3>3, <3>4, OffLeads DEF Leads
    <3> QED BY <1>2, <2>1, <3>3, <3>5, LeadsTrans
  <2>3. CASE "NOTIFY_DROP" \notin c4.flags
    <3>1. c5 = c4
      BY <2>3 DEF CommitDrop
    <3> QED BY <2>1, <3>1, LeadsSelf
  <2> QED BY <2>2, <2>3
<1>8. c \in Cb /\ c1 \in Cb /\ c2 \in Cb /\ c3 \in Cb /\ c4 \in Cb
  BY <1>2, <1>3, <1>4, <1>5, <1>6 DEF Leads
<1>9. CommitNotifies(c, u) = c5
  BY DEF CommitNotifies, c1, c2, c3, c4
<1> HIDE DEF c5
<1>10. Leads(c, c2, P)
  BY <1>3, <1>4, <1>8, LeadsTrans
<1>11. Leads(c, c3, P)
  BY <1>5, <1>8, <1>10, LeadsTrans
<1>12. Leads(c, c4, P)
  BY <1>6, <1>8, <1>11, LeadsTrans
<1> QED BY <1>7, <1>8, <1>9, <1>12, LeadsTrans

----------------------------------------------------------------------------
(* The receive half. *)

\* What is kept of a receive half while packets that end by B arrive.
Receives(r, B) ==
  r \in Half /\ Len(r.q) <= RcvHiWat /\ \A p \in r.reasm : p.seq + p.len <= B

\* udt_buf::append.
LEMMA AppendPktHalf ==
  ASSUME NEW B \in Nat, NEW r, Receives(r, B), NEW p \in Packet
  PROVE  LET d == AppendPkt(r, p)
         IN  Receives(d, B) /\ d.nxt >= r.nxt
<1> DEFINE d == AppendPkt(r, p)
<1>1. /\ r \in Half /\ r.nxt \in Nat /\ r.q \in Seq(Nat) /\ Len(r.q) \in Nat
      /\ Len(r.q) <= RcvHiWat /\ p.seq \in Nat /\ p.len \in Nat /\ p.fin \in BOOLEAN
  BY LenProperties DEF Receives, Half, Packet
<1>2. CASE p.len > Acc(r)
  <2>1. d = [r EXCEPT !.ok = FALSE]
    BY <1>2 DEF AppendPkt
  <2> HIDE DEF d
  <2>2. d \in Half /\ d.q = r.q /\ d.reasm = r.reasm /\ d.nxt = r.nxt
    BY <1>1, <2>1 DEF Half
  <2> QED BY <1>1, <2>2 DEF Receives, d
<1>3. CASE ~(p.len > Acc(r))
  <2> DEFINE q2 == r.q \o Bytes(p.seq, p.len)
             n2 == r.nxt + p.len
             f2 == FinMark(p)
  <2>1. d = [r EXCEPT !.q = q2, !.nxt = n2, !.fin = f2]
    BY <1>3 DEF AppendPkt
  <2>2. Bytes(p.seq, p.len) \in Seq(Nat) /\ Len(Bytes(p.seq, p.len)) = p.len
    BY <1>1, BytesType
  <2>3. q2 \in Seq(Nat) /\ Len(q2) = Len(r.q) + p.len
    <3> DEFINE t == Bytes(p.seq, p.len)
    <3>1. t \in Seq(Nat) /\ Len(t) = p.len
      BY <2>2
    <3> HIDE DEF t
    <3>2. r.q \o t \in Seq(Nat) /\ Len(r.q \o t) = Len(r.q) + Len(t)
      BY <1>1, <3>1, ConcatProperties
    <3> QED BY <3>1, <3>2 DEF t
  <2>4. n2 \in Nat /\ n2 >= r.nxt /\ f2 \in {"none", "bare", "data"}
    BY <1>1 DEF FinMark
  <2>5. Len(q2) <= RcvHiWat
    BY <1>1, <1>3, <2>3, RcvBufAssumption DEF Acc
  <2> HIDE DEF d, q2, n2, f2
  <2>6. d \in Half
    BY <1>1, <2>1, <2>3, <2>4 DEF Half
  <2>7. d.q = q2 /\ d.reasm = r.reasm /\ d.nxt = n2
    BY <1>1, <2>1 DEF Half
  <2> QED BY <2>4, <2>5, <2>6, <2>7 DEF Receives, d
<1> QED BY <1>2, <1>3

\* tcp_reass and merge_reasm_pkts.
LEMMA InsertReasmHalf ==
  ASSUME NEW B \in Nat, NEW r, Receives(r, B), NEW p \in Packet, p.seq + p.len <= B
  PROVE  LET d == InsertReasm(r, p)
         IN  Receives(d, B) /\ d.nxt >= r.nxt
<1> DEFINE R == r.reasm \cup {p}
           e == Frontier(R, r.nxt)
           M == Merged(R, e)
           d == InsertReasm(r, p)
<1>1. /\ r \in Half /\ r.nxt \in Nat /\ r.q \in Seq(Nat) /\ Len(r.q) \in Nat
      /\ Len(r.q) <= RcvHiWat /\ R \in SUBSET Packet /\ \A o \in R : o.seq + o.len <= B
  BY LenProperties DEF Receives, Half
<1> HIDE DEF R
<1>2. e \in Nat /\ e >= r.nxt
  BY <1>1, FrontierFacts
<1>3. d = r \/ d = MergeReasmPkts(r, R)
  BY DEF InsertReasm, R
<1> HIDE DEF d
<1>4. CASE d = r
  <2>1. Receives(d, B) /\ d.nxt >= r.nxt
    BY <1>1, <1>4
  <2> QED BY <2>1 DEF d
<1>5. CASE d = MergeReasmPkts(r, R) /\ M = {}
  <2>1. d = [r EXCEPT !.reasm = R]
    BY <1>5 DEF MergeReasmPkts
  <2>2. d \in Half /\ d.q = r.q /\ d.reasm = R /\ d.nxt = r.nxt
    BY <1>1, <2>1 DEF Half
  <2>3. Receives(d, B) /\ d.nxt >= r.nxt
    BY <1>1, <2>2 DEF Receives
  <2> QED BY <2>3 DEF d
<1>6. CASE d = MergeReasmPkts(r, R) /\ M # {} /\ e - r.nxt > Acc(r)
  <2>1. d = [r EXCEPT !.ok = FALSE]
    BY <1>6 DEF MergeReasmPkts
  <2>2. d \in Half /\ d.q = r.q /\ d.reasm = r.reasm /\ d.nxt = r.nxt
    BY <1>1, <2>1 DEF Half
  <2>3. Receives(d, B) /\ d.nxt >= r.nxt
    BY <1>1, <2>2 DEF Receives
  <2> QED BY <2>3 DEF d
<1>7. CASE d = MergeReasmPkts(r, R) /\ M # {} /\ ~(e - r.nxt > Acc(r))
  <2> DEFINE q2 == r.q \o Bytes(r.nxt, e - r.nxt)
             f2 == FinMark(LastOf(M))
             R2 == R \ M
  <2>1. d = [r EXCEPT !.q = q2, !.nxt = e, !.fin = f2, !.reasm = R2]
    BY <1>7 DEF MergeReasmPkts
  <2>2. e - r.nxt \in Nat
    BY <1>1, <1>2
  <2>3. Bytes(r.nxt, e - r.nxt) \in Seq(Nat) /\ Len(Bytes(r.nxt, e - r.nxt)) = e - r.nxt
    BY <1>1, <2>2, BytesType
  <2>4. q2 \in Seq(Nat) /\ Len(q2) = Len(r.q) + (e - r.nxt)
    BY ZenonT(60), <1>1, <2>3, ConcatProperties
  <2>5. Len(q2) <= RcvHiWat
    <3> HIDE DEF e, q2
    <3>1. ~(e - r.nxt > RcvHiWat - Len(r.q))
      BY <1>7 DEF Acc
    <3> QED BY SMTT(60), <1>1, <1>2, <2>4, <3>1, RcvBufAssumption
  <2>6. f2 \in {"none", "bare", "data"}
    BY DEF FinMark
  <2>7. R2 \in SUBSET Packet /\ \A o \in R2 : o.seq + o.len <= B
    BY <1>1
  <2> HIDE DEF q2, f2, R2, e
  <2>8. d \in Half
    <3> DEFINE a == [r EXCEPT !.q = q2, !.nxt = e]
    <3>1. a \in Half
      BY <1>1, <1>2, <2>4 DEF Half
    <3>2. d = [a EXCEPT !.fin = f2, !.reasm = R2]
      BY <2>1
    <3> HIDE DEF a
    <3> QED BY <3>1, <3>2, <2>6, <2>7 DEF Half
  <2>9. d.q = q2 /\ d.reasm = R2 /\ d.nxt = e
    BY <1>1, <2>1 DEF Half
  <2>10. Receives(d, B) /\ d.nxt >= r.nxt
    BY <1>2, <2>5, <2>7, <2>8, <2>9 DEF Receives
  <2> QED BY <2>10 DEF d
<1> QED BY <1>3, <1>4, <1>5, <1>6, <1>7

\* The receive half of an end that keeps the invariant.
LEMMA HalfReceives ==
  ASSUME NEW P \in Peers, NEW c, Good(c, P)
  PROVE  Receives(c.r, P.max) /\ P.max \in Nat /\ c.r.nxt \in Nat /\ c.op \in Nat
BY DEF Receives, Good, Kept, Heard, Cb, Half, Peers

\* A new receive half of an end that has counted the SYN of its peer.
LEMMA HalfKeeps ==
  ASSUME NEW P \in Peers, NEW c, Good(c, P), c.r.nxt >= 1, NEW r, Receives(r, P.max),
         r.nxt >= c.r.nxt
  PROVE  LET d == [c EXCEPT !.r = r]
         IN  /\ Leads(c, d, P) /\ d.r = r /\ d.flags = c.flags /\ d.st = c.st /\ d.err = c.err
             /\ d.una = c.una /\ d.up = c.up /\ d.max = c.max /\ d.sb = c.sb
<1> DEFINE d == [c EXCEPT !.r = r]
<1>1. c \in Cb /\ c.op \in Nat
  BY DEF Good, Kept, Cb
<1>2. d = TakeHalf(c, r, c.op)
  BY <1>1 DEF TakeHalf, Cb
<1>3. r \in Half /\ Len(r.q) <= RcvHiWat /\ \A p \in r.reasm : p.seq + p.len <= P.max
  BY DEF Receives
<1> HIDE DEF d
<1>4. /\ Leads(c, d, P) /\ d.r = r /\ d.flags = c.flags /\ d.st = c.st /\ d.err = c.err
      /\ d.una = c.una /\ d.up = c.up /\ d.max = c.max /\ d.sb = c.sb
  BY <1>1, <1>2, <1>3, ReceiveKeeps
<1> QED BY <1>4 DEF d

----------------------------------------------------------------------------
(* input(). *)

\* handle_syn: before this end is established the SYN of the peer, which takes
\* the number 0, is counted.
LEMMA SynCounted ==
  ASSUME NEW P \in Peers, P.max >= 1, NEW c, Good(c, P),
         c.st \in {"LISTEN", "SYN_SENT", "SYN_RECEIVED"}, NEW d \in Cb,
         d.st = "SYN_RECEIVED", d.r.nxt = 1, d.r.reasm = c.r.reasm, d.r.q = c.r.q,
         d.flags = c.flags \cup {"ACKNOW"}, d.err = c.err, d.up = c.up, d.una = c.una,
         d.nxt = c.nxt, d.fack = c.fack, d.max = c.max, d.sb = c.sb, d.sbseq = c.sbseq,
         d.retrans = c.retrans, d.ops = c.ops, d.out = c.out, d.bad = c.bad,
         d.rexmt = c.rexmt, d.persist = c.persist, d.cwnd = c.cwnd
  PROVE  Leads(c, d, P)
<1>1. c \in Cb /\ c.max \in Nat
  BY CbNumbers DEF Good, Kept
<1>2. c.max <= 1 /\ c.sb = {} /\ c.ops = << >> /\ ~c.persist /\ ~c.up
  BY <1>1 DEF Good, Kept, Phased, Unopened, Fresh, Handshaking
<1>3. Phased(d)
  <2>1. ~Unopened(d) /\ d.st \notin {"CLOSE_WAIT", "CLOSING", "LAST_ACK", "TIME_WAIT"}
    BY DEF Unopened
  <2>2. "SENTFIN" \notin c.flags
    BY DEF Good, Kept, Phased, Finishing
  <2> QED BY <1>2, <2>1, <2>2 DEF Good, Kept, Phased
<1>4. Opened(d, P) /\ Buffered(d)
  BY <1>2 DEF Good, Kept, Opened, Buffered, Opening
<1>5. Heard(d, P)
  BY <1>1, HeardGrows DEF Good, Kept
<1>6. Good(d, P)
  BY <1>3, <1>4, <1>5 DEF Good, Kept
<1> QED BY <1>1, <1>2, <1>6 DEF Leads, Wide, Acked, Opening

\* What two steps leave alone.
LEMMA SameTwice ==
  ASSUME NEW b, NEW c, NEW d, Same(b, c), Same(c, d), ~Unopened(b)
  PROVE  Same(b, d)
BY DEF Same, Unopened

\* The handshake: the SYN of the peer is counted, nothing else is touched.
SynTaken(c, d) ==
  /\ d.st = "SYN_RECEIVED" /\ d.flags = c.flags \cup {"ACKNOW"} /\ d.err = c.err /\ d.up = c.up
  /\ d.nxt = c.nxt /\ d.max = c.max /\ d.sb = c.sb /\ d.sbseq = c.sbseq /\ d.ops = c.ops
  /\ d.out = c.out /\ d.told = c.told
  /\ d.r.nxt = 1 /\ d.r.reasm = c.r.reasm /\ d.r.q = c.r.q
  /\ d.r.got = c.r.got /\ d.r.fin = c.r.fin

(* handle_syn: LISTEN and SYN_SENT count the SYN of the peer, and the handler of the *)
(* caller runs when the handshake is done.                                           *)
LEMMA HandleSynKeeps ==
  ASSUME NEW P \in Peers, NEW c, Good(c, P), c.st # "CLOSED", NEW p \in Datagram,
         Sound(p, P, View(c)), "SYN" \in p.flags, "RST" \notin p.flags
  PROVE  LET d == HandleSyn(c, p)
         IN  /\ Leads(c, d, P) /\ d \in Cb
             /\ c.st \in {"LISTEN", "SYN_SENT", "SYN_RECEIVED"} => SynTaken(c, d)
             /\ c.st \notin {"LISTEN", "SYN_SENT", "SYN_RECEIVED"} => Same(c, d)
             /\ SynExpected(c) => d.r.nxt >= 1 /\ d.st \in {"SYN_RECEIVED", "ESTABLISHED"}
<1> DEFINE a == [c EXCEPT !.wnd = p.win]
           b == On(a, {"ACKNOW"})
           r == [b.r EXCEPT !.nxt = 1, !.adv = 1]
           d == HandleSyn(c, p)
<1>1. /\ c \in Cb /\ c.max \in Nat /\ p.win \in Nat /\ p.len \in Nat /\ p.seq = 0
      /\ P.max \in Nat /\ P.max >= 1
  BY CbNumbers DEF Good, Kept, Datagram, Sound, Peers
<1>2. a \in Cb /\ Same(c, a) /\ a.r = c.r /\ a.cwnd = c.cwnd /\ a.flags = c.flags
  BY ZenonT(60), <1>1 DEF Cb, Same
<1> HIDE DEF a
<1>3. {"ACKNOW"} \in SUBSET (CbFlags \ {"SENTFIN", "NOTIFY_DROP"})
  BY DEF CbFlags
<1>4. b \in Cb /\ b = [a EXCEPT !.flags = @ \cup {"ACKNOW"}] /\ (~Unopened(a) => Same(a, b))
  BY <1>2, <1>3, OnKeeps
<1> HIDE DEF b
<1>5. /\ b.r = c.r /\ b.flags = c.flags \cup {"ACKNOW"} /\ b.err = c.err /\ b.up = c.up
      /\ b.una = c.una /\ b.nxt = c.nxt /\ b.fack = c.fack /\ b.max = c.max /\ b.sb = c.sb
      /\ b.sbseq = c.sbseq /\ b.st = c.st
  BY <1>2, <1>4 DEF Cb, Same
<1>6. /\ b.retrans = c.retrans /\ b.ops = c.ops /\ b.out = c.out /\ b.bad = c.bad
      /\ b.rexmt = c.rexmt /\ b.persist = c.persist /\ b.cwnd = c.cwnd /\ b.told = c.told
  <2>1. a.bad = c.bad
    BY <1>1 DEF Cb, a
  <2> QED BY <1>2, <1>4, <2>1 DEF Cb, Same
<1>7. /\ r \in Half /\ r.nxt = 1 /\ r.reasm = c.r.reasm /\ r.q = c.r.q
      /\ r.got = c.r.got /\ r.fin = c.r.fin
  <2>1. c.r \in Half /\ r = [c.r EXCEPT !.nxt = 1, !.adv = 1]
    BY <1>1, <1>5 DEF Cb
  <2> DEFINE h == c.r
  <2>2. h \in Half /\ r = [h EXCEPT !.nxt = 1, !.adv = 1]
    BY <2>1
  <2> HIDE DEF r, h
  <2>3. r \in Half
    <3> DEFINE g == [h EXCEPT !.nxt = 1]
    <3>1. g \in Half
      BY <2>2 DEF Half
    <3>2. r = [g EXCEPT !.adv = 1]
      BY <2>2 DEF Half
    <3> HIDE DEF g
    <3> QED BY <3>1, <3>2 DEF Half
  <2>4. r.nxt = 1 /\ r.reasm = h.reasm /\ r.q = h.q /\ r.got = h.got /\ r.fin = h.fin
    BY <2>2 DEF Half
  <2> QED BY <2>3, <2>4 DEF h
<1>8. "SYN_RECEIVED" \in States
  BY DEF States, Opening
<1>9. CASE c.st \in {"LISTEN", "SYN_SENT", "SYN_RECEIVED"}
  <2>1. d = [b EXCEPT !.st = "SYN_RECEIVED", !.keep = TRUE, !.r = r]
    <3>1. CASE c.st = "LISTEN"
      <4> DEFINE e == [b EXCEPT !.st = "SYN_RECEIVED", !.r.nxt = 1, !.r.adv = 1, !.keep = TRUE]
      <4>1. b.una = 0 /\ b.nxt = 0 /\ b.max = 0 /\ b.fack = 0
        BY <1>5, <3>1 DEF Good, Kept, Phased, Unopened, Fresh
      <4>2. d = [b EXCEPT !.una = 0, !.nxt = 0, !.max = 0, !.fack = 0, !.st = "SYN_RECEIVED",
                          !.r.nxt = 1, !.r.adv = 1, !.keep = TRUE]
        BY <1>1, <3>1 DEF HandleSyn, b, a
      <4>3. b = [b EXCEPT !.una = 0, !.nxt = 0, !.max = 0, !.fack = 0]
        BY ZenonT(40), <1>4, <4>1 DEF Cb
      <4> HIDE DEF d
      <4>4. d = e
        BY <4>2, <4>3
      <4>5. e = [b EXCEPT !.st = "SYN_RECEIVED", !.keep = TRUE, !.r = r]
        BY <1>4 DEF Cb
      <4> QED BY <4>4, <4>5
    <3>2. CASE c.st \in {"SYN_SENT", "SYN_RECEIVED"}
      <4>1. p.seq + 1 = 1 /\ c.st # "LISTEN"
        BY <1>1, <3>2
      <4>2. d = [b EXCEPT !.st = "SYN_RECEIVED", !.keep = TRUE,
                          !.r.nxt = p.seq + 1, !.r.adv = p.seq + 1]
        BY <3>2, <4>1 DEF HandleSyn, b, a
      <4> HIDE DEF d
      <4> QED BY <1>4, <4>1, <4>2 DEF Cb
    <3> QED BY <1>9, <3>1, <3>2
  <2> HIDE DEF d, r
  <2>2. d \in Cb
    BY ZenonT(60), <1>4, <1>7, <1>8, <2>1 DEF Cb
  <2>3. /\ d.st = "SYN_RECEIVED" /\ d.r = r /\ d.flags = b.flags /\ d.err = b.err
        /\ d.up = b.up /\ d.una = b.una /\ d.nxt = b.nxt /\ d.fack = b.fack /\ d.max = b.max
        /\ d.sb = b.sb /\ d.sbseq = b.sbseq
    BY <1>4, <2>1 DEF Cb
  <2>4. /\ d.retrans = b.retrans /\ d.ops = b.ops /\ d.out = b.out /\ d.bad = b.bad
        /\ d.rexmt = b.rexmt /\ d.persist = b.persist /\ d.cwnd = b.cwnd /\ d.told = b.told
    BY <1>4, <2>1 DEF Cb
  <2>5. Leads(c, d, P)
    BY <1>1, <1>5, <1>6, <1>7, <1>9, <2>2, <2>3, <2>4, SynCounted
  <2>6. SynTaken(c, d)
    BY <1>5, <1>6, <1>7, <2>3, <2>4 DEF SynTaken
  <2> QED BY <1>7, <1>9, <2>2, <2>3, <2>5, <2>6 DEF d
<1>10. CASE c.st \notin {"LISTEN", "SYN_SENT", "SYN_RECEIVED"}
  <2>1. Same(a, b) /\ Good(a, P) /\ ~Unopened(a)
    BY <1>1, <1>2, <1>4, <1>10, SameGood DEF Unopened, Same
  <2>2. Good(b, P) /\ Leads(c, b, P) /\ Same(c, b)
    <3>1. Same(c, b)
      <4>1. ~Unopened(c)
        BY <1>10 DEF Unopened
      <4> QED BY <1>5, <1>6, <4>1 DEF Same
    <3> QED BY <1>4, <1>6, <3>1, SameGood
  <2>3. CASE c.st = "ESTABLISHED"
    <3>1. d = [b EXCEPT !.keep = TRUE]
      BY <1>1, <2>3 DEF HandleSyn, b, a
    <3> HIDE DEF d
    <3>2. d \in Cb /\ Same(b, d) /\ d.cwnd = b.cwnd
      <4>0. b \in Cb
        BY <1>4
      <4>1. /\ d \in Cb /\ d.flags = b.flags /\ d.cwnd = b.cwnd /\ d.r = b.r /\ d.bad = b.bad
            /\ d.rexmt = b.rexmt /\ d.persist = b.persist /\ d.out = b.out /\ d.ops = b.ops
        BY ZenonT(60), <3>1, <4>0 DEF Cb
      <4>2. /\ d.st = b.st /\ d.err = b.err /\ d.una = b.una /\ d.nxt = b.nxt /\ d.max = b.max
            /\ d.fack = b.fack /\ d.retrans = b.retrans /\ d.sb = b.sb /\ d.sbseq = b.sbseq
            /\ d.up = b.up /\ d.told = b.told
        BY <1>4, <3>1 DEF Cb
      <4> QED BY <4>1, <4>2 DEF Same
    <3>3. Leads(b, d, P)
      BY <2>2, <3>2, SameGood
    <3>4. Leads(c, d, P)
      BY <1>1, <2>2, <3>3, LeadsTrans
    <3>5. d.st = c.st /\ d.r.nxt = c.r.nxt
      BY <1>5, <3>2 DEF Same
    <3>6. c.r.nxt >= 1
      BY <2>3, CountedSyn
    <3>7. Same(c, d)
      BY <1>1, <1>10, <2>2, <3>2, SameTwice DEF Unopened
    <3> QED BY <1>10, <2>3, <3>2, <3>4, <3>5, <3>6, <3>7 DEF d
  <2>4. CASE c.st # "ESTABLISHED"
    <3>1. d = Assert_(b, "handle_syn", FALSE)
      BY <1>10, <2>4 DEF HandleSyn, b, a
    <3> HIDE DEF d
    <3>2. "handle_syn" \in Asserts /\ "handle_syn" \notin {"enter_persist", "check_rexmt_data"}
      BY DEF Asserts
    <3>3. d \in Cb /\ Same(b, d) /\ d = [b EXCEPT !.bad = d.bad]
      BY <1>4, <3>1, <3>2, AssertKeeps
    <3>4. d.cwnd = b.cwnd
      BY <1>4, <3>3 DEF Cb
    <3>5. Leads(b, d, P)
      BY <2>2, <3>3, <3>4, SameGood
    <3>6. Leads(c, d, P)
      BY <1>1, <2>2, <3>5, LeadsTrans
    <3>7. ~SynExpected(c)
      BY <1>10, <2>4 DEF SynExpected
    <3>8. Same(c, d)
      BY <1>1, <1>10, <2>2, <3>3, SameTwice DEF Unopened
    <3> QED BY <1>10, <3>3, <3>6, <3>7, <3>8 DEF d
  <2> QED BY <2>3, <2>4
<1> QED BY <1>9, <1>10

\* TCP_REASS.
LEMMA TcpReassembleKeeps ==
  ASSUME NEW P \in Peers, NEW c, Good(c, P), c.r.nxt >= 1, NEW p \in Datagram,
         NEW seq \in Nat, seq + p.len <= P.max
  PROVE  LET d == TcpReassemble(c, p, seq)
         IN  Leads(c, d, P) /\ d.st = c.st
<1> DEFINE piece == Piece(p, seq)
           r == TcpReass(c.r, piece)
           a == [c EXCEPT !.r = r]
           read == IF a.r.nxt # c.r.nxt THEN {"NOTIFY_READ"} ELSE {}
           fs == read \cup (IF InSequence(c.r, piece) THEN {"DELACK"} ELSE {"ACKNOW"})
           d == TcpReassemble(c, p, seq)
<1>1. /\ piece \in Packet /\ piece.seq + piece.len <= P.max
  BY DEF Piece, Packet, Datagram
<1>2. c \in Cb /\ Receives(c.r, P.max) /\ P.max \in Nat
  BY HalfReceives DEF Good, Kept
<1> HIDE DEF piece
<1>3. Receives(r, P.max) /\ r.nxt >= c.r.nxt
  BY <1>1, <1>2, AppendPktHalf, InsertReasmHalf DEF TcpReass
<1> HIDE DEF r
<1>4. /\ Leads(c, a, P) /\ a.r = r /\ a.flags = c.flags /\ a.st = c.st /\ a.err = c.err
  BY <1>3, HalfKeeps
<1>5. d = On(a, fs)
  BY DEF TcpReassemble, piece, r
<1>6. fs \in SUBSET (CbFlags \ {"SENTFIN"}) /\ "NOTIFY_DROP" \notin fs
  BY DEF CbFlags
<1>7. a.r.nxt \in Nat /\ c.r.nxt \in Nat
  BY <1>2, <1>4, HalfReceives DEF Leads
<1> HIDE DEF fs, a, d
<1>8. Good(a, P) /\ ~Unopened(a)
  BY <1>3, <1>4, <1>7, CountedSyn DEF Leads
<1>9. Leads(a, d, P) /\ Still(a, d)
  BY <1>5, <1>6, <1>8, OnLeads
<1>10. Leads(c, d, P)
  BY <1>2, <1>4, <1>9, LeadsTrans
<1> QED BY <1>4, <1>9, <1>10 DEF Still, d

\* The state moves on behind the handshake: nobody waits to finish who has not
\* sent a FIN that is not acknowledged, and an end is closed only with an error.
LEMMA StateKeeps ==
  ASSUME NEW P \in Peers, NEW b, Good(b, P), b.r.nxt >= 1, NEW d \in Cb,
         d.st \notin Handshaking \cup {"LISTEN"},
         d.st = "CLOSED" \/ b.st \notin Opening,
         d.st \in {"CLOSED", "CLOSE_WAIT", "CLOSING", "LAST_ACK", "TIME_WAIT"} => b.err # "none",
         "SENTFIN" \in d.flags <=> "SENTFIN" \in b.flags,
         "NOTIFY_DROP" \in d.flags => b.err # "none",
         "SENTFIN" \in b.flags =>
           d.st \in {"FIN_WAIT_2", "TIME_WAIT", "CLOSED"} \/ {d.st, b.st} \subseteq Finishing,
         d.rexmt => b.rexmt, d.persist => b.persist,
         d.r = b.r, d.err = b.err, d.up = b.up, d.una = b.una, d.nxt = b.nxt,
         d.fack = b.fack, d.max = b.max, d.sb = b.sb, d.sbseq = b.sbseq,
         d.retrans = b.retrans, d.ops = b.ops, d.out = b.out, d.bad = b.bad, d.cwnd = b.cwnd
  PROVE  Leads(b, d, P)
<1>1. b \in Cb /\ b.max \in Nat
  BY CbNumbers DEF Good, Kept
<1>2. Phased(d)
  <2>1. ~Unopened(d)
    BY DEF Unopened
  <2>2. "SENTFIN" \in d.flags => d.st \in Finishing \cup {"FIN_WAIT_2", "TIME_WAIT", "CLOSED"}
    OBVIOUS
  <2>3. "SENTFIN" \in d.flags /\ d.st \in Finishing => d.una < d.max
    BY DEF Good, Kept, Phased, Finishing
  <2> QED BY <2>1, <2>2, <2>3 DEF Phased
<1>3. Opened(d, P) /\ Buffered(d) /\ Heard(d, P)
  <2>1. Opened(d, P)
    BY DEF Good, Kept, Opened, Opening, Handshaking
  <2> QED BY <2>1 DEF Good, Kept, Buffered, Heard, View
<1>4. Good(d, P)
  BY <1>2, <1>3 DEF Good, Kept
<1>5. Acked(b) => Acked(d)
  BY DEF Acked, Opening
<1> QED BY <1>1, <1>4, <1>5 DEF Leads, Wide

\* handle_fin: a FIN is counted, and told of as the end of the stream.
LEMMA HandleFinKeeps ==
  ASSUME NEW P \in Peers, NEW c, Good(c, P), c.r.nxt >= 1
  PROVE  Leads(c, HandleFin(c), P)
<1> DEFINE r == CountFin(c.r)
           a == [c EXCEPT !.r = r]
           e == WithErr(a, "eof")
           b == IF HaveRcvdFin(c) THEN c ELSE On(e, {"ACKNOW", "NOTIFY_READ"})
           d == HandleFin(c)
<1>1. c \in Cb /\ c.r \in Half /\ c.r.nxt \in Nat /\ Receives(c.r, P.max) /\ c.max \in Nat
  BY HalfReceives DEF Good, Kept, Cb
<1>2. Receives(r, P.max) /\ r.nxt = c.r.nxt + 1
  <2> DEFINE h == c.r
  <2>1. h \in Half /\ h.nxt \in Nat /\ Len(h.q) <= RcvHiWat
        /\ \A p \in h.reasm : p.seq + p.len <= P.max
    BY <1>1 DEF Receives
  <2>2. r = [h EXCEPT !.nxt = h.nxt + 1] /\ h.nxt + 1 \in Nat
    BY <2>1 DEF CountFin
  <2> HIDE DEF r, h
  <2>3. r \in Half
    BY <2>1, <2>2 DEF Half
  <2>4. r.nxt = h.nxt + 1 /\ r.q = h.q /\ r.reasm = h.reasm
    BY <2>1, <2>2 DEF Half
  <2> QED BY <2>1, <2>3, <2>4 DEF Receives, h
<1> HIDE DEF r
<1>3. /\ Leads(c, a, P) /\ a.r = r /\ a.flags = c.flags /\ a.st = c.st /\ a.err = c.err
      /\ a.una = c.una /\ a.up = c.up /\ a.max = c.max
  <2>1. r.nxt >= c.r.nxt
    BY <1>1, <1>2
  <2> QED BY <1>2, <2>1, HalfKeeps
<1> HIDE DEF a
<1>4. /\ Leads(a, e, P) /\ e.err = "eof" /\ e.st = a.st /\ e.una = a.una /\ e.up = a.up
      /\ e.r = a.r /\ e.flags = a.flags /\ e.max = a.max
  <2>1. "eof" \in Errs /\ "eof" # "none" /\ Good(a, P)
    BY <1>3 DEF Errs, Leads
  <2> QED BY <2>1, ErrKeeps
<1> HIDE DEF e
<1>5. /\ Leads(c, b, P) /\ b.st = c.st /\ (b.flags = c.flags \/ b.err = "eof")
      /\ b.r.nxt >= 1 /\ (~HaveRcvdFin(c) => b.err = "eof")
  <2>1. CASE HaveRcvdFin(c)
    BY <2>1, LeadsSelf
  <2>2. CASE ~HaveRcvdFin(c)
    <3> DEFINE fs == {"ACKNOW", "NOTIFY_READ"}
    <3>1. fs \in SUBSET (CbFlags \ {"SENTFIN"}) /\ "NOTIFY_DROP" \notin fs
      BY DEF CbFlags
    <3>2. Good(e, P) /\ e.r.nxt >= 1
      BY <1>1, <1>2, <1>3, <1>4 DEF Leads
    <3>3. ~Unopened(e)
      BY <3>2, CountedSyn
    <3>4. b = On(e, fs)
      BY <2>2
    <3> HIDE DEF fs, b
    <3>5. Leads(e, b, P) /\ Still(e, b)
      BY <3>1, <3>2, <3>3, <3>4, OnLeads
    <3>6. Leads(c, e, P)
      BY <1>1, <1>3, <1>4, LeadsTrans
    <3>7. Leads(c, b, P)
      BY <1>1, <3>5, <3>6, LeadsTrans
    <3> QED BY <1>3, <1>4, <3>2, <3>5, <3>7 DEF Still, b
  <2> QED BY <2>1, <2>2
<1>6. b \in Cb /\ Good(b, P) /\ b.err # "none"
  <2>1. HaveRcvdFin(c) => c.err # "none"
    BY DEF HaveRcvdFin, Good, Kept, Phased
  <2>2. HaveRcvdFin(c) => b = c
    OBVIOUS
  <2> HIDE DEF b
  <2> QED BY <1>5, <2>1, <2>2 DEF Leads, Good, Kept
<1>7. \/ c.st \in {"ESTABLISHED", "CLOSE_WAIT"} /\ d = [b EXCEPT !.st = "CLOSE_WAIT"]
      \/ c.st \in {"FIN_WAIT_1", "CLOSING"} /\ d = [b EXCEPT !.st = "CLOSING"]
      \/ /\ c.st \in {"FIN_WAIT_2", "TIME_WAIT"}
         /\ d = On([b EXCEPT !.st = "TIME_WAIT", !.msl = TRUE], {"NOTIFY_DROP"})
      \/ d = b
  <2> DEFINE b0 == IF HaveRcvdFin(c) THEN c
                   ELSE On([c EXCEPT !.r = CountFin(@), !.err = "eof"], {"ACKNOW", "NOTIFY_READ"})
  <2>1. e = [c EXCEPT !.r = CountFin(@), !.err = "eof"]
    BY <1>1 DEF Cb, WithErr, e, a, r
  <2>2. b0 = b
    BY <2>1
  <2>3. \/ c.st \in {"ESTABLISHED", "CLOSE_WAIT"} /\ d = [b0 EXCEPT !.st = "CLOSE_WAIT"]
        \/ c.st \in {"FIN_WAIT_1", "CLOSING"} /\ d = [b0 EXCEPT !.st = "CLOSING"]
        \/ /\ c.st \in {"FIN_WAIT_2", "TIME_WAIT"}
           /\ d = On([b0 EXCEPT !.st = "TIME_WAIT", !.msl = TRUE], {"NOTIFY_DROP"})
        \/ d = b0
    BY DEF HandleFin
  <2> HIDE DEF b0, b, d
  <2> QED BY <2>2, <2>3
<1> HIDE DEF b, d
<1>8. CASE c.st \in {"ESTABLISHED", "CLOSE_WAIT"} /\ d = [b EXCEPT !.st = "CLOSE_WAIT"]
  <2>1. "CLOSE_WAIT" \in States
    BY DEF States
  <2>2. d \in Cb
    BY ZenonT(60), <1>6, <1>8, <2>1 DEF Cb
  <2>3. d.st = "CLOSE_WAIT" /\ d.flags = b.flags /\ d.rexmt = b.rexmt /\ d.persist = b.persist
        /\ d.r = b.r /\ d.err = b.err /\ d.up = b.up /\ d.una = b.una /\ d.nxt = b.nxt
        /\ d.fack = b.fack
    BY <1>6, <1>8 DEF Cb
  <2>4. d.max = b.max /\ d.sb = b.sb /\ d.sbseq = b.sbseq
        /\ d.retrans = b.retrans /\ d.ops = b.ops /\ d.out = b.out /\ d.bad = b.bad
        /\ d.cwnd = b.cwnd
    BY <1>6, <1>8 DEF Cb
  <2>5. "SENTFIN" \notin b.flags
    BY <1>5, <1>6, <1>8 DEF Good, Kept, Phased, Finishing
  <2>6. b.st \notin Opening /\ d.st \notin Handshaking \cup {"LISTEN"}
    BY <1>5, <1>8, <2>3 DEF Opening, Handshaking
  <2>7. Leads(b, d, P)
    BY <1>5, <1>6, <2>2, <2>3, <2>4, <2>5, <2>6, StateKeeps
  <2> QED BY <1>1, <1>5, <2>7, LeadsTrans DEF d
<1>9. CASE c.st \in {"FIN_WAIT_1", "CLOSING"} /\ d = [b EXCEPT !.st = "CLOSING"]
  <2>1. "CLOSING" \in States
    BY DEF States
  <2>2. d \in Cb
    BY ZenonT(40), <1>6, <1>9, <2>1 DEF Cb
  <2>3. d.st = "CLOSING" /\ d.flags = b.flags /\ d.rexmt = b.rexmt /\ d.persist = b.persist
        /\ d.r = b.r /\ d.err = b.err /\ d.up = b.up /\ d.una = b.una /\ d.nxt = b.nxt
        /\ d.fack = b.fack
    BY <1>6, <1>9 DEF Cb
  <2>4. d.max = b.max /\ d.sb = b.sb /\ d.sbseq = b.sbseq
        /\ d.retrans = b.retrans /\ d.ops = b.ops /\ d.out = b.out /\ d.bad = b.bad
        /\ d.cwnd = b.cwnd
    BY <1>6, <1>9 DEF Cb
  <2>5. {d.st, b.st} \subseteq Finishing
    BY <1>5, <1>9, <2>3 DEF Finishing
  <2>6. b.st \notin Opening /\ d.st \notin Handshaking \cup {"LISTEN"}
    BY <1>5, <1>9, <2>3 DEF Opening, Handshaking
  <2>7. Leads(b, d, P)
    BY <1>5, <1>6, <2>2, <2>3, <2>4, <2>5, <2>6, StateKeeps
  <2> QED BY <1>1, <1>5, <2>7, LeadsTrans DEF d
<1>10. CASE /\ c.st \in {"FIN_WAIT_2", "TIME_WAIT"}
            /\ d = On([b EXCEPT !.st = "TIME_WAIT", !.msl = TRUE], {"NOTIFY_DROP"})
  <2> DEFINE fl == b.flags \cup {"NOTIFY_DROP"}
  <2>1. "TIME_WAIT" \in States /\ fl \in SUBSET CbFlags
    BY <1>6, CbNumbers DEF States, CbFlags
  <2>2. d = [b EXCEPT !.st = "TIME_WAIT", !.msl = TRUE, !.flags = fl]
    BY <1>6, <1>10 DEF On, Cb
  <2>3. "SENTFIN" \in fl <=> "SENTFIN" \in b.flags
    OBVIOUS
  <2> HIDE DEF fl
  <2>4. d \in Cb
    BY ZenonT(40), <1>6, <2>1, <2>2 DEF Cb
  <2>5. d.st = "TIME_WAIT" /\ d.flags = fl /\ d.rexmt = b.rexmt /\ d.persist = b.persist
        /\ d.r = b.r /\ d.err = b.err /\ d.up = b.up /\ d.una = b.una /\ d.nxt = b.nxt
        /\ d.fack = b.fack
    BY <1>6, <2>2 DEF Cb
  <2>6. d.max = b.max /\ d.sb = b.sb /\ d.sbseq = b.sbseq
        /\ d.retrans = b.retrans /\ d.ops = b.ops /\ d.out = b.out /\ d.bad = b.bad
        /\ d.cwnd = b.cwnd
    BY <1>6, <2>2 DEF Cb
  <2>7. b.st \notin Opening /\ d.st \notin Handshaking \cup {"LISTEN"}
    BY <1>5, <1>10, <2>5 DEF Opening, Handshaking
  <2>8. Leads(b, d, P)
    BY <1>5, <1>6, <2>3, <2>4, <2>5, <2>6, <2>7, StateKeeps
  <2> QED BY <1>1, <1>5, <2>8, LeadsTrans DEF d
<1>11. d = b => Leads(c, d, P)
  BY <1>5
<1> QED BY <1>7, <1>8, <1>9, <1>10, <1>11 DEF d

\* update_ack_state, SYN_RECEIVED: the SYN of this end is acknowledged and the
\* handler is called; until update_snd_una has run snd_una is still 0.
LEMMA EstablishedKeeps ==
  ASSUME NEW P \in Peers, P.rcv >= 1, NEW c, Good(c, P), c.st = "SYN_RECEIVED"
  PROVE  LET d == OnConnected([(IF c.rtt THEN XmitTimer(c) ELSE c) EXCEPT !.st = "ESTABLISHED"])
         IN  /\ Good(d, P) /\ d.st = "ESTABLISHED" /\ d.max = c.max /\ d.una = c.una
             /\ d.r = c.r /\ d.flags = c.flags /\ d.cwnd = c.cwnd
<1> DEFINE a == IF c.rtt THEN XmitTimer(c) ELSE c
           up == a.up \/ a.handler
           b == [a EXCEPT !.st = "ESTABLISHED", !.up = up]
           d == OnConnected([a EXCEPT !.st = "ESTABLISHED"])
<1>1. c \in Cb /\ c.max \in Nat /\ c.r.nxt \in Nat /\ c.sb = {} /\ c.r.nxt >= 1
  BY CountedSyn, CbNumbers DEF Good, Kept, Phased, Handshaking
<1>2. a \in Cb /\ Same(c, a) /\ a.flags = c.flags /\ a.cwnd = c.cwnd /\ a.r = c.r
  <2> DEFINE x == XmitTimer(c)
  <2>1. x = [c EXCEPT !.rtt = FALSE, !.shift = 0] /\ 0 \in 0 .. MaxRxtShift
    BY CbAssumption DEF XmitTimer
  <2> HIDE DEF x
  <2>2. x \in Cb /\ x.cwnd = c.cwnd /\ x.flags = c.flags /\ x.r = c.r /\ Same(c, x)
    BY ZenonT(60), <1>1, <2>1 DEF Cb, Same
  <2>3. Same(c, c)
    BY DEF Same
  <2>4. a = x \/ a = c
    BY DEF x
  <2> HIDE DEF a
  <2> QED BY <1>1, <2>2, <2>3, <2>4
<1>3. up \in BOOLEAN /\ a.nxt \in Nat /\ "ESTABLISHED" \in States
  BY <1>2 DEF Cb, States
<1>4. d = [b EXCEPT !.handler = FALSE, !.sbseq = a.nxt]
  BY <1>2 DEF OnConnected, Cb
<1> HIDE DEF a, up
<1>5. b \in Cb
  BY ZenonT(40), <1>2, <1>3 DEF Cb
<1>6. /\ b.st = "ESTABLISHED" /\ b.flags = a.flags /\ b.rexmt = a.rexmt
      /\ b.persist = a.persist /\ b.r = a.r /\ b.err = a.err /\ b.una = a.una
      /\ b.nxt = a.nxt /\ b.fack = a.fack
  BY <1>2 DEF Cb
<1>7. /\ b.max = a.max /\ b.sb = a.sb /\ b.retrans = a.retrans /\ b.ops = a.ops
      /\ b.out = a.out /\ b.bad = a.bad /\ b.cwnd = a.cwnd
  BY <1>2 DEF Cb
<1> HIDE DEF b, d
<1>8. d \in Cb
  BY ZenonT(60), <1>3, <1>4, <1>5 DEF Cb
<1>9. /\ d.st = b.st /\ d.flags = b.flags /\ d.rexmt = b.rexmt
      /\ d.persist = b.persist /\ d.r = b.r /\ d.err = b.err /\ d.una = b.una
      /\ d.nxt = b.nxt /\ d.fack = b.fack
  BY <1>4, <1>5 DEF Cb
<1>10. /\ d.max = b.max /\ d.sb = b.sb /\ d.retrans = b.retrans /\ d.ops = b.ops
       /\ d.out = b.out /\ d.bad = b.bad /\ d.cwnd = b.cwnd
  BY <1>4, <1>5 DEF Cb
<1>11. /\ d.st = "ESTABLISHED" /\ d.flags = c.flags /\ d.r = c.r /\ d.err = c.err
       /\ d.una = c.una /\ d.max = c.max /\ d.sb = {} /\ d.retrans = c.retrans /\ d.out = c.out
  BY <1>1, <1>2, <1>6, <1>7, <1>9, <1>10 DEF Same
<1>12. Phased(d)
  <2>1. ~Unopened(d) /\ d.st \notin Handshaking
    BY <1>11 DEF Unopened, Handshaking
  <2>2. "SENTFIN" \notin d.flags
    BY <1>11 DEF Good, Kept, Phased, Finishing
  <2>3. "NOTIFY_DROP" \in d.flags => d.err # "none"
    BY <1>11 DEF Good, Kept, Phased
  <2> QED BY <1>11, <2>1, <2>2, <2>3 DEF Phased
<1>13. Opened(d, P)
  BY <1>1, <1>11 DEF Good, Kept, Opened
<1>14. Buffered(d)
  BY <1>1, <1>11 DEF Good, Kept, Buffered
<1>15. Heard(d, P)
  BY <1>11 DEF Good, Kept, Heard, View
<1>16. /\ d.nxt = c.nxt /\ d.fack = c.fack /\ d.rexmt = c.rexmt /\ d.persist = c.persist
       /\ "enter_persist" \notin d.bad /\ "check_rexmt_data" \notin d.bad
  BY <1>2, <1>6, <1>7, <1>9, <1>10 DEF Same, Good, Kept
<1>17. Good(d, P)
  BY <1>8, <1>11, <1>12, <1>13, <1>14, <1>15, <1>16 DEF Good, Kept
<1> QED BY <1>2, <1>7, <1>10, <1>11, <1>17 DEF d, a

\* update_ack_state, with HaveSndFin: the FIN of this end is acknowledged.
FinAcked(c) ==
  CASE c.st = "FIN_WAIT_1" -> [c EXCEPT !.st = "FIN_WAIT_2"]
    [] c.st = "CLOSING" ->
         On([CancelTimers(c) EXCEPT !.st = "TIME_WAIT", !.msl = TRUE], {"NOTIFY_DROP"})
    [] c.st = "LAST_ACK" -> On([c EXCEPT !.st = "CLOSED"], {"NOTIFY_DROP"})
    [] OTHER -> c

(* update_ack_state: the state that follows once the FIN is acknowledged. *)
LEMMA FinAckedKeeps ==
  ASSUME NEW P \in Peers, NEW c, Good(c, P), c.r.nxt >= 1
  PROVE  LET d == FinAcked(c)
         IN  /\ Leads(c, d, P) /\ d.st \notin Finishing /\ d.max = c.max /\ d.una = c.una
             /\ d.r = c.r
<1> DEFINE d == FinAcked(c)
           fl == c.flags \cup {"NOTIFY_DROP"}
<1>1. c \in Cb /\ c.max \in Nat /\ fl \in SUBSET CbFlags /\ Leads(c, c, P)
  BY CbNumbers, LeadsSelf DEF Good, Kept, CbFlags
<1>2. ("SENTFIN" \in fl <=> "SENTFIN" \in c.flags)
      /\ {"FIN_WAIT_2", "TIME_WAIT", "CLOSED"} \subseteq States
  BY DEF States, Opening
<1>3. CASE c.st = "FIN_WAIT_1"
  <2>1. d = [c EXCEPT !.st = "FIN_WAIT_2"]
    BY <1>3 DEF FinAcked
  <2> HIDE DEF d
  <2>2. d \in Cb
    BY ZenonT(40), <1>1, <1>2, <2>1 DEF Cb
  <2>3. d.st = "FIN_WAIT_2" /\ d.flags = c.flags /\ d.rexmt = c.rexmt /\ d.persist = c.persist
        /\ d.r = c.r /\ d.err = c.err /\ d.up = c.up /\ d.una = c.una /\ d.nxt = c.nxt
        /\ d.fack = c.fack
    BY <1>1, <2>1 DEF Cb
  <2>4. d.max = c.max /\ d.sb = c.sb /\ d.sbseq = c.sbseq
        /\ d.retrans = c.retrans /\ d.ops = c.ops /\ d.out = c.out /\ d.bad = c.bad
        /\ d.cwnd = c.cwnd
    BY <1>1, <2>1 DEF Cb
  <2>5. c.st \notin Opening /\ d.st \notin Handshaking \cup {"LISTEN"} /\ d.st \notin Finishing
    BY <1>3, <2>3 DEF Opening, Handshaking, Finishing
  <2>6. "NOTIFY_DROP" \in c.flags => c.err # "none"
    BY DEF Good, Kept, Phased
  <2>7. Leads(c, d, P)
    BY <2>2, <2>3, <2>4, <2>5, <2>6, StateKeeps
  <2> QED BY <2>3, <2>4, <2>5, <2>7 DEF d
<1>4. CASE c.st = "CLOSING"
  <2> DEFINE b == [c EXCEPT !.rexmt = FALSE, !.persist = FALSE, !.keep = FALSE]
  <2>1. d = [b EXCEPT !.msl = TRUE, !.st = "TIME_WAIT", !.flags = fl]
    BY <1>1, <1>4 DEF FinAcked, CancelTimers, On, Cb
  <2>2. b \in Cb
    BY ZenonT(40), <1>1 DEF Cb
  <2>3. b.flags = c.flags /\ b.rexmt = FALSE /\ b.persist = FALSE
        /\ b.r = c.r /\ b.err = c.err /\ b.up = c.up /\ b.una = c.una /\ b.nxt = c.nxt
        /\ b.fack = c.fack
    BY <1>1 DEF Cb
  <2>4. b.max = c.max /\ b.sb = c.sb /\ b.sbseq = c.sbseq
        /\ b.retrans = c.retrans /\ b.ops = c.ops /\ b.out = c.out /\ b.bad = c.bad
        /\ b.cwnd = c.cwnd
    BY <1>1 DEF Cb
  <2> HIDE DEF d, fl, b
  <2>5. d \in Cb
    BY ZenonT(60), <1>1, <1>2, <2>1, <2>2 DEF Cb
  <2>6. d.st = "TIME_WAIT" /\ d.flags = fl /\ d.rexmt = b.rexmt /\ d.persist = b.persist
        /\ d.r = b.r /\ d.err = b.err /\ d.up = b.up /\ d.una = b.una /\ d.nxt = b.nxt
        /\ d.fack = b.fack
    BY <2>1, <2>2 DEF Cb
  <2>7. d.max = b.max /\ d.sb = b.sb /\ d.sbseq = b.sbseq
        /\ d.retrans = b.retrans /\ d.ops = b.ops /\ d.out = b.out /\ d.bad = b.bad
        /\ d.cwnd = b.cwnd
    BY <2>1, <2>2 DEF Cb
  <2>8. c.st \notin Opening /\ d.st \notin Handshaking \cup {"LISTEN"} /\ d.st \notin Finishing
    BY <1>4, <2>6 DEF Opening, Handshaking, Finishing
  <2>9. c.err # "none"
    BY <1>4 DEF Good, Kept, Phased
  <2>10. Leads(c, d, P)
    BY <1>2, <2>3, <2>4, <2>5, <2>6, <2>7, <2>8, <2>9, StateKeeps
  <2> QED BY <2>3, <2>4, <2>6, <2>7, <2>8, <2>10 DEF d
<1>5. CASE c.st = "LAST_ACK"
  <2>1. d = [c EXCEPT !.st = "CLOSED", !.flags = fl]
    BY <1>1, <1>5 DEF FinAcked, On, Cb
  <2> HIDE DEF d, fl
  <2>2. d \in Cb
    BY ZenonT(60), <1>1, <1>2, <2>1 DEF Cb
  <2>3. d.st = "CLOSED" /\ d.flags = fl /\ d.rexmt = c.rexmt /\ d.persist = c.persist
        /\ d.r = c.r /\ d.err = c.err /\ d.up = c.up /\ d.una = c.una /\ d.nxt = c.nxt
        /\ d.fack = c.fack
    BY <1>1, <2>1 DEF Cb
  <2>4. d.max = c.max /\ d.sb = c.sb /\ d.sbseq = c.sbseq
        /\ d.retrans = c.retrans /\ d.ops = c.ops /\ d.out = c.out /\ d.bad = c.bad
        /\ d.cwnd = c.cwnd
    BY <1>1, <2>1 DEF Cb
  <2>5. d.st \notin Handshaking \cup {"LISTEN"} /\ d.st \notin Finishing
    BY <2>3 DEF Opening, Handshaking, Finishing
  <2>6. c.err # "none"
    BY <1>5 DEF Good, Kept, Phased
  <2>7. Leads(c, d, P)
    BY <1>2, <2>2, <2>3, <2>4, <2>5, <2>6, StateKeeps
  <2> QED BY <2>3, <2>4, <2>5, <2>7 DEF d
<1>6. CASE c.st \notin Finishing
  <2>1. d = c
    BY <1>6 DEF FinAcked, Finishing
  <2> QED BY <1>1, <1>6, <2>1
<1> QED BY <1>3, <1>4, <1>5, <1>6 DEF Finishing

(* update_ack_state: SYN_RECVD is established, the states of the close go on. *)
LEMMA UpdateAckStateKeeps ==
  ASSUME NEW P \in Peers, P.rcv >= 1, NEW c, Good(c, P), c.r.nxt >= 1
  PROVE  LET d == UpdateAckState(c)
         IN  /\ Good(d, P) /\ (Wide(c) => Wide(d)) /\ d.max = c.max /\ d.una = c.una
             /\ d.r = c.r /\ ~("SENTFIN" \in d.flags /\ d.st \in Finishing)
<1> DEFINE a == OnConnected([(IF c.rtt THEN XmitTimer(c) ELSE c) EXCEPT !.st = "ESTABLISHED"])
           b == IF c.st = "SYN_RECEIVED" THEN a ELSE c
           d == UpdateAckState(c)
<1>1. c.st # "SYN_SENT" /\ c.r.nxt \in Nat
  BY CountedSyn
<1>2. d = IF ~HaveSndFin(b) THEN b ELSE FinAcked(b)
  BY <1>1 DEF UpdateAckState, FinAcked
<1>3. c.st = "SYN_RECEIVED" =>
        /\ Good(a, P) /\ a.st = "ESTABLISHED" /\ a.max = c.max /\ a.una = c.una
        /\ a.r = c.r /\ a.flags = c.flags /\ a.cwnd = c.cwnd
  BY EstablishedKeeps
<1> HIDE DEF a
<1>4. Good(b, P) /\ b.max = c.max /\ b.una = c.una /\ b.r = c.r /\ b.cwnd = c.cwnd
  BY <1>3
<1> HIDE DEF b, d
<1>5. CASE HaveSndFin(b)
  <2>1. d = FinAcked(b) /\ b.r.nxt >= 1
    BY <1>2, <1>4, <1>5
  <2>2. /\ Leads(b, d, P) /\ d.st \notin Finishing /\ d.max = b.max /\ d.una = b.una
        /\ d.r = b.r
    BY <1>4, <2>1, FinAckedKeeps
  <2>3. Wide(c) => Wide(d)
    BY <1>4, <2>2 DEF Leads, Wide
  <2> QED BY <1>4, <2>2, <2>3 DEF Leads, d
<1>6. CASE ~HaveSndFin(b)
  <2>1. d = b /\ "SENTFIN" \notin d.flags
    BY <1>2, <1>6 DEF HaveSndFin
  <2> QED BY <1>4, <2>1 DEF Wide, d
<1> QED BY <1>5, <1>6

\* do_fast_rexmt: one segment is sent from snd_una; snd_nxt and the congestion
\* window are put back where they were.
LEMMA DoFastRexmtKeeps ==
  ASSUME NEW P \in Peers, NEW c, Good(c, P), ~Unopened(c), NEW u \in Inputs
  PROVE  LET d == DoFastRexmt(c, c.una, u)
         IN  Leads(c, d, P) /\ d.una = c.una /\ d.r.nxt = c.r.nxt
<1> DEFINE lost == HandlePacketLost(c, u)
           c1 == [lost EXCEPT !.rexmt = FALSE, !.nxt = c.una]
           w == Inflight(c1) + MaxSeg
           b == [c1 EXCEPT !.cwnd = w]
           c2 == ValidateFirstPkt(b)
           o == Output(c2, u)
           d == DoFastRexmt(c, c.una, u)
<1>1. /\ c \in Cb /\ c.una \in Nat /\ c.nxt \in Nat /\ c.max \in Nat /\ c.una <= c.nxt
      /\ c.nxt <= c.max
  BY CbNumbers DEF Good, Kept
<1>2. Leads(c, lost, P) /\ Same(c, lost)
  BY HandlePacketLostKeeps
<1>3. d = [o EXCEPT !.cwnd = lost.cwnd, !.nxt = c.nxt]
  BY DEF DoFastRexmt
<1> HIDE DEF lost, d
<1>4. /\ lost \in Cb /\ Good(lost, P) /\ ~Unopened(lost) /\ lost.una = c.una
      /\ lost.nxt = c.nxt /\ lost.max = c.max /\ lost.fack = c.fack
      /\ lost.cwnd \in Nat \ {0} /\ lost.st = c.st /\ lost.up = c.up /\ lost.r.nxt = c.r.nxt
  BY <1>2, CbNumbers DEF Leads, Good, Kept, Same, Unopened
<1>5. /\ c1 \in Cb /\ Good(c1, P) /\ c1.st = c.st /\ c1.err = c.err /\ c1.una = c.una
      /\ c1.up = c.up /\ c1.r.nxt = c.r.nxt /\ c1.max = c.max
  <2>1. c1 \in Cb
    BY ZenonT(40), <1>1, <1>4 DEF Cb
  <2>2. /\ c1.st = lost.st /\ c1.err = lost.err /\ c1.max = lost.max /\ c1.up = lost.up
        /\ c1.ops = lost.ops /\ c1.r = lost.r /\ c1.out = lost.out /\ c1.flags = lost.flags
        /\ c1.bad = lost.bad /\ c1.una = lost.una
    BY <1>4 DEF Cb
  <2>3. /\ c1.sb = lost.sb /\ c1.sbseq = lost.sbseq /\ c1.retrans = lost.retrans
        /\ c1.persist = lost.persist /\ c1.fack = lost.fack /\ c1.nxt = c.una
        /\ c1.rexmt = FALSE /\ c1.told = lost.told /\ c1.sbseq = lost.sbseq
    BY <1>4 DEF Cb
  <2>4. lost.err = c.err
    BY <1>2 DEF Same
  <2> HIDE DEF c1
  <2>5. Steady(lost, c1) /\ Buffered(c1)
    BY <1>1, <1>4, <2>2, <2>3 DEF Steady, Buffered, Good, Kept
  <2>6. /\ c1.una <= c1.nxt /\ c1.nxt <= c1.max /\ c1.una <= c1.fack /\ c1.fack <= c1.max
        /\ ~(c1.rexmt /\ c1.persist)
    BY <1>1, <1>4, <2>2, <2>3 DEF Good, Kept
  <2>7. Good(c1, P)
    BY <1>4, <2>1, <2>2, <2>5, <2>6, SteadyGood
  <2> QED BY <1>4, <2>1, <2>2, <2>4, <2>7 DEF c1
<1> HIDE DEF c1
<1>6. /\ b \in Cb /\ Good(b, P) /\ b.st = c.st /\ b.err = c.err /\ b.una = c.una
      /\ b.up = c.up /\ b.r.nxt = c.r.nxt /\ b.max = c.max
  <2>1. c1.nxt \in Nat /\ c1.fack \in Nat /\ c1.retrans \in Int
    BY <1>5, CbNumbers
  <2>2. w \in Nat \ {0}
    BY <2>1, RcvBufAssumption DEF Inflight, Greatest
  <2> HIDE DEF w
  <2>3. b \in Cb
    BY <1>5, <2>2 DEF Cb
  <2>4. b = [c1 EXCEPT !.cwnd = w, !.incr = c1.incr]
    BY <1>5 DEF Cb
  <2> HIDE DEF b
  <2>5. Same(c1, b)
    BY <1>5, <2>3, <2>4, CwndKeeps
  <2>6. Good(b, P)
    BY <1>5, <2>3, <2>5, SameGood
  <2> QED BY <1>5, <2>3, <2>5, <2>6 DEF Same, b
<1> HIDE DEF b
<1>7. /\ Good(c2, P) /\ c2.st = c.st /\ c2.err = c.err /\ c2.una = c.una
      /\ c2.up = c.up /\ c2.r.nxt = c.r.nxt /\ c2.max = c.max
  <2>1. ~Unopened(b)
    BY <1>6 DEF Unopened
  <2>2. Leads(b, c2, P) /\ Steady(b, c2) /\ c2.una = b.una
    BY <1>6, <2>1, ValidateFirstPktKeeps
  <2> QED BY <1>6, <2>2 DEF Leads, Steady
<1> HIDE DEF c2
<1>8. /\ Good(o, P) /\ o.st = c.st /\ o.err = c.err /\ o.una = c.una
      /\ o.up = c.up /\ o.r.nxt = c.r.nxt /\ c.max <= o.max
  <2>1. c2.st # "LISTEN"
    BY <1>7 DEF Unopened
  <2>2. /\ Leads(c2, o, P) /\ o.st = c2.st /\ o.err = c2.err /\ o.una = c2.una /\ o.up = c2.up
        /\ o.r.nxt = c2.r.nxt
    BY <1>7, <2>1, OutputKeeps
  <2> QED BY <1>7, <2>2 DEF Leads
<1> HIDE DEF o
<1>9. o \in Cb /\ o.max \in Nat /\ o.fack \in Nat /\ o.una <= o.fack /\ o.fack <= o.max
  BY <1>8, CbNumbers DEF Good, Kept
<1>10. d \in Cb
  BY ZenonT(60), <1>1, <1>3, <1>4, <1>9 DEF Cb
<1>11. /\ d.st = o.st /\ d.err = o.err /\ d.max = o.max /\ d.up = o.up
       /\ d.ops = o.ops /\ d.r = o.r /\ d.out = o.out /\ d.flags = o.flags
       /\ d.bad = o.bad /\ d.una = o.una
  BY <1>3, <1>9 DEF Cb
<1>12. /\ d.sb = o.sb /\ d.sbseq = o.sbseq /\ d.retrans = o.retrans
       /\ d.persist = o.persist /\ d.fack = o.fack /\ d.nxt = c.nxt
       /\ d.rexmt = o.rexmt /\ d.cwnd = lost.cwnd /\ d.told = o.told
  BY <1>3, <1>9 DEF Cb
<1>13. Steady(o, d) /\ Buffered(d)
  BY <1>1, <1>8, <1>11, <1>12 DEF Steady, Buffered, Good, Kept
<1>14. /\ d.una <= d.nxt /\ d.nxt <= d.max /\ d.una <= d.fack /\ d.fack <= d.max
       /\ ~(d.rexmt /\ d.persist)
  BY <1>1, <1>8, <1>9, <1>11, <1>12 DEF Good, Kept
<1>15. ~Unopened(o)
  BY <1>8 DEF Unopened
<1>16. Good(d, P)
  BY <1>8, <1>10, <1>11, <1>13, <1>14, <1>15, SteadyGood
<1>17. (Wide(c) => Wide(d)) /\ (Acked(c) => Acked(d))
  BY <1>2, <1>8, <1>11, <1>12 DEF Leads, Wide, Acked
<1> QED BY <1>8, <1>11, <1>16, <1>17 DEF Leads, d

\* The window of the peer, the count of repeated acknowledgements and the running
\* measurement are no part of the invariant.
Noted(c, w, k, b) == [c EXCEPT !.wnd = w, !.dupacks = k, !.rtt = b]
(* Noting window, duplicates and assertions keeps the invariant. *)
LEMMA NotedKeeps ==
  ASSUME NEW P \in Peers, NEW c, Good(c, P), NEW w \in Nat, NEW k \in Nat, NEW b \in BOOLEAN
  PROVE  LET d == Noted(c, w, k, b)
         IN  /\ Leads(c, d, P) /\ d.flags = c.flags /\ d.una = c.una /\ d.max = c.max
             /\ d.st = c.st /\ d.err = c.err /\ d.r = c.r /\ d.rexmt = c.rexmt
             /\ d.dupacks = k /\ d.wnd = w /\ Same(c, d)
<1> DEFINE d == Noted(c, w, k, b)
<1>1. c \in Cb
  BY DEF Good, Kept
<1>2. d = [c EXCEPT !.wnd = w, !.dupacks = k, !.rtt = b]
  BY DEF Noted
<1> HIDE DEF d
<1>3. d \in Cb
  BY ZenonT(60), <1>1, <1>2 DEF Cb
<1>4. /\ d.flags = c.flags /\ d.rexmt = c.rexmt /\ d.dupacks = k /\ d.wnd = w /\ d.cwnd = c.cwnd
      /\ d.r = c.r /\ d.bad = c.bad /\ d.persist = c.persist /\ d.out = c.out /\ d.ops = c.ops
  BY <1>1, <1>2 DEF Cb
<1>5. /\ d.st = c.st /\ d.err = c.err /\ d.una = c.una /\ d.nxt = c.nxt /\ d.max = c.max
      /\ d.fack = c.fack /\ d.retrans = c.retrans /\ d.sb = c.sb /\ d.sbseq = c.sbseq
      /\ d.up = c.up /\ d.told = c.told
  BY <1>1, <1>2 DEF Cb
<1>6. Same(c, d)
  BY <1>4, <1>5 DEF Same
<1>7. Leads(c, d, P)
  BY <1>3, <1>4, <1>6, SameGood
<1> QED BY <1>4, <1>5, <1>6, <1>7 DEF d

\* The last steps of handle_ack, from an end that has counted the SYN of its peer:
\* flags and reset_rexmt_timer.
LEMMA ResetAfter ==
  ASSUME NEW P \in Peers, NEW c, Good(c, P), c.r.nxt >= 1,
         NEW fs \in SUBSET (CbFlags \ {"SENTFIN", "NOTIFY_DROP"})
  PROVE  /\ LET d == On(c, fs) IN Leads(c, d, P) /\ d.una = c.una /\ d.r = c.r /\ d.max = c.max
         /\ LET d == ResetRexmtTimer(On(c, fs))
            IN  Leads(c, d, P) /\ d.una = c.una /\ d.r = c.r /\ d.max = c.max
         /\ LET d == ResetRexmtTimer(c)
            IN  Leads(c, d, P) /\ d.una = c.una /\ d.r = c.r /\ d.max = c.max
<1> DEFINE a == On(c, fs)
           b == ResetRexmtTimer(a)
           d == ResetRexmtTimer(c)
<1>1. c \in Cb /\ ~Unopened(c)
  BY CountedSyn DEF Good, Kept
<1>2. Leads(c, a, P) /\ Still(c, a) /\ a.r = c.r /\ a.max = c.max
  BY <1>1, OnLeads
<1> HIDE DEF a
<1>3. Good(a, P) /\ ~Unopened(a)
  BY <1>1, <1>2 DEF Leads, Still, Unopened
<1>4. Leads(a, b, P) /\ Steady(a, b) /\ b.una = a.una
  BY <1>3, ResetRexmtTimerKeeps
<1>5. Leads(c, d, P) /\ Steady(c, d) /\ d.una = c.una
  BY <1>1, ResetRexmtTimerKeeps
<1> HIDE DEF b, d
<1>6. Leads(c, b, P)
  BY <1>1, <1>2, <1>4, LeadsTrans
<1>7. b.una = c.una /\ b.r = c.r /\ b.max = c.max /\ a.una = c.una
  BY <1>2, <1>4 DEF Steady, Still
<1>8. d.r = c.r /\ d.max = c.max
  BY <1>5 DEF Steady
<1> QED BY <1>2, <1>5, <1>6, <1>7, <1>8 DEF a, b, d

\* handle_ack, up to the choice of what the acknowledgement number asks for.
LEMMA AckReceived ==
  ASSUME NEW P \in Peers, NEW c, Good(c, P), c.r.nxt >= 1, NEW p \in Datagram, P.rcv >= 1,
         \A b \in p.sack : b[2] <= c.max
  PROVE  LET s == HandleOptionSack(IF AcksAll(c, p) THEN UpdateAckState(c) ELSE c, p.sack)
         IN  /\ Good(s, P) /\ (Wide(c) => Wide(s)) /\ s.max = c.max /\ s.una = c.una
             /\ s.r = c.r
             /\ p.ack = c.max => ~("SENTFIN" \in s.flags /\ s.st \in Finishing)
<1> DEFINE x == IF AcksAll(c, p) THEN UpdateAckState(c) ELSE c
           s == HandleOptionSack(x, p.sack)
<1>1. /\ Good(x, P) /\ (Wide(c) => Wide(x)) /\ x.max = c.max /\ x.una = c.una /\ x.r = c.r
      /\ p.ack = c.max => ~("SENTFIN" \in x.flags /\ x.st \in Finishing)
  BY UpdateAckStateKeeps DEF AcksAll
<1> HIDE DEF x
<1>2. ~Unopened(x) /\ p.sack \in SUBSET (Nat \X Nat)
  BY <1>1, CountedSyn DEF Datagram
<1>3. Leads(x, s, P) /\ Steady(x, s) /\ s.una = x.una /\ s.flags = x.flags
  BY <1>1, <1>2, HandleOptionSackKeeps
<1> HIDE DEF s
<1>4. s.max = c.max /\ s.una = c.una /\ s.r = c.r /\ s.st = x.st
  BY <1>1, <1>3 DEF Steady
<1> QED BY <1>1, <1>3, <1>4 DEF Leads, s, x

\* handle_ack: whatever an acknowledgement is, a new one, a repeated one, an old
\* one or one of something never sent.
LEMMA HandleAckKeeps ==
  ASSUME NEW P \in Peers, NEW c, Good(c, P), c.r.nxt >= 1, NEW p \in Datagram, NEW u \in Inputs,
         Sound(p, P, View(c)), "ACK" \in p.flags, "RST" \notin p.flags
  PROVE  LET a == HandleAck(c, p, u)
         IN  Leads(c, a.c, P)
<1> DEFINE s == HandleOptionSack(IF AcksAll(c, p) THEN UpdateAckState(c) ELSE c, p.sack)
           d == HandleAck(c, p, u).c
           Ends_(x) == /\ Good(x, P) /\ (Wide(c) => Wide(x)) /\ c.max <= x.max /\ x.r.nxt >= 1
                       /\ x.una >= 1
<1>1. /\ c \in Cb /\ c.max \in Nat /\ c.una \in Nat /\ p.ack \in Nat /\ p.win \in Nat
      /\ p.ack >= 1 /\ P.rcv >= 1 /\ ~Unopened(c) /\ \A b \in p.sack : b[2] <= c.max
  BY CountedSyn, CbNumbers DEF Good, Kept, Datagram, Sound, View
<1>2. \A x : Ends_(x) => Leads(c, x, P)
  BY DEF Leads, Acked
<1>3. /\ Good(s, P) /\ (Wide(c) => Wide(s)) /\ s.max = c.max /\ s.una = c.una
      /\ s.r = c.r
      /\ p.ack = c.max => ~("SENTFIN" \in s.flags /\ s.st \in Finishing)
  BY <1>1, AckReceived
<1> DEFINE old == p.ack < c.una
           wild == p.ack > c.max
           dup == Noted(s, s.wnd, Least(s.dupacks + 1, RexmtThresh + 1), s.rtt)
           e1 == Noted(s, p.win, s.dupacks, s.rtt)
           e2 == Noted(s, s.wnd, 0, s.rtt)
           e3 == Noted(dup, dup.wnd, dup.dupacks, FALSE)
<1>4. s \in Cb /\ s.wnd \in Nat /\ s.dupacks \in Nat /\ s.rtt \in BOOLEAN /\ s.max \in Nat
  BY <1>3 DEF Good, Kept, Cb
<1>5. Least(s.dupacks + 1, RexmtThresh + 1) \in Nat
  BY <1>4, CbAssumption DEF Least
<1>6. /\ Leads(s, dup, P) /\ dup.una = s.una /\ dup.max = s.max /\ dup.r = s.r
      /\ dup.rexmt = s.rexmt
  BY <1>3, <1>4, <1>5, NotedKeeps
<1>7. Leads(s, e1, P) /\ e1.una = s.una /\ e1.max = s.max /\ e1.r = s.r
  BY <1>1, <1>3, <1>4, NotedKeeps
<1>8. Leads(s, e2, P) /\ e2.una = s.una /\ e2.max = s.max /\ e2.r = s.r
  <2>1. 0 \in Nat
    OBVIOUS
  <2> QED BY <1>3, <1>4, <2>1, NotedKeeps
<1>9. dup = [s EXCEPT !.dupacks = Least(@ + 1, RexmtThresh + 1)]
  BY <1>4 DEF Noted, Cb
<1>10. e1 = [s EXCEPT !.wnd = p.win] /\ e2 = [s EXCEPT !.dupacks = 0]
  BY <1>4 DEF Noted, Cb
<1> HIDE DEF dup, s
<1>11. /\ dup \in Cb /\ dup.wnd \in Nat /\ dup.dupacks \in Nat /\ Good(dup, P)
  BY <1>6 DEF Leads, Good, Kept, Cb
<1>12. Leads(dup, e3, P) /\ e3.una = dup.una /\ e3.max = dup.max /\ e3.r = dup.r
  <2> DEFINE f == FALSE
  <2>1. f \in BOOLEAN /\ e3 = Noted(dup, dup.wnd, dup.dupacks, f)
    OBVIOUS
  <2> HIDE DEF f, e3
  <2>2. Leads(dup, e3, P) /\ e3.una = dup.una /\ e3.max = dup.max /\ e3.r = dup.r
    BY <1>11, <2>1, NotedKeeps
  <2> QED BY <2>2 DEF e3
<1>13. e3 = [dup EXCEPT !.rtt = FALSE]
  BY <1>11 DEF Noted, Cb
<1> DEFINE err == On([c EXCEPT !.err = "malformed_packet"], {"NOTIFY_DROP", "NEED_RESET"})
           upd == ResetRexmtTimer(On(e1, {"NEED_OUTPUT"}))
           idle == ResetRexmtTimer(e2)
           fast == DoFastRexmt(e3, p.ack, u)
           more == On(dup, {"NEED_OUTPUT"})
           again == ResetRexmtTimer(dup)
           g == IncrCwnd(s)
           h == [g EXCEPT !.dupacks = 0]
           k == DropAckedData(h, p.ack)
           l == [k EXCEPT !.wnd = p.win]
           new == ResetRexmtTimer(On(l, {"NOTIFY_WRITE", "NEED_OUTPUT"}))
<1> HIDE DEF e1, e2, e3
<1>14. \/ d = c
       \/ d = err
       \/ p.ack = c.una /\ p.ack <= c.max /\ d \in {upd, idle, fast, more, again}
       \/ p.ack > c.una /\ p.ack <= c.max /\ d = new
  <2> DEFINE dup0 == [s EXCEPT !.dupacks = Least(@ + 1, RexmtThresh + 1)]
             full ==
               CASE p.ack < c.una -> [c |-> c, done |-> TRUE]
                 [] p.ack > c.max -> [done |-> TRUE, c |-> err]
                 [] p.ack = c.una /\ p.ack <= c.max /\ p.win # s.wnd ->
                      [done |-> FALSE, c |-> upd]
                 [] p.ack = c.una /\ p.ack <= c.max /\ p.win = s.wnd ->
                      IF ~s.rexmt THEN [done |-> FALSE, c |-> idle]
                      ELSE IF dup.dupacks = RexmtThresh
                      THEN [done |-> TRUE, c |-> fast]
                      ELSE IF dup.dupacks > RexmtThresh
                      THEN [done |-> TRUE, c |-> more]
                      ELSE [done |-> FALSE, c |-> again]
                 [] p.ack > c.una /\ p.ack <= c.max -> [done |-> FALSE, c |-> new]
  <2>1. HandleAck(c, p, u) = full
    BY <1>9, <1>10, <1>13 DEF HandleAck, s
  <2> HIDE DEF err, upd, idle, fast, more, again, new, d
  <2>2. d = full.c
    BY <2>1 DEF d
  <2>3. CASE p.ack < c.una
    BY <2>2, <2>3
  <2>4. CASE p.ack > c.max /\ ~(p.ack < c.una)
    BY <2>2, <2>4
  <2>5. CASE p.ack = c.una /\ p.ack <= c.max
    <3>1. ~(p.ack < c.una) /\ ~(p.ack > c.max)
      BY <1>1, <2>5
    <3> QED BY <2>2, <2>5, <3>1
  <2>6. CASE p.ack > c.una /\ p.ack <= c.max
    <3>1. ~(p.ack < c.una) /\ ~(p.ack > c.max) /\ p.ack # c.una
      BY <1>1, <2>6
    <3> QED BY <2>2, <2>6, <3>1
  <2> QED BY <1>1, <2>3, <2>4, <2>5, <2>6
<1> HIDE DEF d
<1>15. Leads(c, c, P)
  BY LeadsSelf
<1>16. Leads(c, err, P)
  <2> DEFINE a == WithErr(c, "malformed_packet")
             fs == {"NOTIFY_DROP", "NEED_RESET"}
  <2>1. "malformed_packet" \in Errs /\ "malformed_packet" # "none"
    BY DEF Errs
  <2>2. Leads(c, a, P) /\ a.err = "malformed_packet" /\ a.st = c.st
    BY <2>1, ErrKeeps
  <2>3. err = On(a, fs)
    BY DEF WithErr
  <2> HIDE DEF a, err
  <2>4. fs \in SUBSET (CbFlags \ {"SENTFIN"}) /\ fs \subseteq {"NOTIFY_DROP", "NEED_RESET"}
    BY DEF CbFlags
  <2> HIDE DEF fs
  <2>5. Leads(a, err, P)
    BY <2>2, <2>3, <2>4, OnLeads DEF Leads
  <2> QED BY <1>1, <2>2, <2>5, LeadsTrans
<1>17. /\ {"NEED_OUTPUT"} \in SUBSET (CbFlags \ {"SENTFIN", "NOTIFY_DROP"})
       /\ {"NOTIFY_WRITE", "NEED_OUTPUT"} \in SUBSET (CbFlags \ {"SENTFIN", "NOTIFY_DROP"})
  BY DEF CbFlags
<1>18. \A x, y : /\ Leads(x, y, P) /\ Good(x, P) /\ (Wide(c) => Wide(x)) /\ x.max = c.max
                 /\ x.r.nxt = c.r.nxt /\ y.r.nxt = x.r.nxt /\ y.una >= 1
                 => Ends_(y)
  BY DEF Leads
<1>19. \A x : Leads(s, x, P) => Good(x, P) /\ (Wide(c) => Wide(x))
  BY <1>3 DEF Leads
<1>20. CASE p.ack = c.una
  <2>1. Leads(c, upd, P)
    <3>1. Leads(e1, upd, P) /\ upd.una = e1.una /\ upd.r = e1.r
      BY <1>3, <1>7, <1>17, <1>19, ResetAfter
    <3> HIDE DEF upd
    <3> QED BY <1>1, <1>2, <1>3, <1>7, <1>18, <1>19, <1>20, <3>1
  <2>2. Leads(c, idle, P)
    <3>1. Leads(e2, idle, P) /\ idle.una = e2.una /\ idle.r = e2.r
      BY <1>3, <1>8, <1>17, <1>19, ResetAfter
    <3> HIDE DEF idle
    <3> QED BY <1>1, <1>2, <1>3, <1>8, <1>18, <1>19, <1>20, <3>1
  <2>3. Leads(c, more, P)
    <3>1. Leads(dup, more, P) /\ more.una = dup.una /\ more.r = dup.r
      BY <1>3, <1>6, <1>17, <1>19, ResetAfter
    <3> HIDE DEF more
    <3> QED BY <1>1, <1>2, <1>3, <1>6, <1>18, <1>19, <1>20, <3>1
  <2>4. Leads(c, again, P)
    <3>1. Leads(dup, again, P) /\ again.una = dup.una /\ again.r = dup.r
      BY <1>3, <1>6, <1>17, <1>19, ResetAfter
    <3> HIDE DEF again
    <3> QED BY <1>1, <1>2, <1>3, <1>6, <1>18, <1>19, <1>20, <3>1
  <2>5. Leads(c, fast, P)
    <3>1. Good(e3, P) /\ (Wide(c) => Wide(e3)) /\ e3.una = c.una /\ e3.r = c.r /\ e3.max = c.max
      BY <1>3, <1>6, <1>12, <1>19 DEF Leads
    <3>2. ~Unopened(e3)
      BY <3>1, CountedSyn
    <3>3. fast = DoFastRexmt(e3, e3.una, u)
      BY <1>20, <3>1
    <3> HIDE DEF fast
    <3>4. Leads(e3, fast, P) /\ fast.una = e3.una /\ fast.r.nxt = e3.r.nxt
      BY <3>1, <3>2, <3>3, DoFastRexmtKeeps
    <3> QED BY <1>1, <1>2, <1>18, <1>20, <3>1, <3>4
  <2> QED BY <1>14, <1>15, <1>16, <1>20, <2>1, <2>2, <2>3, <2>4, <2>5, <1>1 DEF d
<1>21. CASE p.ack # c.una
  <2>1. CASE p.ack > c.una /\ p.ack <= c.max
    <3>1. Leads(s, g, P) /\ Same(s, g) /\ g.flags = s.flags
      BY <1>3, IncrCwndKeeps
    <3> HIDE DEF g
    <3>2. g \in Cb /\ g.wnd \in Nat /\ g.rtt \in BOOLEAN /\ Good(g, P) /\ 0 \in Nat
      BY <3>1 DEF Leads, Good, Kept, Cb
    <3>3. h = Noted(g, g.wnd, 0, g.rtt)
      BY <3>2 DEF Noted, Cb
    <3> HIDE DEF h
    <3> DEFINE z == 0
    <3>40. z \in Nat /\ h = Noted(g, g.wnd, z, g.rtt)
      BY <3>3
    <3> HIDE DEF z
    <3>4. /\ Leads(g, h, P) /\ h.flags = g.flags /\ h.una = g.una /\ h.max = g.max
          /\ h.st = g.st /\ h.r = g.r
      BY <3>2, <3>40, NotedKeeps
    <3>5. /\ Good(h, P) /\ h.una = c.una /\ h.max = c.max /\ h.r.nxt = c.r.nxt
          /\ (Wide(c) => Wide(h)) /\ (p.ack = c.max => ~("SENTFIN" \in h.flags /\ h.st \in Finishing))
      BY <1>3, <3>1, <3>4 DEF Leads, Same
    <3>6. ~Unopened(h)
      BY <3>5, CountedSyn
    <3>7. Leads(h, k, P) /\ Steady(h, k) /\ k.una = p.ack
      <4>1. h.una < p.ack /\ p.ack <= h.max
            /\ (p.ack < h.max \/ ~("SENTFIN" \in h.flags /\ h.st \in Finishing))
        BY <1>1, <2>1, <3>5
      <4> QED BY <1>1, <3>5, <3>6, <4>1, DropAckedDataKeeps
    <3> HIDE DEF k
    <3>8. k \in Cb /\ k.dupacks \in Nat /\ k.rtt \in BOOLEAN /\ Good(k, P)
      BY <3>7 DEF Leads, Good, Kept, Cb
    <3>9. l = Noted(k, p.win, k.dupacks, k.rtt)
      BY <3>8 DEF Noted, Cb
    <3> HIDE DEF l
    <3>10. Leads(k, l, P) /\ l.una = k.una /\ l.r = k.r /\ l.max = k.max
      BY <1>1, <3>8, <3>9, NotedKeeps
    <3>11. /\ Good(l, P) /\ l.una = p.ack /\ l.r.nxt = c.r.nxt /\ l.max = c.max
           /\ (Wide(c) => Wide(l))
      BY <3>5, <3>7, <3>10 DEF Leads, Steady
    <3>12. Leads(l, new, P) /\ new.una = l.una /\ new.r = l.r
      BY <1>17, <3>11, ResetAfter
    <3> HIDE DEF new
    <3>13. Leads(c, new, P)
      BY <1>1, <1>2, <1>18, <3>11, <3>12
    <3> QED BY <1>14, <1>15, <1>16, <1>21, <3>13 DEF d
  <2>2. CASE ~(p.ack > c.una /\ p.ack <= c.max)
    BY <1>14, <1>15, <1>16, <1>21, <2>2 DEF d
  <2> QED BY <2>1, <2>2
<1> QED BY <1>20, <1>21

\* A datagram stays one the peer may have sent while an end goes on.
LEMMA SoundLeads ==
  ASSUME NEW P \in Peers, NEW c \in Cb, NEW d, Leads(c, d, P), NEW p \in Datagram,
         Sound(p, P, View(c))
  PROVE  Sound(p, P, View(d))
<1>1. d \in Cb /\ c.max <= d.max /\ (c.r.nxt >= 1 => d.r.nxt >= 1)
  BY DEF Leads, Good, Kept
<1>2. View(c) \in Peers /\ View(d) \in Peers
  BY <1>1 DEF Cb, Half, View, Peers
<1>3. /\ View(c).max <= View(d).max /\ (View(c).rcv >= 1 => View(d).rcv >= 1)
      /\ P.max <= P.max
  BY <1>1 DEF View, Peers
<1> QED BY <1>2, <1>3, SoundGrows

\* handle_ack and handle_fin, in this order.
LEMMA InputAckKeeps ==
  ASSUME NEW P \in Peers, NEW c, Good(c, P), c.r.nxt >= 1, NEW p \in Datagram, NEW u \in Inputs,
         Sound(p, P, View(c)), "RST" \notin p.flags
  PROVE  Leads(c, InputAck(c, p, u), P)
<1> DEFINE a == IF "ACK" \in p.flags THEN HandleAck(c, p, u) ELSE [c |-> c, done |-> FALSE]
           d == InputAck(c, p, u)
<1>1. Leads(c, a.c, P)
  <2>1. CASE "ACK" \in p.flags
    BY <2>1, HandleAckKeeps
  <2>2. CASE "ACK" \notin p.flags
    <3>1. a.c = c
      BY <2>2
    <3> QED BY <3>1, LeadsSelf
  <2> QED BY <2>1, <2>2
<1>2. d = a.c \/ d = HandleFin(a.c)
  BY DEF InputAck, FinishInput
<1> HIDE DEF a, d
<1>3. CASE d = HandleFin(a.c)
  <2>1. Good(a.c, P) /\ a.c.r.nxt >= 1 /\ c \in Cb
    BY <1>1 DEF Leads, Good, Kept
  <2>2. Leads(a.c, d, P)
    BY <1>3, <2>1, HandleFinKeeps
  <2> QED BY <1>1, <2>1, <2>2, LeadsTrans DEF d
<1> QED BY <1>1, <1>2, <1>3 DEF d

\* The slow path of input().
LEMMA InputSegmentKeeps ==
  ASSUME NEW P \in Peers, NEW c, Good(c, P), c.r.nxt >= 1, NEW p \in Datagram, NEW u \in Inputs,
         Sound(p, P, View(c)), "RST" \notin p.flags
  PROVE  Leads(c, InputSegment(c, p, u), P)
<1> DEFINE syn == "SYN" \in p.flags
           seq == IF syn THEN p.seq + 1 ELSE p.seq
           busy == p.len > 0 \/ syn \/ "FIN" \in p.flags
           x == IF busy THEN TcpReassemble(c, p, seq) ELSE c
           d == InputSegment(c, p, u)
<1>1. c \in Cb /\ p.len \in Nat /\ P.max \in Nat
  BY DEF Good, Kept, Datagram, Peers
<1>2. d = InputAck(x, p, u)
  BY DEF InputSegment
<1>3. Leads(c, x, P)
  <2>1. CASE busy
    <3>1. p.seq \in Nat /\ p.seq + p.len + (IF syn THEN 1 ELSE 0) <= P.max
      BY <2>1 DEF Sound
    <3>2. seq \in Nat /\ seq + p.len <= P.max
      BY <1>1, <3>1
    <3> HIDE DEF seq
    <3>3. Leads(c, TcpReassemble(c, p, seq), P)
      BY <3>2, TcpReassembleKeeps
    <3> QED BY <2>1, <3>3
  <2>2. CASE ~busy
    <3>1. x = c
      BY <2>2
    <3> QED BY <3>1, LeadsSelf
  <2> QED BY <2>1, <2>2
<1> HIDE DEF x, d
<1>4. Good(x, P) /\ x.r.nxt >= 1 /\ Sound(p, P, View(x))
  BY <1>1, <1>3, SoundLeads DEF Leads
<1>5. Leads(x, d, P)
  BY <1>2, <1>4, InputAckKeeps
<1> QED BY <1>1, <1>3, <1>5, LeadsTrans DEF d

\* input(), do_header_prediction: an acknowledgement and nothing else.
LEMMA HandlePredictedAckKeeps ==
  ASSUME NEW P \in Peers, NEW c, Good(c, P), NEW p \in Datagram, PredictedAck(c, p),
         NEW u \in Inputs
  PROVE  Leads(c, HandlePredictedAck(c, p, u), P)
<1> DEFINE a == DropAckedData(c, p.ack)
           b == ResetRexmtTimer(a)
           e == On(b, {"NOTIFY_WRITE"})
           d == HandlePredictedAck(c, p, u)
<1>1. /\ c \in Cb /\ p.ack \in Nat /\ c.una \in Nat /\ c.una < p.ack /\ p.ack <= c.max
      /\ c.st = "ESTABLISHED" /\ c.st \notin Finishing
  BY CbNumbers DEF Good, Kept, Datagram, PredictedAck, Predicted, Finishing
<1>2. ~Unopened(c)
  BY <1>1 DEF Unopened
<1>3. Leads(c, a, P) /\ Steady(c, a) /\ a.una = p.ack
  BY <1>1, <1>2, DropAckedDataKeeps
<1>4. d = e \/ d = Output(e, u)
  BY DEF HandlePredictedAck
<1> HIDE DEF a
<1>5. Good(a, P) /\ a.st = "ESTABLISHED" /\ ~Unopened(a)
  BY <1>1, <1>3 DEF Leads, Steady, Unopened
<1>6. Leads(a, b, P) /\ Steady(a, b)
  BY <1>5, ResetRexmtTimerKeeps
<1> HIDE DEF b
<1>7. Good(b, P) /\ b.st = "ESTABLISHED" /\ ~Unopened(b)
  BY <1>5, <1>6 DEF Leads, Steady, Unopened
<1>8. Leads(b, e, P) /\ Still(b, e)
  <2>1. {"NOTIFY_WRITE"} \in SUBSET (CbFlags \ {"SENTFIN"}) /\ "NOTIFY_DROP" \notin {"NOTIFY_WRITE"}
    BY DEF CbFlags
  <2> QED BY <1>7, <2>1, OnLeads
<1> HIDE DEF e, d
<1>9. Good(e, P) /\ e.st # "LISTEN"
  BY <1>7, <1>8 DEF Leads, Still
<1>10. Leads(e, Output(e, u), P)
  BY <1>9, OutputKeeps
<1>11. Leads(e, d, P)
  BY <1>4, <1>9, <1>10, LeadsSelf
<1>12. Leads(c, b, P)
  BY <1>1, <1>3, <1>6, LeadsTrans
<1>13. Leads(c, e, P)
  BY <1>1, <1>8, <1>12, LeadsTrans
<1> QED BY <1>1, <1>11, <1>13, LeadsTrans DEF d

\* The step of input() before commit_notifies.
Handled(d, p, u) ==
  CASE d.st = "CLOSED" ->
         IF "RST" \in p.flags THEN d
         ELSE On([d EXCEPT !.err = "connection_reset"], {"NOTIFY_DROP", "NEED_RESET"})
    [] d.st # "CLOSED" /\ "RST" \in p.flags ->
         On([d EXCEPT !.err = "connection_reset"], {"NOTIFY_DROP"})
    [] d.st # "CLOSED" /\ "RST" \notin p.flags ->
         IF OutOfWindow(d.r, p.seq, p.len, "SYN" \in p.flags) THEN On(d, {"ACKNOW"})
         ELSE IF PredictedAck(d, p) THEN HandlePredictedAck(d, p, u)
         ELSE IF PredictedData(d, p)
         THEN On([d EXCEPT !.r = AppendPkt(@, Piece(p, p.seq))], {"DELACK", "NOTIFY_READ"})
         ELSE IF "SYN" \in p.flags /\ ~SynExpected(d) THEN HandleSyn(d, p)
         ELSE InputSegment(IF "SYN" \in p.flags THEN HandleSyn(d, p) ELSE d, p, u)

\* In LISTEN nothing that may come is out of the window.
LEMMA OutOpened ==
  ASSUME NEW P \in Peers, NEW c, Good(c, P), c.st # "CLOSED", NEW p \in Datagram,
         Sound(p, P, View(c)), "RST" \notin p.flags,
         OutOfWindow(c.r, p.seq, p.len, "SYN" \in p.flags)
  PROVE  ~Unopened(c)
<1> SUFFICES ASSUME Unopened(c) PROVE FALSE
  OBVIOUS
<1>1. c \in Cb /\ c.r.nxt \in Nat /\ c.r \in Half /\ p.len \in Nat
  BY CountedSyn DEF Good, Kept, Cb, Datagram
<1>2. "SYN" \in p.flags /\ p.seq = 0 /\ p.len = 0 /\ c.r.nxt = 0
  BY <1>1, CountedSyn DEF Sound, View
<1> DEFINE top == Greatest(Greatest(Acc(c.r), 0), c.r.adv - c.r.nxt)
<1>3. top >= 0 /\ top \in Int
  <2>1. Acc(c.r) \in Int /\ c.r.adv - c.r.nxt \in Int
    BY <1>1, LenProperties, RcvBufAssumption DEF Acc, Half
  <2> QED BY <2>1 DEF Greatest
<1>4. 0 - 0 - 1 > 0 \/ 0 + 0 > 0 + top
  BY <1>2 DEF OutOfWindow
<1> HIDE DEF top
<1> QED BY <1>3, <1>4

\* A datagram that may come is handled: in LISTEN it is a SYN in the window or a
\* reset, in SYN_SENT one of these or a SYN|ACK.
LEMMA HandledKeeps ==
  ASSUME NEW P \in Peers, NEW c, Good(c, P), NEW p \in Datagram, NEW u \in Inputs,
         Sound(p, P, View(c))
  PROVE  Leads(c, Handled(c, p, u), P)
<1> DEFINE d == Handled(c, p, u)
           reset == WithErr(c, "connection_reset")
           syn == "SYN" \in p.flags
<1>1. /\ c \in Cb /\ c.r.nxt \in Nat /\ c.r \in Half /\ p.len \in Nat /\ p.flags \subseteq
         {"SYN", "FIN", "RST", "ACK"}
  BY CountedSyn DEF Good, Kept, Cb, Datagram
<1>2. Leads(c, c, P)
  BY LeadsSelf
<1>3. Leads(c, reset, P) /\ reset.err = "connection_reset"
  <2>1. "connection_reset" \in Errs /\ "connection_reset" # "none"
    BY DEF Errs
  <2> QED BY <2>1, ErrKeeps
<1>4. \A fs \in SUBSET {"NOTIFY_DROP", "NEED_RESET"} : Leads(c, On(reset, fs), P)
  <2> TAKE fs \in SUBSET {"NOTIFY_DROP", "NEED_RESET"}
  <2>1. fs \in SUBSET (CbFlags \ {"SENTFIN"}) /\ fs \subseteq {"NOTIFY_DROP", "NEED_RESET"}
    BY DEF CbFlags
  <2> HIDE DEF reset
  <2>2. Leads(reset, On(reset, fs), P)
    BY <1>3, <2>1, OnLeads DEF Leads
  <2> QED BY <1>1, <1>3, <2>2, LeadsTrans
<1>5. CASE c.st = "CLOSED"
  <2>1. d = c \/ d = On(reset, {"NOTIFY_DROP", "NEED_RESET"})
    BY <1>5 DEF Handled, WithErr
  <2> HIDE DEF d, reset
  <2> QED BY <1>2, <1>4, <2>1 DEF d
<1>6. CASE c.st # "CLOSED" /\ "RST" \in p.flags
  <2>1. d = On(reset, {"NOTIFY_DROP"})
    BY <1>6 DEF Handled, WithErr
  <2> HIDE DEF d, reset
  <2> QED BY <1>4, <2>1 DEF d
<1>7. CASE c.st # "CLOSED" /\ "RST" \notin p.flags
  <2> DEFINE r == AppendPkt(c.r, Piece(p, p.seq))
             a == [c EXCEPT !.r = r]
             b == On(a, {"DELACK", "NOTIFY_READ"})
             h == HandleSyn(c, p)
             s == IF syn THEN h ELSE c
  <2>1. \/ OutOfWindow(c.r, p.seq, p.len, syn) /\ d = On(c, {"ACKNOW"})
        \/ PredictedAck(c, p) /\ d = HandlePredictedAck(c, p, u)
        \/ PredictedData(c, p) /\ d = b
        \/ syn /\ ~SynExpected(c) /\ d = h
        \/ (syn => SynExpected(c)) /\ d = InputSegment(s, p, u)
    BY <1>7 DEF Handled
  <2> HIDE DEF d
  <2>2. ~syn => c.r.nxt >= 1
    BY <1>1, <1>7 DEF Sound, View
  <2>3. ~syn => ~Unopened(c)
    BY <2>2, CountedSyn
  <2>4. CASE OutOfWindow(c.r, p.seq, p.len, syn) /\ d = On(c, {"ACKNOW"})
    <3>1. ~Unopened(c)
      BY <1>7, <2>4, OutOpened
    <3>2. {"ACKNOW"} \in SUBSET (CbFlags \ {"SENTFIN"}) /\ "NOTIFY_DROP" \notin {"ACKNOW"}
      BY DEF CbFlags
    <3> QED BY <2>4, <3>1, <3>2, OnLeads DEF d
  <2>5. CASE PredictedAck(c, p) /\ d = HandlePredictedAck(c, p, u)
    BY <2>5, HandlePredictedAckKeeps DEF d
  <2>6. CASE PredictedData(c, p) /\ d = b
    <3>1. c.r.nxt >= 1 /\ p.len > 0 /\ c.st = "ESTABLISHED"
      BY <2>6, CountedSyn DEF PredictedData, Predicted
    <3>2. Piece(p, p.seq) \in Packet
      BY <3>1 DEF Sound, Piece, Packet, Datagram
    <3>3. Receives(r, P.max) /\ r.nxt >= c.r.nxt
      BY <3>2, HalfReceives, AppendPktHalf
    <3> HIDE DEF r
    <3>4. /\ Leads(c, a, P) /\ a.flags = c.flags /\ a.st = c.st
      BY <3>1, <3>3, HalfKeeps
    <3> HIDE DEF a
    <3>5. ~Unopened(a) /\ Good(a, P)
      BY <3>1, <3>4 DEF Unopened, Leads
    <3>6. /\ {"DELACK", "NOTIFY_READ"} \in SUBSET (CbFlags \ {"SENTFIN"})
          /\ "NOTIFY_DROP" \notin {"DELACK", "NOTIFY_READ"}
      BY DEF CbFlags
    <3>7. Leads(a, b, P)
      BY <3>5, <3>6, OnLeads
    <3> HIDE DEF b
    <3>8. Leads(c, b, P)
      BY <1>1, <3>4, <3>7, LeadsTrans
    <3> QED BY <2>6, <3>8 DEF d
  <2>7. CASE syn /\ ~SynExpected(c) /\ d = h
    BY <1>7, <2>7, HandleSynKeeps DEF d
  <2>8. CASE (syn => SynExpected(c)) /\ d = InputSegment(s, p, u)
    <3>1. Leads(c, s, P) /\ s.r.nxt >= 1
      <4>1. CASE syn
        <5>1. Leads(c, h, P) /\ h.r.nxt >= 1
          BY <1>7, <2>8, <4>1, HandleSynKeeps
        <5>2. s = h
          BY <4>1
        <5> HIDE DEF h, s
        <5> QED BY <5>1, <5>2
      <4>2. CASE ~syn
        BY <1>2, <2>2, <4>2
      <4> QED BY <4>1, <4>2
    <3> HIDE DEF s
    <3>2. Good(s, P) /\ Sound(p, P, View(s))
      BY <1>1, <3>1, SoundLeads DEF Leads
    <3>3. Leads(s, d, P)
      BY <1>7, <2>8, <3>1, <3>2, InputSegmentKeeps
    <3> QED BY <1>1, <3>1, <3>3, LeadsTrans DEF d
  <2> QED BY <2>1, <2>4, <2>5, <2>6, <2>7, <2>8
<1> QED BY <1>5, <1>6, <1>7

\* input().
LEMMA InputKeeps ==
  ASSUME NEW P \in Peers, NEW c, Good(c, P), NEW p \in Datagram, NEW u \in Inputs,
         Sound(p, P, View(c))
  PROVE  Leads(c, Input(c, p, u), P)
<1> DEFINE a == [c EXCEPT !.pseq = p.seq, !.keep = TRUE]
           b == UpdateRtt(a, p.pseq)
           e == Handled(b, p, u)
           d == Input(c, p, u)
<1>1. c \in Cb /\ p.seq \in Int
  BY DEF Good, Kept, Datagram
<1>2. a \in Cb
  BY <1>1 DEF Cb
<1>3. /\ a.flags = c.flags /\ a.rexmt = c.rexmt /\ a.cwnd = c.cwnd
      /\ a.r = c.r /\ a.bad = c.bad /\ a.persist = c.persist /\ a.out = c.out /\ a.ops = c.ops
  BY <1>1 DEF Cb
<1>4. /\ a.st = c.st /\ a.err = c.err /\ a.una = c.una /\ a.nxt = c.nxt /\ a.max = c.max
      /\ a.fack = c.fack /\ a.retrans = c.retrans /\ a.sb = c.sb /\ a.sbseq = c.sbseq
      /\ a.up = c.up /\ a.told = c.told
  BY <1>1 DEF Cb
<1>5. d = CommitNotifies(e, u)
  BY DEF Input, Handled
<1> HIDE DEF a, d
<1>6. Leads(c, a, P)
  <2>1. Same(c, a)
    BY <1>3, <1>4 DEF Same
  <2> QED BY <1>2, <1>3, <2>1, SameGood
<1>7. Leads(a, b, P)
  BY <1>6, UpdateRttKeeps DEF Leads
<1> HIDE DEF b
<1>8. Leads(c, b, P)
  BY <1>1, <1>6, <1>7, LeadsTrans
<1>9. Leads(b, e, P)
  BY <1>1, <1>8, SoundLeads, HandledKeeps DEF Leads
<1> HIDE DEF e
<1>10. Leads(c, e, P)
  BY <1>1, <1>8, <1>9, LeadsTrans
<1>11. Leads(e, d, P)
  BY <1>5, <1>10, CommitNotifiesKeeps DEF Leads
<1> QED BY <1>1, <1>10, <1>11, LeadsTrans DEF d

----------------------------------------------------------------------------
(* Timers. *)

\* clear_snd_buf_flags: no packet of the send buffer is marked any more, and
\* m_retrans_data is 0.
Unmark(p, n) == IF p.seq < n THEN [p EXCEPT !.rx = FALSE] ELSE p
ClearMarks(c) == [c EXCEPT !.sb = {Unmark(p, c.max) : p \in @}, !.retrans = 0]
(* Taking the marks off the send buffer keeps the invariant. *)
LEMMA ClearMarksKeeps ==
  ASSUME NEW P \in Peers, NEW c, Good(c, P), ~Unopened(c)
  PROVE  LET d == ClearMarks(c)
         IN  /\ Leads(c, d, P) /\ Steady(c, d) /\ d.nxt = c.nxt
             /\ \A p \in c.sb : \E q \in d.sb : q.seq = p.seq /\ q.len = p.len
             /\ \A q \in d.sb : \E p \in c.sb : q.seq = p.seq /\ q.len = p.len
<1> DEFINE sb == {Unmark(p, c.max) : p \in c.sb}
           none == 0
           d == ClearMarks(c)
<1>1. /\ c \in Cb /\ c.sb \in SUBSET Pkt /\ c.max \in Nat /\ c.una \in Nat
      /\ none \in Int
  BY CbNumbers DEF Good, Kept
<1>2. d = [c EXCEPT !.sb = sb, !.retrans = none]
  BY DEF ClearMarks
<1>3. \A p \in c.sb : LET o == Unmark(p, c.max)
                      IN  o \in Pkt /\ o.seq = p.seq /\ o.len = p.len /\ o.rx = FALSE
  <2> TAKE p \in c.sb
  <2>1. p \in Pkt /\ (p.rx => p.seq < c.max) /\ p.rx \in BOOLEAN
    BY <1>1 DEF Good, Kept, Buffered, Pkt
  <2> QED BY <2>1 DEF Pkt, Unmark
<1>4. /\ sb \in SUBSET Pkt
      /\ \A o \in sb : \E p \in c.sb : o = Unmark(p, c.max) /\ o.seq = p.seq /\ o.len = p.len
      /\ \A o \in sb : o.rx = FALSE
      /\ c.sb = {} => sb = {}
  BY <1>3
<1>5. \A p, o \in sb : p.seq = o.seq => p = o
  <2> TAKE p, o \in sb
  <2>1. PICK x \in c.sb : p = Unmark(x, c.max) /\ p.seq = x.seq
    BY <1>4
  <2>2. PICK y \in c.sb : o = Unmark(y, c.max) /\ o.seq = y.seq
    BY <1>4
  <2> QED BY <2>1, <2>2 DEF Good, Kept, Buffered
<1>6. Marked(sb) = {}
  BY <1>4 DEF Marked
<1>7. \A o \in sb : o.seq + o.len <= c.sbseq
  BY <1>4 DEF Good, Kept, Buffered
<1>8. none = SumLen(Marked(sb))
  BY <1>6, SumLenEmpty
<1> HIDE DEF d, sb, none
<1>9. d \in Cb
  BY ZenonT(40), <1>1, <1>2, <1>4 DEF Cb
<1>10. /\ d.sb = sb /\ d.retrans = none
       /\ d.st = c.st /\ d.err = c.err /\ d.una = c.una /\ d.nxt = c.nxt /\ d.max = c.max
       /\ d.fack = c.fack /\ d.up = c.up /\ d.cwnd = c.cwnd
  BY <1>1, <1>2 DEF Cb
<1>11. /\ d.sbseq = c.sbseq /\ d.ops = c.ops /\ d.r = c.r /\ d.out = c.out
       /\ d.flags = c.flags /\ d.bad = c.bad /\ d.persist = c.persist /\ d.rexmt = c.rexmt
       /\ d.told = c.told
  BY <1>1, <1>2 DEF Cb
<1>12. Steady(c, d)
  BY <1>1, <1>4, <1>10, <1>11 DEF Steady
<1>13. Buffered(d)
  BY <1>4, <1>5, <1>7, <1>8, <1>10, <1>11 DEF Buffered
<1>14. /\ d.una <= d.nxt /\ d.nxt <= d.max /\ d.una <= d.fack /\ d.fack <= d.max
       /\ ~(d.rexmt /\ d.persist)
  BY <1>10, <1>11 DEF Good, Kept
<1>15. Leads(c, d, P)
  BY <1>9, <1>10, <1>12, <1>13, <1>14, SteadyGood DEF Wide
<1>16. \A p \in c.sb : \E q \in d.sb : q.seq = p.seq /\ q.len = p.len
  BY <1>3, <1>10 DEF sb
<1> QED BY <1>4, <1>10, <1>12, <1>15, <1>16 DEF d

\* TCPT_REXMT: everything is sent again from snd_una.
BackToUna(c) ==
  [c EXCEPT !.shift = @ + 1, !.rexmt = TRUE, !.rtt = FALSE, !.nxt = c.una, !.fack = c.una]
(* Going back to m_snd_una keeps the invariant. *)
LEMMA BackToUnaKeeps ==
  ASSUME NEW P \in Peers, NEW c, Good(c, P), ~Unopened(c), c.rexmt, c.shift + 1 <= MaxRxtShift
  PROVE  LET d == BackToUna(c)
         IN  Leads(c, d, P) /\ Steady(c, d) /\ d.sb = c.sb
<1> DEFINE n == c.una
           k == c.shift + 1
           b == [c EXCEPT !.shift = k, !.rexmt = TRUE, !.rtt = FALSE]
           d == BackToUna(c)
<1>1. /\ c \in Cb /\ c.una \in Nat /\ c.nxt \in Nat /\ c.fack \in Nat /\ c.max \in Nat
      /\ c.una <= c.nxt /\ c.nxt <= c.max /\ ~c.persist
  BY CbNumbers DEF Good, Kept
<1>2. k \in 0 .. MaxRxtShift
  BY <1>1, CbNumbers, CbAssumption
<1>3. d = [b EXCEPT !.nxt = n, !.fack = n]
  BY <1>1 DEF BackToUna, Cb
<1> HIDE DEF k, n, d
<1>4. b \in Cb
  BY ZenonT(40), <1>1, <1>2 DEF Cb
<1>5. /\ b.st = c.st /\ b.err = c.err /\ b.una = c.una /\ b.max = c.max
      /\ b.up = c.up /\ b.cwnd = c.cwnd /\ b.sb = c.sb /\ b.retrans = c.retrans
      /\ b.persist = c.persist
  BY <1>1 DEF Cb
<1>6. /\ b.sbseq = c.sbseq /\ b.ops = c.ops /\ b.r = c.r /\ b.out = c.out
      /\ b.flags = c.flags /\ b.bad = c.bad /\ b.told = c.told
  BY <1>1 DEF Cb
<1> HIDE DEF b
<1>7. n \in Nat /\ n = c.una
  BY <1>1 DEF n
<1>8. d \in Cb
  BY ZenonT(40), <1>3, <1>4, <1>7 DEF Cb
<1>9. /\ d.st = b.st /\ d.err = b.err /\ d.una = b.una /\ d.nxt = n /\ d.max = b.max
      /\ d.fack = n /\ d.up = b.up /\ d.cwnd = b.cwnd /\ d.sb = b.sb /\ d.retrans = b.retrans
  BY <1>3, <1>4 DEF Cb
<1>10. /\ d.sbseq = b.sbseq /\ d.ops = b.ops /\ d.r = b.r /\ d.out = b.out
       /\ d.flags = b.flags /\ d.bad = b.bad /\ d.persist = b.persist /\ d.told = b.told
  BY <1>3, <1>4 DEF Cb
<1>11. Steady(c, d)
  BY <1>1, <1>5, <1>6, <1>9, <1>10 DEF Steady
<1>12. Buffered(d)
  BY <1>5, <1>6, <1>9, <1>10 DEF Good, Kept, Buffered
<1>13. /\ d.una <= d.nxt /\ d.nxt <= d.max /\ d.una <= d.fack /\ d.fack <= d.max
       /\ ~(d.rexmt /\ d.persist)
  BY <1>1, <1>5, <1>7, <1>9, <1>10
<1>14. Leads(c, d, P)
  BY <1>5, <1>8, <1>9, <1>11, <1>12, <1>13, SteadyGood DEF Wide
<1> QED BY <1>5, <1>9, <1>11, <1>14 DEF d

\* A timer that stops, or counts to another number.
Stopped(c, k, x, y, z) ==
  [c EXCEPT !.shift = k, !.rexmt = x, !.keep = y, !.msl = z]
(* Another retransmission count and other timers keep the invariant. *)
LEMMA StoppedKeeps ==
  ASSUME NEW P \in Peers, NEW c, Good(c, P), NEW k \in 0 .. MaxRxtShift,
         NEW x \in BOOLEAN, x => c.rexmt, NEW y \in BOOLEAN, NEW z \in BOOLEAN,
         NEW d, d = Stopped(c, k, x, y, z)
  PROVE  Leads(c, d, P) /\ Still(c, d) /\ d.flags = c.flags /\ d.r = c.r /\ d.max = c.max
<1> DEFINE b == [c EXCEPT !.shift = k, !.rexmt = x]
<1>1. c \in Cb /\ c.max \in Nat
  BY CbNumbers DEF Good, Kept
<1>2. d = [b EXCEPT !.keep = y, !.msl = z]
  BY <1>1 DEF Stopped, Cb
<1>3. b \in Cb
  BY ZenonT(40), <1>1 DEF Cb
<1>4. /\ b.st = c.st /\ b.err = c.err /\ b.una = c.una /\ b.nxt = c.nxt /\ b.max = c.max
      /\ b.fack = c.fack /\ b.retrans = c.retrans /\ b.sb = c.sb /\ b.sbseq = c.sbseq
      /\ b.up = c.up
  BY <1>1 DEF Cb
<1>5. /\ b.flags = c.flags /\ b.rexmt = x /\ b.cwnd = c.cwnd /\ b.r = c.r /\ b.bad = c.bad
      /\ b.persist = c.persist /\ b.out = c.out /\ b.ops = c.ops
  BY <1>1 DEF Cb
<1> HIDE DEF b
<1>6. d \in Cb
  <2> DEFINE e == [b EXCEPT !.keep = y]
  <2>1. e \in Cb
    BY <1>3 DEF Cb
  <2>2. d = [e EXCEPT !.msl = z]
    BY <1>2
  <2> HIDE DEF e
  <2> QED BY ONLY ZenonT(40), <2>1, <2>2, z \in BOOLEAN DEF Cb
<1>7. /\ d.st = b.st /\ d.err = b.err /\ d.una = b.una /\ d.nxt = b.nxt /\ d.max = b.max
      /\ d.fack = b.fack /\ d.retrans = b.retrans /\ d.sb = b.sb /\ d.sbseq = b.sbseq
      /\ d.up = b.up
  BY <1>2, <1>3 DEF Cb
<1>8. /\ d.flags = b.flags /\ d.rexmt = b.rexmt /\ d.cwnd = b.cwnd /\ d.r = b.r /\ d.bad = b.bad
      /\ d.persist = b.persist /\ d.out = b.out /\ d.ops = b.ops
  BY <1>2, <1>3 DEF Cb
<1>9. Phased(d)
  BY <1>4, <1>5, <1>7, <1>8 DEF Good, Kept, Phased, Unopened, Fresh
<1>10. Opened(d, P) /\ Buffered(d) /\ Heard(d, P)
  BY <1>4, <1>5, <1>7, <1>8 DEF Good, Kept, Opened, Buffered, Heard, View
<1>11. /\ d.una <= d.nxt /\ d.una <= d.fack /\ d.fack <= d.max /\ d.nxt <= d.max
       /\ ~(d.rexmt /\ d.persist)
       /\ "enter_persist" \notin d.bad /\ "check_rexmt_data" \notin d.bad
  BY <1>4, <1>5, <1>7, <1>8 DEF Good, Kept
<1>12. Good(d, P)
  BY <1>6, <1>9, <1>10, <1>11 DEF Good, Kept
<1> QED BY <1>1, <1>4, <1>5, <1>7, <1>8, <1>12 DEF Leads, Still, Wide, Acked

\* An end whose retransmit or persist timer runs has been opened; one whose
\* persist timer runs has finished the handshake.
LEMMA TimerOpened ==
  ASSUME NEW P \in Peers, NEW c, Good(c, P)
  PROVE  /\ c.rexmt \/ c.persist \/ c.flags \cap {"DELACK"} # {} => ~Unopened(c)
         /\ c.persist => c.st \notin Handshaking /\ ~c.rexmt
BY DEF Good, Kept, Phased, Fresh

\* handle_slow_timo, TCPT_REXMT.
LEMMA RexmtTimeoutKeeps ==
  ASSUME NEW P \in Peers, NEW c, Good(c, P), c.rexmt, NEW u \in Inputs
  PROVE  Leads(c, RexmtTimeout(c, u), P)
<1>1. /\ c \in Cb /\ c.shift \in 0 .. MaxRxtShift /\ c.keep \in BOOLEAN /\ c.msl \in BOOLEAN
      /\ ~Unopened(c) /\ MaxRxtShift \in Nat /\ c.persist = FALSE
  BY TimerOpened, CbAssumption DEF Good, Kept, Cb
<1>2. CASE c.shift + 1 > MaxRxtShift
  <2> DEFINE a == [c EXCEPT !.rexmt = FALSE, !.shift = MaxRxtShift]
             d == Drop(a, "timed_out", u)
             no == FALSE
  <2>1. MaxRxtShift \in 0 .. MaxRxtShift /\ no \in BOOLEAN /\ ~no
    BY <1>1
  <2>2. a = Stopped(c, MaxRxtShift, no, c.keep, c.msl)
    BY <1>1 DEF Stopped, Cb
  <2>3. RexmtTimeout(c, u) = d
    BY <1>2 DEF RexmtTimeout
  <2> HIDE DEF a, d, no
  <2>4. Leads(c, a, P)
    BY <1>1, <2>1, <2>2, StoppedKeeps
  <2>5. Leads(a, d, P)
    BY <2>4, DropKeeps DEF Leads, d, Errs
  <2> QED BY <1>1, <2>3, <2>4, <2>5, LeadsTrans
<1>3. CASE ~(c.shift + 1 > MaxRxtShift)
  <2> DEFINE a == BackToUna(c)
             b == HandlePacketLost(a, u)
             e == ClearMarks(b)
             d == Output(e, u)
  <2>0. c.shift + 1 <= MaxRxtShift
    BY <1>1, <1>3
  <2>1. Leads(c, a, P) /\ Steady(c, a)
    BY <1>1, <2>0, BackToUnaKeeps
  <2>2. RexmtTimeout(c, u) = Output([b EXCEPT !.sb = {Unmark(p, c.max) : p \in b.sb},
                                              !.retrans = 0], u)
    BY <1>3 DEF RexmtTimeout, Unmark, BackToUna
  <2> HIDE DEF a
  <2>3. Leads(a, b, P) /\ Same(a, b)
    BY <2>1, HandlePacketLostKeeps DEF Leads
  <2> HIDE DEF b
  <2>4. b.max = c.max /\ ~Unopened(a) /\ ~Unopened(b)
    BY <1>1, <2>1, <2>3 DEF Steady, Same, Unopened
  <2>5. RexmtTimeout(c, u) = d
    BY <2>2, <2>4 DEF ClearMarks
  <2>6. Leads(b, e, P) /\ Steady(b, e)
    BY <2>3, <2>4, ClearMarksKeeps DEF Leads
  <2> HIDE DEF e, d
  <2>7. e.st # "LISTEN"
    BY <2>4, <2>6 DEF Steady, Unopened
  <2>8. Leads(e, d, P)
    BY <2>6, <2>7, OutputKeeps DEF Leads, d
  <2>9. Leads(c, b, P)
    BY <1>1, <2>1, <2>3, LeadsTrans
  <2>10. Leads(c, e, P)
    BY <1>1, <2>6, <2>9, LeadsTrans
  <2> QED BY <1>1, <2>5, <2>8, <2>10, LeadsTrans
<1> QED BY <1>2, <1>3

\* TCPT_PERSIST: the timer is set again before the window is probed.
PersistOff(c) == [c EXCEPT !.persist = FALSE]
(* Stopping the persist timer keeps the invariant. *)
LEMMA PersistOffKeeps ==
  ASSUME NEW P \in Peers, NEW c, Good(c, P), c.persist
  PROVE  LET d == PersistOff(c)
         IN  Leads(c, d, P) /\ Steady(c, d) /\ ~d.rexmt /\ d.sb = c.sb /\ d.nxt = c.nxt
<1> DEFINE d == PersistOff(c)
<1>1. c \in Cb /\ ~Unopened(c) /\ ~c.rexmt /\ c.una \in Nat
  BY TimerOpened, CbNumbers DEF Good, Kept
<1>2. d = [c EXCEPT !.persist = FALSE]
  BY DEF PersistOff
<1> HIDE DEF d
<1>3. d \in Cb
  BY ZenonT(40), <1>1, <1>2 DEF Cb
<1>4. /\ d.st = c.st /\ d.err = c.err /\ d.una = c.una /\ d.nxt = c.nxt /\ d.max = c.max
      /\ d.fack = c.fack /\ d.retrans = c.retrans /\ d.sb = c.sb /\ d.sbseq = c.sbseq
      /\ d.up = c.up /\ d.persist = FALSE
  BY <1>1, <1>2 DEF Cb
<1>5. /\ d.flags = c.flags /\ d.rexmt = c.rexmt /\ d.cwnd = c.cwnd /\ d.r = c.r /\ d.bad = c.bad
      /\ d.out = c.out /\ d.ops = c.ops /\ d.told = c.told /\ d.sbseq = c.sbseq
  BY <1>1, <1>2 DEF Cb
<1>6. Steady(c, d)
  BY <1>1, <1>4, <1>5 DEF Steady
<1>7. Buffered(d)
  BY <1>4, <1>5 DEF Good, Kept, Buffered
<1>8. /\ d.una <= d.nxt /\ d.nxt <= d.max /\ d.una <= d.fack /\ d.fack <= d.max
      /\ ~(d.rexmt /\ d.persist)
  BY <1>4, <1>5 DEF Good, Kept
<1>9. Leads(c, d, P)
  BY <1>1, <1>3, <1>4, <1>5, <1>6, <1>7, <1>8, SteadyGood DEF Wide
<1> QED BY <1>1, <1>4, <1>5, <1>6, <1>9 DEF d

(* handle_slow_timo, TCPT_PERSIST: the window is probed. *)
LEMMA PersistTimeoutKeeps ==
  ASSUME NEW P \in Peers, NEW c, Good(c, P), c.persist, NEW u \in Inputs
  PROVE  Leads(c, PersistTimeout(c, u), P)
<1> DEFINE a == PersistOff(c)
           b == EnterPersist(a)
           e == ValidateFirstPkt(b)
           v == [u EXCEPT !.force = TRUE]
           d == Output(e, v)
<1>1. c \in Cb /\ ~Unopened(c) /\ c.st \notin Handshaking
  BY TimerOpened DEF Good, Kept
<1>2. Leads(c, a, P) /\ Steady(c, a) /\ ~a.rexmt
  BY PersistOffKeeps
<1>3. PersistTimeout(c, u) = d
  BY DEF PersistTimeout, PersistOff
<1>4. v \in Inputs
  BY DEF Inputs
<1> HIDE DEF a, v
<1>5. Good(a, P) /\ a \in Cb /\ ~Unopened(a) /\ a.st \notin Handshaking
  BY <1>1, <1>2 DEF Leads, Good, Kept, Steady, Unopened
<1>6. Good(b, P) /\ b = [a EXCEPT !.persist = TRUE, !.shift = b.shift]
  BY <1>2, <1>5, EnterPersistKeeps
<1> HIDE DEF b
<1>7. /\ b.st = a.st /\ b.err = a.err /\ b.una = a.una /\ b.up = a.up /\ b.max = a.max
      /\ b.r = a.r /\ b.cwnd = a.cwnd /\ a.max \in Nat
  BY ZenonT(40), <1>5, <1>6 DEF Cb
<1>8. Leads(a, b, P) /\ ~Unopened(b)
  BY <1>5, <1>6, <1>7 DEF Leads, Wide, Acked, Unopened
<1>9. Leads(b, e, P) /\ Steady(b, e)
  BY <1>6, <1>8, ValidateFirstPktKeeps
<1> HIDE DEF e, d
<1>10. e.st # "LISTEN"
  BY <1>8, <1>9 DEF Steady, Unopened
<1>11. Leads(e, d, P)
  BY <1>4, <1>9, <1>10, OutputKeeps DEF Leads, d
<1>12. Leads(c, b, P)
  BY <1>1, <1>2, <1>8, LeadsTrans
<1>13. Leads(c, e, P)
  BY <1>1, <1>9, <1>12, LeadsTrans
<1> QED BY <1>1, <1>3, <1>11, <1>13, LeadsTrans

\* TCPT_KEEP: a handshake that takes too long and a peer that is silent too long
\* are given up; an idle connection is probed with an old sequence number.
LEMMA KeepTimeoutKeeps ==
  ASSUME NEW P \in Peers, NEW c, Good(c, P), NEW u \in Inputs
  PROVE  Leads(c, KeepTimeout(c, u), P)
<1> DEFINE no == FALSE
           yes == TRUE
           a == [c EXCEPT !.keep = no]
           b == Drop(a, "timed_out", u)
           e == Respond(a, c.una - 1, {"ACK"})
           f == [e EXCEPT !.keep = yes]
           g == [a EXCEPT !.keep = yes]
<1>1. /\ c \in Cb /\ c.shift \in 0 .. MaxRxtShift /\ c.rexmt \in BOOLEAN /\ c.msl \in BOOLEAN
      /\ c.una \in Nat /\ c.una - 1 \in Int /\ no \in BOOLEAN /\ yes \in BOOLEAN
  BY DEF Good, Kept, Cb
<1>2. a = Stopped(c, c.shift, c.rexmt, no, c.msl)
  BY <1>1 DEF Stopped, Cb
<1>3. \/ KeepTimeout(c, u) = b
      \/ KeepTimeout(c, u) = f /\ c.st \in {"ESTABLISHED", "CLOSE_WAIT"}
      \/ KeepTimeout(c, u) = g
  BY DEF KeepTimeout
<1> HIDE DEF no, yes, a
<1>4. Leads(c, a, P) /\ Still(c, a) /\ a \in Cb
  BY <1>1, <1>2, StoppedKeeps DEF Leads, Good, Kept
<1> HIDE DEF b, e, f, g
<1>5. CASE KeepTimeout(c, u) = b
  <2>1. Leads(a, b, P)
    BY <1>4, DropKeeps DEF Leads, b, Errs
  <2> QED BY <1>1, <1>4, <1>5, <2>1, LeadsTrans
<1>6. CASE KeepTimeout(c, u) = g
  <2>1. g = Stopped(a, a.shift, a.rexmt, yes, a.msl) /\ a.shift \in 0 .. MaxRxtShift
        /\ a.rexmt \in BOOLEAN /\ a.msl \in BOOLEAN
    BY <1>4 DEF Stopped, Cb, g
  <2>2. Good(a, P)
    BY <1>4 DEF Leads
  <2>3. Leads(a, g, P)
    BY <1>1, <2>1, <2>2, StoppedKeeps
  <2> QED BY <1>1, <1>4, <1>6, <2>3, LeadsTrans
<1>7. CASE KeepTimeout(c, u) = f /\ c.st \in {"ESTABLISHED", "CLOSE_WAIT"}
  <2>1. Good(a, P) /\ a.r.nxt >= 1 /\ P.rcv >= 1
    BY <1>4, <1>7 DEF Leads, Good, Kept, Opened, Still, Opening
  <2>2. Leads(a, e, P)
    BY <1>1, <2>1, RespondKeeps DEF e
  <2>3. e \in Cb /\ Good(e, P)
    BY <2>2 DEF Leads, Good, Kept
  <2>4. f = Stopped(e, e.shift, e.rexmt, yes, e.msl) /\ e.shift \in 0 .. MaxRxtShift
        /\ e.rexmt \in BOOLEAN /\ e.msl \in BOOLEAN
    BY <2>3 DEF Stopped, Cb, f
  <2>5. Leads(e, f, P)
    BY <1>1, <2>3, <2>4, StoppedKeeps
  <2>6. Leads(c, e, P)
    BY <1>1, <1>4, <2>2, LeadsTrans
  <2> QED BY <1>1, <1>7, <2>5, <2>6, LeadsTrans
<1> QED BY <1>3, <1>5, <1>6, <1>7

\* TCPT_2MSL.
LEMMA MslTimeoutKeeps ==
  ASSUME NEW P \in Peers, NEW c, Good(c, P), NEW u \in Inputs
  PROVE  Leads(c, MslTimeout(c, u), P)
<1> DEFINE no == FALSE
           a == [c EXCEPT !.msl = no]
           d == Drop(a, "timed_out", u)
<1>1. /\ c \in Cb /\ c.shift \in 0 .. MaxRxtShift /\ c.rexmt \in BOOLEAN /\ c.keep \in BOOLEAN
      /\ no \in BOOLEAN
  BY DEF Good, Kept, Cb
<1>2. a = Stopped(c, c.shift, c.rexmt, c.keep, no)
  BY <1>1 DEF Stopped, Cb
<1>3. MslTimeout(c, u) = d
  BY DEF MslTimeout
<1> HIDE DEF no, a, d
<1>4. Leads(c, a, P)
  BY <1>1, <1>2, StoppedKeeps
<1>5. Leads(a, d, P)
  BY <1>4, DropKeeps DEF Leads, d, Errs
<1> QED BY <1>1, <1>3, <1>4, <1>5, LeadsTrans

\* handle_fast_timo: a delayed acknowledgement is sent.
LEMMA FastTimeoutKeeps ==
  ASSUME NEW P \in Peers, NEW c, Good(c, P), "DELACK" \in c.flags, NEW u \in Inputs
  PROVE  Leads(c, FastTimeout(c, u), P)
<1> DEFINE fs == {"DELACK"}
           gs == {"ACKNOW"}
           a == Off(c, fs)
           b == On(a, gs)
           d == Output(b, u)
<1>1. c \in Cb /\ ~Unopened(c)
  BY TimerOpened DEF Good, Kept
<1>2. fs \in SUBSET (CbFlags \ {"SENTFIN"}) /\ gs \in SUBSET (CbFlags \ {"SENTFIN"})
      /\ "NOTIFY_DROP" \notin gs
  BY DEF CbFlags
<1>3. FastTimeout(c, u) = d
  BY DEF FastTimeout
<1> HIDE DEF fs, gs, d
<1>4. Leads(c, a, P) /\ Still(c, a)
  BY <1>2, OffLeads
<1> HIDE DEF a
<1>5. Good(a, P) /\ ~Unopened(a)
  BY <1>1, <1>4 DEF Leads, Still, Unopened
<1>6. Leads(a, b, P) /\ Still(a, b)
  BY <1>2, <1>5, OnLeads
<1> HIDE DEF b
<1>7. b.st # "LISTEN"
  BY <1>5, <1>6 DEF Still, Unopened
<1>8. Leads(b, d, P)
  BY <1>6, <1>7, OutputKeeps DEF Leads, d
<1>9. Leads(c, b, P)
  BY <1>1, <1>4, <1>6, LeadsTrans
<1> QED BY <1>1, <1>3, <1>8, <1>9, LeadsTrans

\* handle_delay_recv_operation.
LEMMA DelayTimeoutKeeps ==
  ASSUME NEW P \in Peers, NEW c, Good(c, P)
  PROVE  Leads(c, DelayTimeout(c), P)
<1> DEFINE no == FALSE
           a == [c EXCEPT !.delay = no]
           d == [a EXCEPT !.r = Copy(@, a.op), !.op = 0]
<1>1. c \in Cb /\ no \in BOOLEAN
  BY DEF Good, Kept
<1>2. a \in Cb /\ a.op = c.op
  BY <1>1 DEF Cb
<1>3. Same(c, a) /\ a.cwnd = c.cwnd
  BY <1>1 DEF Cb, Same
<1>4. DelayTimeout(c) = a \/ DelayTimeout(c) = d
  BY <1>2 DEF DelayTimeout
<1> HIDE DEF no, a
<1>5. Leads(c, a, P)
  BY <1>2, <1>3, SameGood
<1> HIDE DEF d
<1>6. Leads(a, d, P)
  BY <1>5, CopyKeeps DEF Leads, d
<1> QED BY <1>1, <1>4, <1>5, <1>6, LeadsTrans

----------------------------------------------------------------------------
(* Calls of the application. *)

\* async_connect and async_accept begin with an end that has done nothing.
LEMMA OpenKeeps ==
  ASSUME NEW P \in Peers, NEW c, Good(c, P), c.st = "CLOSED", c.err = "none", NEW d \in Cb,
         d.st \in {"SYN_SENT", "LISTEN"}, d.err = c.err, d.una = c.una, d.nxt = c.nxt,
         d.max = c.max, d.fack = c.fack, d.retrans = c.retrans, d.sb = c.sb,
         d.sbseq = c.sbseq, d.ops = c.ops, d.rexmt = c.rexmt, d.persist = c.persist,
         d.up = c.up, d.r = c.r, d.out = c.out, d.flags = c.flags, d.bad = c.bad,
         d.cwnd = c.cwnd
  PROVE  Leads(c, d, P)
<1>1. Fresh(c) /\ c.max \in Nat
  BY CbNumbers DEF Good, Kept, Phased, Unopened
<1>2. Phased(d)
  <2>1. "NOTIFY_DROP" \notin d.flags /\ "SENTFIN" \notin d.flags
    BY <1>1 DEF Good, Kept, Phased, Fresh
  <2> QED BY <1>1, <2>1 DEF Phased, Unopened, Fresh, Handshaking
<1>3. Opened(d, P)
  BY <1>1 DEF Opened, Fresh, Opening
<1>4. Buffered(d) /\ Heard(d, P)
  BY DEF Good, Kept, Buffered, Heard, View
<1>5. Good(d, P)
  BY <1>2, <1>3, <1>4 DEF Good, Kept
<1> QED BY <1>1, <1>5 DEF Leads, Wide, Acked, Opening, Fresh

\* async_connect: the first SYN is sent.
LEMMA ConnectKeeps ==
  ASSUME NEW P \in Peers, NEW c, Good(c, P), c.st = "CLOSED", c.err = "none", NEW u \in Inputs
  PROVE  Leads(c, Connect(c, u), P)
<1> DEFINE no == FALSE
           yes == TRUE
           zero == 0
           a == [c EXCEPT !.una = zero, !.nxt = zero, !.max = zero, !.fack = zero]
           b == [a EXCEPT !.handler = yes, !.deaf = no, !.st = "SYN_SENT", !.keep = yes]
           d == Output(b, u)
<1>1. c \in Cb /\ no \in BOOLEAN /\ yes \in BOOLEAN /\ "SYN_SENT" \in States
  BY DEF Good, Kept, States, Opening
<1>2. a = c
  <2>1. c.una = zero /\ c.nxt = zero /\ c.max = zero /\ c.fack = zero
    BY DEF Good, Kept, Phased, Unopened, Fresh
  <2> QED BY <1>1, <2>1 DEF Cb
<1>3. [c EXCEPT !.handler = TRUE, !.deaf = FALSE, !.st = "SYN_SENT", !.keep = TRUE,
                !.una = 0, !.nxt = 0, !.max = 0, !.fack = 0] = b
  BY <1>1 DEF Cb
<1>4. Connect(c, u) = d
  BY <1>3 DEF Connect
<1> HIDE DEF no, yes, zero, a, d
<1>5. b \in Cb
  <2> DEFINE x == [a EXCEPT !.handler = yes, !.deaf = no]
  <2>1. x \in Cb
    BY ZenonT(60), <1>1, <1>2 DEF Cb
  <2>2. b = [x EXCEPT !.st = "SYN_SENT", !.keep = yes]
    BY <1>1, <1>2 DEF Cb
  <2> HIDE DEF x, b
  <2> QED BY ZenonT(60), <1>1, <2>1, <2>2 DEF Cb
<1>6. /\ b.st = "SYN_SENT" /\ b.err = c.err /\ b.una = c.una /\ b.nxt = c.nxt
      /\ b.max = c.max /\ b.fack = c.fack /\ b.retrans = c.retrans /\ b.sb = c.sb
      /\ b.sbseq = c.sbseq /\ b.ops = c.ops
  BY <1>1, <1>2 DEF Cb
<1>7. /\ b.rexmt = c.rexmt /\ b.persist = c.persist /\ b.cwnd = c.cwnd
      /\ b.up = c.up /\ b.r = c.r /\ b.out = c.out /\ b.flags = c.flags /\ b.bad = c.bad
  BY <1>1, <1>2 DEF Cb
<1> HIDE DEF b
<1>8. Leads(c, b, P)
  BY <1>5, <1>6, <1>7, OpenKeeps
<1>9. Leads(b, d, P)
  BY <1>6, <1>8, OutputKeeps DEF Leads, d
<1> QED BY <1>1, <1>4, <1>8, <1>9, LeadsTrans

\* async_accept: the end listens.
LEMMA AcceptKeeps ==
  ASSUME NEW P \in Peers, NEW c, Good(c, P), c.st = "CLOSED", c.err = "none"
  PROVE  Leads(c, Accept(c), P)
<1> DEFINE no == FALSE
           yes == TRUE
           d == Accept(c)
<1>1. c \in Cb /\ no \in BOOLEAN /\ yes \in BOOLEAN /\ "LISTEN" \in States
  BY DEF Good, Kept, States, Opening
<1>2. d = [c EXCEPT !.handler = yes, !.deaf = no, !.st = "LISTEN"]
  BY DEF Accept
<1> HIDE DEF no, yes, d
<1>3. d \in Cb
  <2> DEFINE b == [c EXCEPT !.handler = yes, !.deaf = no]
  <2>1. b \in Cb
    BY <1>1 DEF Cb
  <2>2. d = [b EXCEPT !.st = "LISTEN"]
    BY <1>2
  <2> HIDE DEF b
  <2> QED BY ONLY ZenonT(40), <1>1, <2>1, <2>2 DEF Cb
<1>4. /\ d.st = "LISTEN" /\ d.err = c.err /\ d.una = c.una /\ d.nxt = c.nxt
      /\ d.max = c.max /\ d.fack = c.fack /\ d.retrans = c.retrans /\ d.sb = c.sb
      /\ d.sbseq = c.sbseq /\ d.ops = c.ops
  BY <1>1, <1>2 DEF Cb
<1>5. /\ d.rexmt = c.rexmt /\ d.persist = c.persist /\ d.cwnd = c.cwnd
      /\ d.up = c.up /\ d.r = c.r /\ d.out = c.out /\ d.flags = c.flags /\ d.bad = c.bad
  BY <1>1, <1>2 DEF Cb
<1>6. Leads(c, d, P)
  BY <1>3, <1>4, <1>5, OpenKeeps
<1> QED BY <1>6 DEF d

\* The handler has been called: the end is past its handshake.
LEMMA UpOpened ==
  ASSUME NEW P \in Peers, NEW c, Good(c, P), c.up
  PROVE  ~Unopened(c) /\ c.st \notin Handshaking /\ c.st # "LISTEN"
BY DEF Good, Kept, Phased, Fresh, Unopened

\* async_send: the operation is queued behind the others.
Queued(c, n) == [c EXCEPT !.ops = Append(@, n)]
(* async_send: the operation is queued, and what fits is sent. *)
LEMMA AsyncSendKeeps ==
  ASSUME NEW P \in Peers, NEW c, Good(c, P), c.up, NEW n \in Nat, NEW u \in Inputs
  PROVE  Leads(c, AsyncSend(c, n, u), P)
<1> DEFINE a == Queued(c, n)
           q == Append(c.ops, n)
           d == OnWritable(a, u)
<1>1. c \in Cb /\ c.ops \in Seq(Nat) /\ c.max \in Nat /\ ~Unopened(c) /\ c.st \notin Handshaking
      /\ c.st # "LISTEN"
  BY UpOpened, CbNumbers DEF Good, Kept
<1>2. q \in Seq(Nat)
  BY <1>1, AppendProperties
<1>3. a = [c EXCEPT !.ops = q]
  BY DEF Queued
<1>4. AsyncSend(c, n, u) = c \/ AsyncSend(c, n, u) = d
  BY DEF AsyncSend, Queued
<1> HIDE DEF a, q, d
<1>5. a \in Cb
  BY ZenonT(60), <1>1, <1>2, <1>3 DEF Cb
<1>6. /\ a.st = c.st /\ a.err = c.err /\ a.una = c.una /\ a.nxt = c.nxt
      /\ a.max = c.max /\ a.fack = c.fack /\ a.retrans = c.retrans /\ a.sb = c.sb
      /\ a.sbseq = c.sbseq
  BY <1>1, <1>3 DEF Cb
<1>7. /\ a.rexmt = c.rexmt /\ a.persist = c.persist /\ a.cwnd = c.cwnd
      /\ a.up = c.up /\ a.r = c.r /\ a.out = c.out /\ a.flags = c.flags /\ a.bad = c.bad
  BY <1>1, <1>3 DEF Cb
<1>8. Phased(a)
  BY <1>1, <1>6, <1>7 DEF Good, Kept, Phased, Unopened
<1>9. Opened(a, P) /\ Buffered(a) /\ Heard(a, P)
  BY <1>6, <1>7 DEF Good, Kept, Opened, Buffered, Heard, View
<1>10. Good(a, P)
  BY <1>5, <1>6, <1>7, <1>8, <1>9 DEF Good, Kept
<1>11. Leads(c, a, P)
  BY <1>1, <1>6, <1>7, <1>10 DEF Leads, Wide, Acked
<1>12. Leads(a, d, P)
  BY <1>1, <1>6, <1>10, OnWritableKeeps DEF d
<1>13. Leads(c, c, P)
  BY LeadsSelf
<1> QED BY <1>1, <1>4, <1>11, <1>12, <1>13, LeadsTrans

\* async_receive.
LEMMA AsyncReceiveKeeps ==
  ASSUME NEW P \in Peers, NEW c, Good(c, P), c.up, NEW n \in Nat, NEW u \in Inputs
  PROVE  Leads(c, AsyncReceive(c, n, u), P)
<1> DEFINE r == c.r
           a == [c EXCEPT !.op = n]
           d == RecvData(a, u)
<1>1. c \in Cb /\ c.st # "LISTEN"
  BY UpOpened DEF Good, Kept
<1>2. r \in Half /\ r.nxt = c.r.nxt /\ r.nxt \in Nat /\ Len(r.q) <= RcvHiWat
      /\ \A p \in r.reasm : p.seq + p.len <= P.max
  BY <1>1, CountedSyn DEF Good, Kept, Heard, Cb
<1>3. a = TakeHalf(c, r, n)
  BY <1>1 DEF TakeHalf, Cb
<1>4. AsyncReceive(c, n, u) = c \/ AsyncReceive(c, n, u) = d
  BY DEF AsyncReceive
<1> HIDE DEF r, a, d
<1>5. Leads(c, a, P) /\ a.st = c.st
  BY <1>2, <1>3, ReceiveKeeps
<1>6. Leads(a, d, P)
  BY <1>1, <1>5, RecvDataKeeps DEF Leads, d
<1>7. Leads(c, c, P)
  BY LeadsSelf
<1> QED BY <1>1, <1>4, <1>5, <1>6, <1>7, LeadsTrans

\* async_shutdown: the FIN goes behind the data that is queued.
LEMMA AsyncShutdownKeeps ==
  ASSUME NEW P \in Peers, NEW c, Good(c, P), NEW u \in Inputs
  PROVE  Leads(c, AsyncShutdown(c, u), P)
<1> DEFINE yes == TRUE
           a == [c EXCEPT !.shut = yes]
           s == IF c.st = "ESTABLISHED" THEN "FIN_WAIT_1" ELSE "LAST_ACK"
           b == [a EXCEPT !.st = s]
           d == Output(b, u)
<1>1. c \in Cb /\ yes \in BOOLEAN /\ s \in States
  BY DEF Good, Kept, States
<1>2. a \in Cb /\ Same(c, a) /\ a.cwnd = c.cwnd /\ a.r = c.r /\ a.flags = c.flags /\ a.st = c.st
  BY <1>1 DEF Cb, Same
<1>3. \/ AsyncShutdown(c, u) = a
      \/ AsyncShutdown(c, u) = d /\ c.st \in {"ESTABLISHED", "CLOSE_WAIT"}
  BY DEF AsyncShutdown
<1> HIDE DEF yes, a
<1>4. Leads(c, a, P)
  BY <1>2, SameGood
<1>5. CASE AsyncShutdown(c, u) = d /\ c.st \in {"ESTABLISHED", "CLOSE_WAIT"}
  <2>1. Good(a, P) /\ a.r.nxt >= 1 /\ a.st \notin Opening
    BY <1>2, <1>4, <1>5 DEF Leads, Good, Kept, Opened, Opening
  <2>2. s \in {"FIN_WAIT_1", "LAST_ACK"} /\ (s = "LAST_ACK" => a.err # "none")
    BY <1>2, <1>5, <2>1 DEF Good, Kept, Phased
  <2>3. "SENTFIN" \notin a.flags /\ ("NOTIFY_DROP" \in a.flags => a.err # "none")
    BY <1>2, <1>5, <2>1 DEF Good, Kept, Phased, Finishing
  <2> HIDE DEF s, d
  <2>4. b \in Cb
    BY <1>1, <1>2 DEF Cb
  <2>5. /\ b.st = s /\ b.err = a.err /\ b.una = a.una /\ b.nxt = a.nxt
        /\ b.max = a.max /\ b.fack = a.fack /\ b.retrans = a.retrans /\ b.sb = a.sb
        /\ b.sbseq = a.sbseq
    BY <1>2 DEF Cb
  <2>6. /\ b.rexmt = a.rexmt /\ b.persist = a.persist /\ b.cwnd = a.cwnd /\ b.ops = a.ops
        /\ b.up = a.up /\ b.r = a.r /\ b.out = a.out /\ b.flags = a.flags /\ b.bad = a.bad
    BY <1>2 DEF Cb
  <2> HIDE DEF b
  <2>7. b.st \notin Handshaking \cup {"LISTEN"} /\ b.st # "CLOSED"
    BY <2>2, <2>5 DEF Handshaking
  <2>8. Leads(a, b, P)
    BY <2>1, <2>2, <2>3, <2>4, <2>5, <2>6, <2>7, StateKeeps
  <2>9. Leads(b, d, P)
    BY <2>7, <2>8, OutputKeeps DEF Leads, d
  <2>10. Leads(c, b, P)
    BY <1>1, <1>4, <2>8, LeadsTrans
  <2> QED BY <1>1, <1>5, <2>9, <2>10, LeadsTrans
<1> QED BY <1>3, <1>4, <1>5

----------------------------------------------------------------------------
(* Two ends and the network.                                                *)

\* What an end knows of its peer stays true while the peer goes on.
LEMMA ViewGrows ==
  ASSUME NEW P \in Peers, NEW Q \in Peers, NEW c, Good(c, P), c.out = << >>,
         P.max <= Q.max, P.rcv >= 1 => Q.rcv >= 1
  PROVE  Good(c, Q)
<1>1. c \in Cb /\ c.r \in Half /\ P.max \in Nat /\ Q.max \in Nat
  BY CbNumbers DEF Good, Kept, Peers
<1>2. Opened(c, Q)
  BY <1>1 DEF Good, Kept, Opened
<1>3. Heard(c, Q)
  <2>1. \A p \in c.r.reasm : p.seq \in Nat /\ p.len \in Nat
    BY <1>1 DEF Half, Packet
  <2>2. \A p \in c.r.reasm : p.seq + p.len <= Q.max
    BY <1>1, <2>1 DEF Good, Kept, Heard
  <2> QED BY <2>2, LenProperties DEF Good, Kept, Heard
<1> QED BY <1>2, <1>3 DEF Good, Kept

\* A step is over: what it has sent is on the network.
Silent(c) == [c EXCEPT !.out = << >>]
(* A step begins with nothing to send. *)
LEMMA SilentKeeps ==
  ASSUME NEW P \in Peers, NEW c, Good(c, P)
  PROVE  LET d == Silent(c)
         IN  /\ Good(d, P) /\ View(d) = View(c) /\ d.out = << >>
             /\ (Wide(d) <=> Wide(c)) /\ (Acked(d) <=> Acked(c))
<1> DEFINE d == Silent(c)
           nil == << >>
<1>1. c \in Cb /\ nil \in Seq(Datagram) /\ Len(nil) = 0
  BY EmptySeq DEF Good, Kept
<1>2. d = [c EXCEPT !.out = nil]
  BY DEF Silent
<1> HIDE DEF nil, d
<1>3. d \in Cb /\ d.out = nil
  BY ZenonT(60), <1>1, <1>2 DEF Cb
<1>4. /\ d.st = c.st /\ d.err = c.err /\ d.una = c.una /\ d.nxt = c.nxt /\ d.max = c.max
      /\ d.fack = c.fack /\ d.retrans = c.retrans /\ d.sb = c.sb /\ d.sbseq = c.sbseq
      /\ d.up = c.up
  BY <1>1, <1>2 DEF Cb
<1>5. /\ d.flags = c.flags /\ d.rexmt = c.rexmt /\ d.cwnd = c.cwnd /\ d.r = c.r /\ d.bad = c.bad
      /\ d.persist = c.persist /\ d.ops = c.ops
  BY <1>1, <1>2 DEF Cb
<1>6. Phased(d)
  BY <1>4, <1>5 DEF Good, Kept, Phased, Unopened, Fresh
<1>7. Opened(d, P) /\ Buffered(d)
  BY <1>4, <1>5 DEF Good, Kept, Opened, Buffered
<1>8. Heard(d, P)
  BY <1>1, <1>3, <1>5 DEF Good, Kept, Heard
<1>9. Good(d, P)
  BY <1>3, <1>4, <1>5, <1>6, <1>7, <1>8 DEF Good, Kept
<1> QED BY <1>3, <1>4, <1>5, <1>9 DEF View, Wide, Acked, d, nil

\* What has been sent joins what is there while there is room for it.
LEMMA ReachBounded ==
  ASSUME NEW there \in SUBSET Datagram, IsFiniteSet(there), Cardinality(there) <= NetCap,
         NEW sent \in Seq(Datagram)
  PROVE  LET R == Reach(there, sent)
         IN  /\ IsFiniteSet(R) /\ Cardinality(R) <= NetCap
             /\ R \subseteq there \cup {sent[i] : i \in 1 .. Len(sent)}
<1> DEFINE with(k) == there \cup {sent[i] : i \in 1 .. k}
           S == {0} \cup {k \in 1 .. Len(sent) : Cardinality(with(k)) <= NetCap}
           m == Max(S)
<1>1. Len(sent) \in Nat
  BY LenProperties
<1>2. m \in S /\ m \in Nat /\ m <= Len(sent)
  <2>1. S \in SUBSET Nat /\ S # {} /\ \A k \in S : k <= Len(sent)
    BY <1>1
  <2> HIDE DEF S
  <2> QED BY <1>1, <2>1, MaxExists
<1>3. Reach(there, sent) = with(m)
  BY DEF Reach
<1>4. with(0) = there
  OBVIOUS
<1> HIDE DEF m
<1>5. Cardinality(with(m)) <= NetCap
  BY <1>2, <1>4
<1>6. IsFiniteSet(with(m))
  <2> DEFINE I == 1 .. m
             X == {sent[i] : i \in I}
  <2>1. IsFiniteSet(I)
    BY <1>2, FS_Interval
  <2>2. IsFiniteSet(X)
    <3> DEFINE f == [i \in I |-> sent[i]]
    <3>1. f \in Surjection(I, X)
      BY DEF Surjection
    <3> HIDE DEF f, I, X
    <3> QED BY <2>1, <3>1, FS_Surjection
  <2> HIDE DEF X
  <2>3. IsFiniteSet(there \cup X)
    BY <2>2, FS_Union
  <2> QED BY <2>3 DEF X
<1>7. with(m) \subseteq there \cup {sent[i] : i \in 1 .. Len(sent)}
  BY <1>1, <1>2
<1> HIDE DEF with
<1> QED BY <1>3, <1>5, <1>6, <1>7

\* One end with what is on its way to it, as its peer is.
EndInv(c, d, in) ==
  /\ Good(c, View(d)) /\ Wide(c) /\ Acked(c) /\ c.out = << >>
  /\ in \in SUBSET Datagram /\ IsFiniteSet(in) /\ Cardinality(in) <= NetCap
  /\ \A m \in in : Sound(m, View(d), View(c))
ConnInv ==
  /\ ep \in [Ends -> Cb]
  /\ net \in [Ends -> SUBSET Datagram]
  /\ app \in [Ends -> [sent : Nat, closed : BOOLEAN]]
  /\ \A e \in Ends : EndInv(ep[e], ep[Peer(e)], net[e])

\* Each end is the peer of its peer.
LEMMA PeerFacts ==
  ASSUME NEW e \in Ends
  PROVE  /\ Peer(e) \in Ends /\ Peer(Peer(e)) = e /\ Peer(e) # e
         /\ \A f \in Ends : f = e \/ f = Peer(e)
BY DEF Ends, Peer

\* What the peer of an end sees of it.
LEMMA ViewType ==
  ASSUME NEW c \in Cb
  PROVE  View(c) \in Peers /\ View(c).max = c.max /\ View(c).rcv = c.r.nxt
BY DEF View, Peers, Cb, Half

\* The end that has taken a step: what was on its way and is left stays sound.
LEMMA ActorKeeps ==
  ASSUME NEW c \in Cb, NEW d \in Cb, NEW x \in Cb, NEW in, NEW here \in SUBSET in,
         EndInv(c, d, in), Leads(c, x, View(d))
  PROVE  EndInv(Silent(x), d, here)
<1>1. View(c) \in Peers /\ View(d) \in Peers /\ Good(x, View(d))
  BY ViewType DEF Leads
<1>2. /\ Good(Silent(x), View(d)) /\ View(Silent(x)) = View(x) /\ Silent(x).out = << >>
      /\ (Wide(Silent(x)) <=> Wide(x)) /\ (Acked(Silent(x)) <=> Acked(x))
  BY <1>1, SilentKeeps
<1>3. Wide(x) /\ Acked(x)
  BY DEF Leads, EndInv
<1>4. \A m \in here : Sound(m, View(d), View(x))
  <2> TAKE m \in here
  <2>1. m \in Datagram /\ Sound(m, View(d), View(c))
    BY DEF EndInv
  <2> QED BY <1>1, <2>1, SoundLeads
<1>5. here \in SUBSET Datagram /\ IsFiniteSet(here) /\ Cardinality(here) <= NetCap
  <2>1. IsFiniteSet(in) /\ Cardinality(in) <= NetCap /\ Cardinality(in) \in Nat
    BY FS_CardinalityType DEF EndInv
  <2>2. IsFiniteSet(here) /\ Cardinality(here) <= Cardinality(in) /\ Cardinality(here) \in Nat
    BY <2>1, FS_Subset, FS_CardinalityType
  <2>3. NetCap \in Nat
    BY ConnAssumption
  <2> QED BY <2>1, <2>2, <2>3 DEF EndInv
<1> QED BY <1>2, <1>3, <1>4, <1>5 DEF EndInv

\* Its peer: more may be on its way.
LEMMA OtherKeeps ==
  ASSUME NEW c \in Cb, NEW d \in Cb, NEW x \in Cb, NEW in,
         EndInv(d, c, in), Leads(c, x, View(d))
  PROVE  EndInv(d, Silent(x), Reach(in, x.out))
<1> DEFINE R == Reach(in, x.out)
<1>1. /\ View(c) \in Peers /\ View(d) \in Peers /\ View(x) \in Peers /\ Good(x, View(d))
      /\ View(c).max <= View(x).max /\ (View(c).rcv >= 1 => View(x).rcv >= 1)
  BY ViewType DEF Leads
<1>2. View(Silent(x)) = View(x)
  BY <1>1, SilentKeeps
<1>3. Good(d, View(x))
  BY <1>1, ViewGrows DEF EndInv
<1>4. /\ x.out \in Seq(Datagram)
      /\ \A i \in 1 .. Len(x.out) : x.out[i] \in Datagram /\ Sound(x.out[i], View(x), View(d))
  <2>1. x.out \in Seq(Datagram)
    BY CbNumbers
  <2>2. \A i \in 1 .. Len(x.out) : x.out[i] \in Datagram
    BY <2>1, ElementOfSeq
  <2> QED BY <1>1, <2>1, <2>2 DEF Good, Kept, Heard
<1>5. /\ IsFiniteSet(R) /\ Cardinality(R) <= NetCap
      /\ R \subseteq in \cup {x.out[i] : i \in 1 .. Len(x.out)}
  BY <1>4, ReachBounded DEF EndInv
<1> HIDE DEF R
<1>6. \A m \in in : Sound(m, View(x), View(d))
  <2> TAKE m \in in
  <2>1. m \in Datagram /\ Sound(m, View(c), View(d))
    BY DEF EndInv
  <2>2. View(d).max <= View(d).max
    BY <1>1 DEF Peers
  <2> QED BY <1>1, <2>1, <2>2, SoundGrows
<1>7. \A m \in R : m \in Datagram /\ Sound(m, View(x), View(d))
  BY <1>4, <1>5, <1>6 DEF EndInv
<1> QED BY <1>2, <1>3, <1>5, <1>7 DEF EndInv, R

\* A step of one end keeps the invariant of both.
LEMMA LeaveKeeps ==
  ASSUME ConnInv, NEW e \in Ends, NEW c, Leads(ep[e], c, View(ep[Peer(e)])),
         NEW here \in SUBSET net[e], Leave(e, c, here),
         app' \in [Ends -> [sent : Nat, closed : BOOLEAN]]
  PROVE  ConnInv'
<1> DEFINE o == Peer(e)
           x == Silent(c)
           R == Reach(net[o], c.out)
<1>1. o \in Ends /\ Peer(o) = e /\ o # e /\ \A f \in Ends : f = e \/ f = o
  BY PeerFacts
<1>2. /\ ep \in [Ends -> Cb] /\ net \in [Ends -> SUBSET Datagram] /\ ep[e] \in Cb /\ ep[o] \in Cb
      /\ EndInv(ep[e], ep[o], net[e]) /\ EndInv(ep[o], ep[e], net[o]) /\ c \in Cb
  BY <1>1 DEF ConnInv, Leads, Good, Kept
<1>3. EndInv(x, ep[o], here)
  BY <1>2, ActorKeeps
<1>4. EndInv(ep[o], x, R)
  BY <1>2, OtherKeeps
<1>5. x \in Cb
  BY <1>3 DEF EndInv, Good, Kept
<1>6. ep' = [ep EXCEPT ![e] = x] /\ net' = [net EXCEPT ![e] = here, ![o] = R]
  BY <1>1, <1>2 DEF Leave, Silent
<1>7. R \in SUBSET Datagram
  BY <1>4 DEF EndInv
<1> HIDE DEF x, R, o
<1>8. /\ ep' \in [Ends -> Cb] /\ ep'[e] = x /\ ep'[o] = ep[o]
      /\ net' \in [Ends -> SUBSET Datagram] /\ net'[e] = here /\ net'[o] = R
  BY <1>1, <1>2, <1>5, <1>6, <1>7
<1>9. \A f \in Ends : EndInv(ep'[f], ep'[Peer(f)], net'[f])
  BY <1>1, <1>3, <1>4, <1>8 DEF o
<1> QED BY <1>8, <1>9 DEF ConnInv

\* What a handler may read that is not modelled.
LEMMA UnknownInputs ==
  ASSUME NEW b \in BOOLEAN, NEW u \in Unknown(b)
  PROVE  u \in Inputs
BY ConnAssumption DEF Unknown, Inputs

\* udt_cb::init: the two control blocks begin fresh.
LEMMA CbInitGood ==
  /\ CbInit \in Cb /\ View(CbInit) \in Peers
  /\ Good(CbInit, View(CbInit)) /\ Wide(CbInit) /\ Acked(CbInit) /\ CbInit.out = << >>
<1> DEFINE r == RcvInit(0)
           zero == 0
           no == FALSE
           nil == << >>
<1>1. r \in Half /\ r.nxt = 0 /\ r.reasm = {} /\ r.q = << >>
  BY EmptySeq DEF RcvInit, Half
<1>2. /\ MinCwnd \in Nat \ {0} /\ zero \in Nat /\ zero \in Int /\ no \in BOOLEAN
      /\ zero \in 0 .. MaxRxtShift /\ {} \in SUBSET Pkt /\ {} \in SUBSET Asserts
      /\ {} \in SUBSET CbFlags /\ "CLOSED" \in States /\ "none" \in Errs /\ TRUE \in BOOLEAN
  BY MinCwndType, CbAssumption DEF States, Opening, Errs
<1>3. << >> \in Seq(Nat) /\ << >> \in Seq(Datagram) /\ Len(<< >>) = 0
  BY EmptySeq
<1> HIDE DEF r, zero, no
<1>4. CbInit = [st |-> "CLOSED", err |-> "none", flags |-> {},
                una |-> zero, nxt |-> zero, max |-> zero, fack |-> zero, retrans |-> zero,
                sb |-> {}, sbseq |-> zero, ops |-> << >>,
                wnd |-> MinCwnd, cwnd |-> MinCwnd, dupacks |-> zero, incr |-> no,
                shift |-> zero, rtt |-> no, rtseq |-> zero, pseq |-> zero,
                rexmt |-> no, persist |-> no, keep |-> no, msl |-> no,
                r |-> r, op |-> zero, delay |-> no,
                handler |-> no, up |-> no, shut |-> no, deaf |-> TRUE,
                told |-> no, out |-> << >>, bad |-> {}]
  BY DEF CbInit, r, zero, no
<1>5. CbInit \in Cb
  BY <1>1, <1>2, <1>3, <1>4 DEF Cb
<1>6. /\ CbInit.st = "CLOSED" /\ CbInit.flags = {} /\ CbInit.una = 0 /\ CbInit.nxt = 0
      /\ CbInit.max = 0 /\ CbInit.fack = 0 /\ CbInit.retrans = 0 /\ CbInit.sb = {}
      /\ CbInit.ops = << >> /\ CbInit.r = r /\ CbInit.out = << >> /\ CbInit.bad = {}
      /\ CbInit.cwnd = MinCwnd /\ CbInit.up = FALSE /\ CbInit.rexmt = FALSE
      /\ CbInit.persist = FALSE
  BY DEF CbInit, r
<1>7. View(CbInit) \in Peers
  BY <1>5, ViewType
<1>8. Phased(CbInit)
  BY <1>1, <1>6 DEF Phased, Fresh, Handshaking
<1>9. Opened(CbInit, View(CbInit))
  BY <1>1, <1>6 DEF Opened, Opening
<1>10. Buffered(CbInit)
  <2>1. Marked({}) = {}
    BY DEF Marked
  <2> QED BY <1>6, <2>1, SumLenEmpty DEF Buffered
<1>11. Heard(CbInit, View(CbInit))
  BY <1>1, <1>3, <1>6, RcvBufAssumption DEF Heard
<1>12. Good(CbInit, View(CbInit))
  BY <1>5, <1>6, <1>8, <1>9, <1>10, <1>11 DEF Good, Kept
<1>13. Wide(CbInit) /\ Acked(CbInit)
  BY <1>2, <1>6 DEF Wide, Acked, Opening
<1> QED BY <1>5, <1>6, <1>7, <1>12, <1>13

(* The two control blocks begin closed, and nothing is on its way. *)
LEMMA InitConnInv == Init => ConnInv
<1> SUFFICES ASSUME Init
             PROVE  ConnInv
  OBVIOUS
<1>1. ep \in [Ends -> Cb] /\ \A e \in Ends : ep[e] = CbInit
  BY CbInitGood DEF Init
<1>2. net \in [Ends -> SUBSET Datagram] /\ \A e \in Ends : net[e] = {}
  BY DEF Init
<1>3. app \in [Ends -> [sent : Nat, closed : BOOLEAN]]
  BY DEF Init
<1>4. IsFiniteSet({}) /\ Cardinality({}) <= NetCap
  BY FS_EmptySet, ConnAssumption
<1>5. EndInv(CbInit, CbInit, {})
  BY <1>4, CbInitGood DEF EndInv
<1>6. \A e \in Ends : EndInv(ep[e], ep[Peer(e)], net[e])
  BY <1>1, <1>2, <1>5, PeerFacts
<1> QED BY <1>1, <1>2, <1>3, <1>6 DEF ConnInv

\* What the invariant says of one end when a handler begins.
LEMMA EndFacts ==
  ASSUME ConnInv, NEW e \in Ends
  PROVE  /\ ep[e] \in Cb /\ View(ep[Peer(e)]) \in Peers /\ Good(ep[e], View(ep[Peer(e)]))
         /\ app[e].sent \in Nat
         /\ \A p \in net[e] : p \in Datagram /\ Sound(p, View(ep[Peer(e)]), View(ep[e]))
<1>1. Peer(e) \in Ends
  BY PeerFacts
<1> QED BY <1>1, ViewType DEF ConnInv, EndInv

\* handle_receive, of a datagram that comes once, or twice.
LEMMA DeliverKeeps ==
  ASSUME ConnInv, NEW e \in Ends, NEW p \in net[e], Deliver(e, p) \/ Repeat(e, p)
  PROVE  ConnInv'
<1>1. PICK u \in Unknown(TRUE), here \in SUBSET net[e] : Leave(e, Input(ep[e], p, u), here)
  <2>1. CASE Deliver(e, p)
    BY <2>1 DEF Deliver
  <2>2. CASE Repeat(e, p)
    BY <2>2 DEF Repeat
  <2> QED BY <2>1, <2>2
<1>2. app' = app
  BY DEF Deliver, Repeat
<1>3. u \in Inputs
  BY UnknownInputs
<1>4. Leads(ep[e], Input(ep[e], p, u), View(ep[Peer(e)]))
  BY <1>3, EndFacts, InputKeeps
<1>5. app' \in [Ends -> [sent : Nat, closed : BOOLEAN]]
  BY <1>2 DEF ConnInv
<1> QED BY <1>1, <1>4, <1>5, LeaveKeeps

\* A datagram is lost.
LEMMA LoseKeeps ==
  ASSUME ConnInv, NEW e \in Ends, NEW p \in net[e], Lose(e, p)
  PROVE  ConnInv'
<1> DEFINE here == net[e] \ {p}
<1>1. ep' = ep /\ app' = app /\ net' = [net EXCEPT ![e] = here]
  BY DEF Lose
<1>2. EndInv(ep[e], ep[Peer(e)], net[e]) /\ net[e] \in SUBSET Datagram
  BY DEF ConnInv
<1>3. IsFiniteSet(here) /\ Cardinality(here) <= NetCap
  <2>1. IsFiniteSet(net[e]) /\ Cardinality(net[e]) <= NetCap /\ Cardinality(net[e]) \in Nat
    BY <1>2, FS_CardinalityType DEF EndInv
  <2>2. IsFiniteSet(here) /\ Cardinality(here) <= Cardinality(net[e]) /\ Cardinality(here) \in Nat
    BY <2>1, FS_Subset, FS_CardinalityType
  <2>3. NetCap \in Nat
    BY ConnAssumption
  <2> QED BY <2>1, <2>2, <2>3
<1>4. EndInv(ep[e], ep[Peer(e)], here)
  BY <1>2, <1>3 DEF EndInv
<1>5. net' \in [Ends -> SUBSET Datagram]
  BY <1>1, <1>2 DEF ConnInv
<1>6. \A f \in Ends : net'[f] = IF f = e THEN here ELSE net[f]
  BY <1>1 DEF ConnInv
<1>7. \A f \in Ends : EndInv(ep[f], ep[Peer(f)], net'[f])
  BY <1>4, <1>6 DEF ConnInv
<1> QED BY <1>1, <1>5, <1>7 DEF ConnInv

\* A timer that has expired.
LEMMA ExpireKeeps ==
  ASSUME ConnInv, NEW e \in Ends, NEW timer, NEW cs, Expire(e, timer, cs),
         \A c \in cs : Leads(ep[e], c, View(ep[Peer(e)]))
  PROVE  ConnInv'
<1>1. PICK c \in cs : Leave(e, c, net[e])
  BY DEF Expire
<1>2. app' \in [Ends -> [sent : Nat, closed : BOOLEAN]]
  BY DEF Expire, ConnInv
<1> QED BY <1>1, <1>2, LeaveKeeps

\* A step of one end that no message starts.
LEMMA LocalKeeps ==
  ASSUME ConnInv, NEW e \in Ends, NEW cs, Local(e, cs),
         \A c \in cs : Leads(ep[e], c, View(ep[Peer(e)]))
  PROVE  ConnInv'
<1>1. PICK c \in cs : Leave(e, c, net[e])
  BY DEF Local
<1>2. app' \in [Ends -> [sent : Nat, closed : BOOLEAN]]
  BY DEF Local, ConnInv
<1> QED BY <1>1, <1>2, LeaveKeeps

\* The six timers of an end.
LEMMA TimersKeep ==
  ASSUME ConnInv, NEW e \in Ends,
         Rexmt(e) \/ Persist(e) \/ Keep(e) \/ Msl(e) \/ Fast(e) \/ Delay(e)
  PROVE  ConnInv'
<1> DEFINE c == ep[e]
           P == View(ep[Peer(e)])
           U == Unknown(FALSE)
<1>1. c \in Cb /\ P \in Peers /\ Good(c, P) /\ U \subseteq Inputs
  BY EndFacts, UnknownInputs
<1>2. CASE Rexmt(e)
  <2>1. c.rexmt
    BY <1>2 DEF Rexmt, Expire
  <2>2. \A u \in U : Leads(c, RexmtTimeout(c, u), P)
    BY <1>1, <2>1, RexmtTimeoutKeeps
  <2> QED BY <1>2, <2>2, ExpireKeeps DEF Rexmt
<1>3. CASE Persist(e)
  <2>1. c.persist
    BY <1>3 DEF Persist, Expire
  <2>2. \A u \in U : Leads(c, PersistTimeout(c, u), P)
    BY <1>1, <2>1, PersistTimeoutKeeps
  <2> QED BY <1>3, <2>2, ExpireKeeps DEF Persist
<1>4. CASE Keep(e)
  <2>1. \A u \in U : Leads(c, KeepTimeout(c, u), P)
    BY <1>1, KeepTimeoutKeeps
  <2> QED BY <1>4, <2>1, ExpireKeeps DEF Keep
<1>5. CASE Msl(e)
  <2>1. \A u \in U : Leads(c, MslTimeout(c, u), P)
    BY <1>1, MslTimeoutKeeps
  <2> QED BY <1>5, <2>1, ExpireKeeps DEF Msl
<1>6. CASE Fast(e)
  <2>1. \A u \in U : Leads(c, FastTimeout(c, u), P)
    BY <1>1, <1>6, FastTimeoutKeeps DEF Fast
  <2> DEFINE cs == {FastTimeout(c, u) : u \in U}
  <2>2. Local(e, cs) /\ \A x \in cs : Leads(ep[e], x, View(ep[Peer(e)]))
    BY <1>6, <2>1 DEF Fast
  <2> HIDE DEF cs
  <2> QED BY <2>2, LocalKeeps
<1>7. CASE Delay(e)
  <2>1. Leads(c, DelayTimeout(c), P)
    BY <1>1, DelayTimeoutKeeps
  <2> QED BY <1>7, <2>1, LocalKeeps DEF Delay
<1> QED BY <1>2, <1>3, <1>4, <1>5, <1>6, <1>7

\* The calls of the applications.
LEMMA CallsKeep ==
  ASSUME ConnInv, NEW e \in Ends, Open(e) \/ Send(e) \/ Receive(e) \/ Shutdown(e)
  PROVE  ConnInv'
<1> DEFINE c == ep[e]
           P == View(ep[Peer(e)])
           U == Unknown(FALSE)
<1>1. c \in Cb /\ P \in Peers /\ Good(c, P) /\ U \subseteq Inputs /\ app[e].sent \in Nat
  BY EndFacts, UnknownInputs
<1>2. CASE Open(e)
  <2>1. c.st = "CLOSED" /\ c.err = "none"
    BY <1>2 DEF Open, CanOpen
  <2>2. (\A u \in U : Leads(c, Connect(c, u), P)) /\ Leads(c, Accept(c), P)
    BY <1>1, <2>1, ConnectKeeps, AcceptKeeps
  <2>3. Local(e, {Connect(c, u) : u \in U}) \/ Local(e, {Accept(c)})
    BY <1>2 DEF Open
  <2>4. CASE Local(e, {Connect(c, u) : u \in U})
    <3> DEFINE cs == {Connect(c, u) : u \in U}
    <3>1. Local(e, cs) /\ \A x \in cs : Leads(ep[e], x, View(ep[Peer(e)]))
      BY <2>2, <2>4
    <3> HIDE DEF cs
    <3> QED BY <3>1, LocalKeeps
  <2>5. CASE Local(e, {Accept(c)})
    BY <2>2, <2>5, LocalKeeps
  <2> QED BY <2>3, <2>4, <2>5
<1>3. CASE Send(e)
  <2> DEFINE n == SendPlan[e][app[e].sent + 1]
  <2>1. c.up /\ n \in Nat
    <3>1. c.up /\ app[e].sent < Len(SendPlan[e]) /\ SendPlan[e] \in Seq(Nat)
      BY <1>3, ConnAssumption DEF Send, CanSend
    <3>2. app[e].sent + 1 \in 1 .. Len(SendPlan[e])
      BY <1>1, <3>1, LenProperties
    <3> QED BY <3>1, <3>2, ElementOfSeq
  <2>2. PICK u \in U : Leave(e, AsyncSend(c, n, u), net[e])
    BY <1>3 DEF Send
  <2>3. Leads(c, AsyncSend(c, n, u), P)
    BY <1>1, <2>1, AsyncSendKeeps
  <2>4. app' \in [Ends -> [sent : Nat, closed : BOOLEAN]]
    BY <1>3 DEF Send, ConnInv
  <2> HIDE DEF n
  <2> QED BY <2>2, <2>3, <2>4, LeaveKeeps
<1>4. CASE Receive(e)
  <2>1. c.up
    BY <1>4 DEF Receive, CanReceive
  <2>2. \A n \in Reads, u \in U : Leads(c, AsyncReceive(c, n, u), P)
    BY <1>1, <2>1, AsyncReceiveKeeps, ConnAssumption
  <2>3. PICK n \in Reads : Local(e, {AsyncReceive(c, n, u) : u \in U})
    BY <1>4 DEF Receive
  <2> DEFINE cs == {AsyncReceive(c, n, u) : u \in U}
  <2>4. Local(e, cs) /\ \A x \in cs : Leads(ep[e], x, View(ep[Peer(e)]))
    BY <2>2, <2>3
  <2> HIDE DEF cs
  <2> QED BY <2>4, LocalKeeps
<1>5. CASE Shutdown(e)
  <2>1. PICK u \in U : Leave(e, AsyncShutdown(c, u), net[e])
    BY <1>5 DEF Shutdown
  <2>2. Leads(c, AsyncShutdown(c, u), P)
    BY <1>1, AsyncShutdownKeeps
  <2>3. app' \in [Ends -> [sent : Nat, closed : BOOLEAN]]
    BY <1>5 DEF Shutdown, ConnInv
  <2> QED BY <2>1, <2>2, <2>3, LeaveKeeps
<1> QED BY <1>2, <1>3, <1>4, <1>5

(* Every datagram, timer and call keeps the invariant of both ends. *)
LEMMA NextConnInv == ConnInv /\ [Next]_vars => ConnInv'
<1> SUFFICES ASSUME ConnInv, [Next]_vars
             PROVE  ConnInv'
  OBVIOUS
<1>1. CASE UNCHANGED vars
  BY <1>1 DEF ConnInv, vars
<1>2. CASE Next
  <2>1. PICK e \in Ends :
          \/ \E p \in net[e] : Deliver(e, p) \/ Repeat(e, p) \/ Lose(e, p)
          \/ Rexmt(e) \/ Persist(e) \/ Keep(e) \/ Msl(e) \/ Fast(e) \/ Delay(e)
          \/ Open(e) \/ Send(e) \/ Receive(e) \/ Shutdown(e)
    BY <1>2 DEF Next
  <2>2. CASE \E p \in net[e] : Deliver(e, p) \/ Repeat(e, p)
    BY <2>2, DeliverKeeps
  <2>3. CASE \E p \in net[e] : Lose(e, p)
    BY <2>3, LoseKeeps
  <2>4. CASE Rexmt(e) \/ Persist(e) \/ Keep(e) \/ Msl(e) \/ Fast(e) \/ Delay(e)
    BY <2>4, TimersKeep
  <2>5. CASE Open(e) \/ Send(e) \/ Receive(e) \/ Shutdown(e)
    BY <2>5, CallsKeep
  <2> QED BY <2>1, <2>2, <2>3, <2>4, <2>5
<1> QED BY <1>1, <1>2

(* The inductive invariant holds for any datagrams delivered, repeated, reordered *)
(* and lost, any calls of the applications and any parameters.                    *)
THEOREM ConnInvariant == Spec => []ConnInv
BY InitConnInv, NextConnInv, PTL DEF Spec

----------------------------------------------------------------------------
(* What follows.                                                            *)

\* What the invariant says of an end and of its peer.
LEMMA BothEnds ==
  ASSUME ConnInv, NEW e \in Ends
  PROVE  /\ ep[e] \in Cb /\ ep[Peer(e)] \in Cb /\ Good(ep[e], View(ep[Peer(e)]))
         /\ Good(ep[Peer(e)], View(ep[e])) /\ Wide(ep[e]) /\ Acked(ep[e]) /\ ep[e].out = << >>
         /\ Cardinality(net[e]) <= NetCap
         /\ View(ep[Peer(e)]) \in Peers /\ View(ep[e]) \in Peers
<1>1. Peer(e) \in Ends /\ Peer(Peer(e)) = e
  BY PeerFacts
<1> QED BY <1>1, ViewType DEF ConnInv, EndInv

\* Every field of a control block keeps its type: m_retrans_data is never
\* negative and no loss brings the congestion window below min_cwnd(), whatever
\* the datagrams, the timers and the losses.
THEOREM ConnTypeOK == Spec => []TypeOK
<1>1. ConnInv => TypeOK
  <2> SUFFICES ASSUME ConnInv, NEW e \in Ends
               PROVE  LET c == ep[e] IN
                 /\ c.st \in States
                 /\ c.err \in {"none", "eof", "timed_out", "connection_reset",
                               "malformed_packet"}
                 /\ c.flags \subseteq {"ACKNOW", "DELACK", "NEED_OUTPUT", "NEED_RESET",
                                       "NOTIFY_READ", "NOTIFY_WRITE", "NOTIFY_DROP", "SENTFIN"}
                 /\ {c.una, c.nxt, c.max, c.fack, c.retrans, c.sbseq, c.wnd, c.dupacks}
                      \subseteq Nat
                 /\ c.sb \subseteq [seq : Nat, len : 1 .. MaxSeg, rx : BOOLEAN]
                 /\ c.cwnd >= MinCwnd
                 /\ c.shift \in 0 .. MaxRxtShift
                 /\ c.out = << >>
                 /\ Cardinality(net[e]) <= NetCap
    BY DEF TypeOK
  <2> DEFINE c == ep[e]
             P == View(ep[Peer(e)])
  <2>1. /\ c \in Cb /\ P \in Peers /\ Good(c, P) /\ Wide(c) /\ c.out = << >>
        /\ Cardinality(net[e]) <= NetCap
    BY BothEnds
  <2> HIDE DEF c, P
  <2>2. c.retrans \in Nat
    <3>1. Marked(c.sb) \in SUBSET c.sb /\ Kept(c, P)
      BY <2>1 DEF Marked, Good
    <3>2. IsFiniteSet(Marked(c.sb))
      BY <2>1, <3>1, BufferFinite
    <3> QED BY <3>1, <3>2, SumLenType DEF Kept, Buffered
  <2>3. c.st \in States /\ c.err \in Errs /\ c.flags \subseteq CbFlags /\ c.sb \subseteq Pkt
        /\ c.shift \in 0 .. MaxRxtShift
    BY <2>1, CbNumbers
  <2>4. {c.una, c.nxt, c.max, c.fack, c.retrans, c.sbseq, c.wnd, c.dupacks} \subseteq Nat
    <3>1. c.dupacks \in Nat
      BY <2>1 DEF Cb
    <3> QED BY <2>1, <2>2, <3>1, CbNumbers
  <2> QED BY <2>1, <2>3, <2>4 DEF c, Errs, CbFlags, Pkt, Wide
<1> QED BY <1>1, ConnInvariant, PTL

\* udt_cb.h, m_snd_una <= m_snd_nxt <= m_snd_max with m_snd_fack between them:
\* no timeout, no SACK block, no fast retransmit and no probe leaves them out of
\* order.
THEOREM ConnSeqOrder == Spec => []SeqOrder
<1>1. ConnInv => SeqOrder
  BY BothEnds DEF SeqOrder, Good, Kept
<1> QED BY <1>1, ConnInvariant, PTL

\* check_rexmt_data: m_retrans_data is the size of the marked packets after every
\* handler.
THEOREM ConnRetransAccount == Spec => []RetransAccount
<1>1. ConnInv => RetransAccount
  BY BothEnds DEF RetransAccount, Good, Kept, Buffered
<1> QED BY <1>1, ConnInvariant, PTL

\* output(), "Persist and retransmit timer are mutually exclusive".
THEOREM ConnTimersExclusive == Spec => []TimersExclusive
<1>1. ConnInv => TimersExclusive
  BY BothEnds DEF TimersExclusive, Good, Kept
<1> QED BY <1>1, ConnInvariant, PTL

\* update_ack_state: when the handler is called without an error both SYNs have
\* been counted and this end's is acknowledged, whoever has opened first.
THEOREM ConnHandshakeAgreement == Spec => []HandshakeAgreement
<1>1. ConnInv => HandshakeAgreement
  <2> SUFFICES ASSUME ConnInv, NEW e \in Ends, ep[e].up
               PROVE  /\ ep[e].una >= 1 /\ ep[e].r.nxt >= 1
                      /\ ep[Peer(e)].r.nxt >= 1
                      /\ ep[Peer(e)].st \notin {"LISTEN", "SYN_SENT"}
    BY DEF HandshakeAgreement
  <2> DEFINE c == ep[e]
             d == ep[Peer(e)]
  <2>1. /\ Good(c, View(d)) /\ Good(d, View(c)) /\ Acked(c) /\ c.up
        /\ View(c) \in Peers
    BY BothEnds
  <2>2. c.una >= 1
    BY <2>1 DEF Acked
  <2>3. c.r.nxt >= 1 /\ d.r.nxt >= 1
    BY <2>1 DEF Good, Kept, Opened, View
  <2>4. d.st \notin {"LISTEN", "SYN_SENT"}
    BY <2>1, <2>3, CountedSyn
  <2> QED BY <2>2, <2>3, <2>4
<1> QED BY <1>1, ConnInvariant, PTL

\* enter_persist, "the retransmit timer is not pending", and check_rexmt_data:
\* neither assertion ever fails.
AccountAsserted ==
  \A e \in Ends : ep[e].bad \cap {"enter_persist", "check_rexmt_data"} = {}
(* The assertions of enter_persist (udt_cb.cpp) and check_rexmt_data (udt_cb_output.cpp) *)
(* never fail.                                                                           *)
THEOREM ConnAccountAsserted == Spec => []AccountAsserted
<1>1. ConnInv => AccountAsserted
  BY BothEnds DEF AccountAsserted, Good, Kept
<1> QED BY <1>1, ConnInvariant, PTL
=============================================================================
