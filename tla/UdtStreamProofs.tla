-------------------------- MODULE UdtStreamProofs --------------------------
(***************************************************************************)
(* Proofs about the streams of UdtConn: what input(), the timers and the   *)
(* calls of the application do to them (UdtFlowProofs has what they share), *)
(* and so the two sockets implement the streams of UdtStream.              *)
(***************************************************************************)
EXTENDS UdtFlowProofs

----------------------------------------------------------------------------
(* input(): what arrives, and the end of the stream. *)

\* A receive half that has taken more of the stream.
LEMMA TakeHalfDoes ==
  ASSUME NEW P \in Peers, NEW T \in Sources, NEW K \in Sinks, NEW c, Good(c, P), Data(c, T, K),
         ~Dead(c), c.r.nxt >= 1, NEW r, Receives(r, P.max), r.nxt >= c.r.nxt, Takes(c.r, r, T)
  PROVE  LET d == [c EXCEPT !.r = r]
         IN  /\ Does(c, d, P, T, K) /\ d.r = r /\ d.flags = c.flags /\ d.st = c.st
             /\ d.err = c.err /\ d.nxt = c.nxt /\ d.max = c.max /\ d.una = c.una
<1> DEFINE d == [c EXCEPT !.r = r]
<1>1. c \in Cb
  BY DEF Good, Kept
<1>2. /\ Good(d, P) /\ d.r = r /\ d.flags = c.flags /\ d.st = c.st /\ d.err = c.err
      /\ d.una = c.una /\ d.up = c.up /\ d.max = c.max /\ d.sb = c.sb
  BY HalfKeeps DEF Leads
<1>3. d.ops = c.ops /\ d.sbseq = c.sbseq /\ d.told = c.told /\ d.out = c.out /\ d.nxt = c.nxt
  BY <1>1 DEF Cb
<1> HIDE DEF d
<1>4. Outer(c, d) /\ d \in Cb
  BY <1>2, <1>3 DEF Outer, Good, Kept
<1>5. Moves(c, d, T, K)
  BY <1>1, <1>2, <1>4, TakeMoves
<1>6. ~Blank(d)
  BY <1>2, CountedSyn DEF Blank, Unopened
<1> QED BY <1>2, <1>3, <1>5, <1>6 DEF Does, Pristine, d

\* Nothing is taken from a segment without data and FIN that is expected.
LEMMA TakeNothing ==
  ASSUME NEW B \in Nat, NEW r, Receives(r, B), NEW p \in Packet, p.len = 0, ~p.fin,
         InSequence(r, p)
  PROVE  LET d == TcpReass(r, p)
         IN  d.nxt = r.nxt /\ d.q = r.q /\ d.got = r.got /\ d.reasm = {} /\ d.fin = "none"
<1> DEFINE d == TcpReass(r, p)
           q2 == r.q \o Bytes(p.seq, p.len)
           n2 == r.nxt + p.len
<1>1. /\ r \in Half /\ r.nxt \in Nat /\ r.q \in Seq(Nat) /\ Len(r.q) \in Nat
      /\ Len(r.q) <= RcvHiWat /\ p.seq \in Nat
  BY LenProperties DEF Receives, Half, Packet
<1>2. r.reasm = {} /\ d = AppendPkt(r, p)
  BY DEF InSequence, TcpReass
<1>3. ~(p.len > Acc(r))
  BY <1>1, RcvBufAssumption DEF Acc
<1>4. d = [r EXCEPT !.q = q2, !.nxt = n2, !.fin = "none"]
  BY <1>2, <1>3 DEF AppendPkt, FinMark
<1>5. q2 = r.q /\ n2 = r.nxt
  <2> DEFINE q == r.q
             k == p.seq
  <2>1. q \in Seq(Nat) /\ k \in Nat
    BY <1>1
  <2> HIDE DEF q, k
  <2>2. q \o Bytes(k, 0) = q
    BY <2>1, NoBytes
  <2>3. Bytes(p.seq, p.len) = Bytes(k, 0)
    BY DEF k
  <2>4. q2 = q \o Bytes(k, 0)
    BY <2>3 DEF q
  <2>5. q2 = r.q
    BY <2>2, <2>4 DEF q
  <2>6. n2 = r.nxt
    BY <1>1
  <2> HIDE DEF q2, n2
  <2> QED BY <2>5, <2>6
<1> HIDE DEF d, q2, n2
<1> QED BY <1>1, <1>2, <1>4, <1>5 DEF Half, d

\* TCP_REASS: what is new of a segment is appended or queued.
LEMMA TcpReassembleDoes ==
  ASSUME NEW P \in Peers, NEW T \in Sources, NEW K \in Sinks, NEW c, Good(c, P), Data(c, T, K),
         c.st # "CLOSED", c.r.nxt >= 1, NEW p \in Datagram,
         NEW seq \in Nat, seq + p.len <= P.max, PieceOf(T, Piece(p, seq)), Tidy(c)
  PROVE  LET d == TcpReassemble(c, p, seq)
         IN  /\ Does(c, d, P, T, K) /\ d.st = c.st /\ d.err = c.err /\ Level(d) /\ Doomed(d)
             /\ "NOTIFY_DROP" \in d.flags <=> "NOTIFY_DROP" \in c.flags
             /\ d.r.nxt >= 1 /\ d.max = c.max
             /\ p.len = 0 /\ "FIN" \notin p.flags /\ seq = c.r.nxt => Settled(d)
<1> DEFINE piece == Piece(p, seq)
           r == TcpReass(c.r, piece)
           a == [c EXCEPT !.r = r]
           read == IF a.r.nxt # c.r.nxt THEN {"NOTIFY_READ"} ELSE {}
           fs == read \cup (IF InSequence(c.r, piece) THEN {"DELACK"} ELSE {"ACKNOW"})
           d == TcpReassemble(c, p, seq)
<1>1. /\ piece \in Packet /\ piece.seq + piece.len <= P.max
      /\ piece.seq = seq /\ piece.len = p.len /\ (piece.fin <=> "FIN" \in p.flags)
  <2>1. p.len \in Nat
    BY DEF Datagram
  <2>2. piece.seq = seq /\ piece.len = p.len /\ piece.fin = ("FIN" \in p.flags)
    BY DEF Piece
  <2>3. piece \in Packet
    BY <2>1 DEF Piece, Packet
  <2> QED BY <2>2, <2>3
<1>2. /\ c \in Cb /\ Receives(c.r, P.max) /\ P.max \in Nat /\ c.r \in Half /\ ~Dead(c)
      /\ c.r.nxt \in Nat
  BY HalfReceives DEF Good, Kept, Receives, Dead
<1>3. Flow(T, SinkOf(c.r)) /\ InOrder(c.r)
  BY SinkOfFacts DEF Data
<1>4. d = On(a, fs)
  BY DEF TcpReassemble
<1>5. fs \in SUBSET (CbFlags \ {"SENTFIN", "NOTIFY_DROP"})
  BY DEF CbFlags
<1>6. PieceOf(T, piece)
  OBVIOUS
<1> HIDE DEF piece
<1>7. Takes(c.r, r, T) /\ Receives(r, P.max)
  BY <1>1, <1>2, <1>3, <1>6, TcpReassTakes
<1>8. r.nxt >= c.r.nxt
  BY <1>1, <1>2, AppendPktHalf, InsertReasmHalf DEF TcpReass
<1>9. /\ p.len = 0 /\ "FIN" \notin p.flags /\ InSequence(c.r, piece) =>
           r.nxt = c.r.nxt /\ r.q = c.r.q /\ r.got = c.r.got /\ r.reasm = {} /\ r.fin = "none"
  BY <1>1, <1>2, TakeNothing
<1> HIDE DEF r
<1>10. /\ Does(c, a, P, T, K) /\ a.r = r /\ a.flags = c.flags /\ a.st = c.st
       /\ a.err = c.err /\ a.nxt = c.nxt /\ a.max = c.max
  BY <1>2, <1>7, <1>8, TakeHalfDoes
<1> HIDE DEF fs, a, d
<1>11. Good(a, P) /\ Data(a, T, K) /\ a \in Cb
  BY <1>10, DoesTrans
<1>12. r.nxt \in Nat
  BY <1>7 DEF Receives, Half
<1>13. ~Unopened(a)
  BY <1>2, <1>8, <1>10, <1>11, <1>12, CountedSyn
<1>14. Quiet(a, d, P, T, K)
  BY <1>4, <1>5, <1>11, <1>13, FlagsQuiet
<1>15. /\ d.st = a.st /\ d.err = a.err /\ d.r = a.r /\ d.max = a.max /\ d.nxt = a.nxt
       /\ "NOTIFY_DROP" \in d.flags <=> "NOTIFY_DROP" \in a.flags
  <2>1. fs \in SUBSET (CbFlags \ {"SENTFIN"}) /\ "NOTIFY_DROP" \notin fs
    BY <1>5
  <2>2. d.st = a.st /\ d.err = a.err /\ d.r = a.r /\ d.max = a.max /\ d.nxt = a.nxt
        /\ d.flags = a.flags \cup fs
    BY <1>4, <1>11, <2>1, FlagsMove
  <2> QED BY <2>1, <2>2
<1>16. Level(d) /\ Doomed(d)
  BY <1>10, <1>15 DEF Tidy, Level, Doomed, Fatal
<1>17. ASSUME p.len = 0, "FIN" \notin p.flags, seq = c.r.nxt
       PROVE  Settled(d)
  <2> SUFFICES ASSUME d.st \in {"LISTEN", "SYN_SENT", "SYN_RECEIVED"}, "NOTIFY_DROP" \notin d.flags
               PROVE  Arrived(d) = 0 /\ d.r.nxt <= 1 /\ d.r.reasm = {} /\ d.r.fin = "none"
    BY DEF Settled
  <2>1. Arrived(c) = 0 /\ c.r.nxt <= 1 /\ c.r.reasm = {} /\ c.r.fin = "none"
    BY <1>10, <1>15 DEF Tidy, Settled
  <2>2. InSequence(c.r, piece)
    BY <1>1, <1>17, <2>1 DEF InSequence
  <2>3. d.r = r /\ Arrived(d) = Arrived(c)
    BY <1>9, <1>10, <1>15, <1>17, <2>2 DEF Arrived
  <2> QED BY <1>9, <1>17, <2>1, <2>2, <2>3
<1>18. Does(c, d, P, T, K)
  BY <1>10, <1>11, <1>14, DoesTrans
<1> QED BY <1>2, <1>8, <1>10, <1>12, <1>15, <1>16, <1>17, <1>18 DEF d

\* do_header_prediction, data: the segment that was expected is appended.
LEMMA PredictedDataDoes ==
  ASSUME NEW P \in Peers, NEW T \in Sources, NEW K \in Sinks, NEW c, Good(c, P), Data(c, T, K),
         Tidy(c), NEW p \in Datagram, PredictedData(c, p), p.seq \in Nat, p.seq + p.len <= P.max,
         PieceOf(T, Piece(p, p.seq))
  PROVE  LET d == On([c EXCEPT !.r = AppendPkt(@, Piece(p, p.seq))], {"DELACK", "NOTIFY_READ"})
         IN  Does(c, d, P, T, K) /\ Tidy(d)
<1> DEFINE piece == Piece(p, p.seq)
           r == AppendPkt(c.r, piece)
           a == [c EXCEPT !.r = r]
           fs == {"DELACK", "NOTIFY_READ"}
           d == On([c EXCEPT !.r = AppendPkt(@, Piece(p, p.seq))], {"DELACK", "NOTIFY_READ"})
<1>1. /\ piece \in Packet /\ piece.seq = p.seq
      /\ c.st = "ESTABLISHED" /\ p.seq = c.r.nxt /\ c.r.reasm = {}
  BY DEF Piece, Packet, Datagram, PredictedData, Predicted
<1>2. /\ c \in Cb /\ Receives(c.r, P.max) /\ P.max \in Nat /\ c.r \in Half /\ ~Dead(c)
      /\ c.r.nxt \in Nat /\ c.r.nxt >= 1
  BY <1>1, HalfReceives, CountedSyn DEF Good, Kept, Receives, Dead
<1>3. Flow(T, SinkOf(c.r)) /\ InOrder(c.r)
  BY SinkOfFacts DEF Data
<1>4. d = On(a, fs)
  BY <1>2 DEF Cb
<1>5. fs \in SUBSET (CbFlags \ {"SENTFIN", "NOTIFY_DROP"})
  BY DEF CbFlags
<1>6. PieceOf(T, piece)
  OBVIOUS
<1> HIDE DEF piece
<1>7. Receives(r, P.max) /\ r.nxt >= c.r.nxt
  BY <1>1, <1>2, AppendPktHalf
<1>8. Takes(c.r, r, T)
  <2>1. r \in Half
    BY <1>7 DEF Receives
  <2> QED BY <1>1, <1>2, <1>3, <1>6, <2>1, AppendPktTakes
<1> HIDE DEF r
<1>9. /\ Does(c, a, P, T, K) /\ a.flags = c.flags /\ a.st = c.st /\ a.err = c.err
  BY <1>2, <1>7, <1>8, TakeHalfDoes
<1> HIDE DEF fs, a, d
<1>10. Good(a, P) /\ Data(a, T, K) /\ ~Unopened(a)
  BY <1>1, <1>9, DoesTrans DEF Unopened
<1>11. Quiet(a, d, P, T, K)
  BY <1>4, <1>5, <1>10, FlagsQuiet
<1>12. Does(c, d, P, T, K)
  BY <1>9, <1>10, <1>11, DoesTrans
<1>13. d.st = "ESTABLISHED" /\ d.err = c.err
       /\ ("NOTIFY_DROP" \in d.flags <=> "NOTIFY_DROP" \in c.flags)
  BY <1>1, <1>9, <1>10, <1>11, DoesTrans
<1>14. Tidy(d)
  BY <1>1, <1>13 DEF Tidy, Level, Settled, Doomed, Handshaking, Fatal
<1> QED BY <1>12, <1>14 DEF d

\* A state behind the handshake: nobody leaves it for one where the FIN is
\* acknowledged before it is, or for CLOSED before an error.
LEMMA StateGoes ==
  ASSUME NEW T \in Sources, NEW K \in Sinks, NEW c \in Cb, NEW d \in Cb, Data(c, T, K),
         Streams(c, d), d.max = c.max, d.up = c.up, d.ops = c.ops, d.err = c.err,
         "SENTFIN" \in d.flags <=> "SENTFIN" \in c.flags,
         c.st \notin Opening, d.st \notin {"LISTEN", "SYN_SENT", "SYN_RECEIVED"},
         c.told => d.st \in Ending, d.st = "CLOSED" => c.told /\ c.err # "none",
         d.st \in {"FIN_WAIT_2", "TIME_WAIT"} =>
           "SENTFIN" \in c.flags /\ Full(Source(c), K) /\ K.nxt >= c.max
  PROVE  Moves(c, d, T, K)
<1>1. Source(d) = Source(c) /\ Sink(d) = Sink(c)
  BY DEF Source, Cuts, Sink, Arrived, Streams
<1>2. d.sbseq = c.sbseq /\ d.told = c.told /\ c.sbseq # 0 /\ c.sbseq \in Nat
  BY CbNumbers DEF Data, Stage, Streams
<1>3. Stage(d)
  <2>1. NoOps(d) <=> NoOps(c)
    BY DEF NoOps
  <2>2. d.told \/ d.st = "CLOSED" => NoOps(d)
    BY <1>2, <2>1 DEF Data, Stage
  <2>3. Whole(d)
    BY DEF Data, Stage, Whole, Cuts, Streams
  <2> QED BY <1>2, <2>2, <2>3 DEF Data, Stage
<1>4. Ended(d, T, K)
  BY <1>1 DEF Data, Ended
<1>5. ~Dead(c)
  BY DEF Dead, Opening
<1> QED BY <1>3, <1>4, <1>5, StateMoves DEF Fatal

\* handle_fin, its first half: the FIN takes a sequence number and the end of
\* the stream is told of.
LEMMA FinTold ==
  ASSUME NEW T \in Sources, NEW K \in Sinks, NEW c \in Cb, NEW d \in Cb, Data(c, T, K),
         c.r.nxt >= 1, Full(T, Sink(c)), ~Fatal(c),
         d.r.nxt = c.r.nxt + 1, d.r.got = c.r.got, d.r.q = c.r.q, d.r.reasm = c.r.reasm,
         d.r.fin = c.r.fin, d.err = "eof", d.st = c.st, d.max = c.max, d.up = c.up,
         d.ops = c.ops, d.sbseq = c.sbseq, d.told = c.told, d.sb = c.sb, d.out = c.out,
         "SENTFIN" \in d.flags <=> "SENTFIN" \in c.flags
  PROVE  Moves(c, d, T, K)
<1> DEFINE S == Source(c)
           L == Sink(c)
           M == Sink(d)
<1>1. /\ S \in Sources /\ L \in Sinks /\ M \in Sinks /\ Source(d) = S
      /\ M.n = L.n /\ M.nxt = L.nxt + 1 /\ M.reasm = L.reasm /\ M.fin = L.fin
      /\ L.n = Arrived(c) /\ L.nxt = c.r.nxt /\ L.n \in Nat /\ L.nxt \in Nat
  <2>1. Arrived(d) = Arrived(c)
    BY DEF Arrived
  <2>2. Source(d) = S
    BY DEF Source, Cuts
  <2>3. L \in Sinks /\ M \in Sinks /\ S \in Sources
        /\ L.n = Arrived(c) /\ L.nxt = c.r.nxt /\ L.reasm = c.r.reasm /\ L.fin = c.r.fin
        /\ M.n = Arrived(d) /\ M.nxt = d.r.nxt /\ M.reasm = d.r.reasm /\ M.fin = d.r.fin
    BY PartTypes
  <2>4. L.n \in Nat /\ L.nxt \in Nat
    BY <2>3 DEF Sinks
  <2> QED BY <2>1, <2>2, <2>3, <2>4
<1>2. Flow(S, K) /\ Flow(T, L) /\ Full(T, L) /\ Says(c, T)
  BY DEF Data
<1> HIDE DEF S, L, M
<1>3. Full(T, M)
  BY <1>1, <1>2 DEF Full
<1>4. Flow(T, M)
  <2>1. M.n = 0 \/ M.n < T.seq
    BY <1>1, <1>2 DEF Flow
  <2>2. M.nxt > M.n + 1
    BY <1>1, <1>2 DEF Flow
  <2>3. /\ T.told => T.seq >= 1
        /\ \A p \in T.cuts : Aligned(T, p)
        /\ \A b \in 1 .. T.seq - 1 : Held(T.cuts, b) \/ HasByte(M, b)
        /\ \A p \in T.cuts : p.seq <= M.n => p.seq + p.len <= M.n + 1
        /\ \A h \in M.reasm : PieceOf(T, h)
    BY <1>1, <1>2 DEF Flow, HasByte
  <2> QED BY <1>1, <1>3, <2>1, <2>2, <2>3 DEF Flow
<1>5. SrcGrows(S, S) /\ SnkGrows(L, M) /\ SrcGrows(T, T)
  <2>1. SrcGrows(S, S) /\ SrcGrows(T, T)
    BY <1>1, GrowsTrans
  <2>2. SnkGrows(L, M)
    BY <1>1 DEF SnkGrows, HasByte
  <2> QED BY <2>1, <2>2
<1>6. Says(d, T)
  <2> SUFFICES ASSUME NEW i \in 1 .. Len(d.out)
               PROVE  Carries(d.out[i], S, M, T)
    BY <1>1 DEF Says, M
  <2>1. d.out \in Seq(Datagram)
    BY CbNumbers
  <2>2. d.out[i] \in Datagram
    BY <2>1
  <2>3. Carries(d.out[i], S, L, T)
    BY <1>2 DEF Says, S, L
  <2> QED BY <1>1, <1>2, <1>4, <1>5, <2>2, <2>3, CarriesGrows
<1>7. Stage(d)
  <2>1. NoOps(d) <=> NoOps(c)
    BY DEF NoOps
  <2>2. Cuts(d) = Cuts(c)
    BY DEF Cuts
  <2>3. Whole(d)
    BY <2>2 DEF Data, Stage, Whole
  <2> QED BY <2>1, <2>2, <2>3 DEF Data, Stage, Opening
<1>8. Ordered(d)
  BY DEF Data, Ordered, Arrived
<1>9. Ended(d, T, K)
  BY <1>1, <1>3 DEF Data, Ended, M, S
<1>10. Data(d, T, K)
  BY <1>1, <1>2, <1>4, <1>6, <1>7, <1>8, <1>9 DEF Data, M
<1>11. Adds(c, d)
  <2>1. Arrived(d) = Arrived(c)
    BY DEF Arrived
  <2>2. Len(c.r.got) <= Len(d.r.got)
    <3>1. c.r \in Half
      BY DEF Cb
    <3>2. c.r.got \in Seq(Nat)
      BY <3>1 DEF Half
    <3> QED BY <3>2, LenProperties
  <2> QED BY <1>1, <1>5, <2>1, <2>2 DEF Adds, Dead, S, L, M
<1> QED BY <1>10, <1>11 DEF Moves

\* handle_fin.
LEMMA HandleFinDoes ==
  ASSUME NEW P \in Peers, NEW T \in Sources, NEW K \in Sinks, NEW c, Good(c, P), Data(c, T, K),
         c.r.nxt >= 1, Full(T, Sink(c)), ~Fatal(c),
         c.st \notin {"LISTEN", "SYN_SENT", "SYN_RECEIVED"}
  PROVE  LET d == HandleFin(c)
         IN  Does(c, d, P, T, K) /\ Tidy(d)
<1> DEFINE r == CountFin(c.r)
           e == [c EXCEPT !.r = r, !.err = "eof"]
           fs == {"ACKNOW", "NOTIFY_READ"}
           b == IF HaveRcvdFin(c) THEN c ELSE On(e, fs)
           d == HandleFin(c)
<1>1. c \in Cb /\ c.r \in Half /\ c.r.nxt \in Nat
  BY CountedSyn, CbNumbers DEF Good, Kept
<1>2. r \in Half /\ r.nxt = c.r.nxt + 1 /\ r.got = c.r.got /\ r.q = c.r.q
      /\ r.reasm = c.r.reasm /\ r.fin = c.r.fin
  <2> DEFINE h == c.r
  <2>1. r = [h EXCEPT !.nxt = h.nxt + 1] /\ h.nxt + 1 \in Nat /\ h \in Half
    BY <1>1 DEF CountFin
  <2> HIDE DEF r, h
  <2>2. r \in Half
    BY <2>1 DEF Half
  <2>3. r.nxt = h.nxt + 1 /\ r.got = h.got /\ r.q = h.q /\ r.reasm = h.reasm /\ r.fin = h.fin
    BY <2>1 DEF Half
  <2> QED BY <2>2, <2>3 DEF h
<1> HIDE DEF r
<1>3. "eof" \in Errs
  BY DEF Errs
<1>4. e \in Cb
  BY ZenonT(60), <1>1, <1>2, <1>3 DEF Cb
<1>5. /\ e.r = r /\ e.err = "eof" /\ e.st = c.st /\ e.max = c.max /\ e.up = c.up /\ e.ops = c.ops
      /\ e.sbseq = c.sbseq /\ e.told = c.told /\ e.sb = c.sb /\ e.out = c.out /\ e.flags = c.flags
  BY <1>1 DEF Cb
<1> HIDE DEF e
<1>6. Moves(c, e, T, K)
  BY <1>1, <1>2, <1>4, <1>5, FinTold
<1>7. fs \in SUBSET (CbFlags \ {"SENTFIN"}) /\ "NOTIFY_DROP" \notin fs
  BY DEF CbFlags
<1>8. /\ Moves(c, b, T, K) /\ b \in Cb /\ b.st = c.st /\ b.err # "none" /\ ~Fatal(b)
  <2>1. CASE HaveRcvdFin(c)
    <3>1. Moves(c, c, T, K)
      BY <1>1, GlidesTrans DEF Glides
    <3>2. c.err # "none"
      BY <2>1 DEF HaveRcvdFin, Good, Kept, Phased
    <3> QED BY <1>1, <2>1, <3>1, <3>2
  <2>2. CASE ~HaveRcvdFin(c)
    <3>1. b = On(e, fs)
      BY <2>2
    <3> HIDE DEF b, fs
    <3>2. Data(e, T, K)
      BY <1>6 DEF Moves
    <3>3. Moves(e, b, T, K) /\ b.st = e.st /\ b.err = e.err
      BY <1>4, <1>7, <3>1, <3>2, FlagsMove
    <3>4. b \in Cb
      BY <3>3 DEF Moves
    <3>5. Moves(c, b, T, K)
      BY <1>1, <1>4, <1>6, <3>3, GlidesTrans
    <3> QED BY <1>5, <3>3, <3>4, <3>5 DEF Fatal
  <2> QED BY <2>1, <2>2
<1>9. Data(b, T, K)
  BY <1>8 DEF Moves
<1>10. Leads(c, d, P)
  BY HandleFinKeeps
<1>11. Good(d, P) /\ d \in Cb
  BY <1>10 DEF Leads, Good, Kept
<1>12. \/ c.st \in {"ESTABLISHED", "CLOSE_WAIT"} /\ d = [b EXCEPT !.st = "CLOSE_WAIT"]
       \/ c.st \in {"FIN_WAIT_1", "CLOSING"} /\ d = [b EXCEPT !.st = "CLOSING"]
       \/ /\ c.st \in {"FIN_WAIT_2", "TIME_WAIT"}
          /\ d = On([b EXCEPT !.st = "TIME_WAIT", !.msl = TRUE], {"NOTIFY_DROP"})
       \/ d = b
  <2> DEFINE b0 == IF HaveRcvdFin(c) THEN c
                   ELSE On([c EXCEPT !.r = CountFin(@), !.err = "eof"], {"ACKNOW", "NOTIFY_READ"})
  <2>1. e = [c EXCEPT !.r = CountFin(@), !.err = "eof"]
    BY <1>1 DEF Cb, e, r
  <2>2. b0 = b
    BY <2>1
  <2>3. \/ c.st \in {"ESTABLISHED", "CLOSE_WAIT"} /\ d = [b0 EXCEPT !.st = "CLOSE_WAIT"]
        \/ c.st \in {"FIN_WAIT_1", "CLOSING"} /\ d = [b0 EXCEPT !.st = "CLOSING"]
        \/ /\ c.st \in {"FIN_WAIT_2", "TIME_WAIT"}
           /\ d = On([b0 EXCEPT !.st = "TIME_WAIT", !.msl = TRUE], {"NOTIFY_DROP"})
        \/ d = b0
    BY DEF HandleFin
  <2> HIDE DEF b0, b, d
  <2> QED BY <2>2, <2>3
<1> HIDE DEF b, d
<1>13. ASSUME \/ d.st = "CLOSE_WAIT" /\ c.st \in {"ESTABLISHED", "CLOSE_WAIT"}
              \/ d.st = "CLOSING" /\ c.st \in {"FIN_WAIT_1", "CLOSING"}
              \/ d.st = "TIME_WAIT" /\ c.st \in {"FIN_WAIT_2", "TIME_WAIT"},
              Streams(b, d), d.max = b.max, d.up = b.up, d.ops = b.ops, d.err = b.err,
              "SENTFIN" \in d.flags <=> "SENTFIN" \in b.flags
       PROVE  Moves(c, d, T, K) /\ d.err = b.err
              /\ d.st \notin {"LISTEN", "SYN_SENT", "SYN_RECEIVED"} /\ d.st \notin FinWait
  <2>1. b.st \notin Opening /\ d.st \notin {"LISTEN", "SYN_SENT", "SYN_RECEIVED"} /\ d.st # "CLOSED"
    BY <1>8, <1>13 DEF Opening
  <2>2. b.told => d.st \in Ending
    BY <1>8, <1>9, <1>13 DEF Data, Stage, Ending
  <2>3. d.st \in {"FIN_WAIT_2", "TIME_WAIT"} =>
          "SENTFIN" \in b.flags /\ Full(Source(b), K) /\ K.nxt >= b.max
    BY <1>8, <1>9, <1>13 DEF Data, Ended
  <2>4. Moves(b, d, T, K)
    BY <1>8, <1>9, <1>11, <1>13, <2>1, <2>2, <2>3, StateGoes
  <2>5. Moves(c, d, T, K)
    BY <1>1, <1>8, <2>4, GlidesTrans
  <2> QED BY <1>13, <2>1, <2>5 DEF FinWait
<1>14. /\ Moves(c, d, T, K) /\ d.err = b.err
       /\ d.st \notin {"LISTEN", "SYN_SENT", "SYN_RECEIVED"}
       /\ d.st \in FinWait => c.st \in FinWait
  <2>1. CASE c.st \in {"ESTABLISHED", "CLOSE_WAIT"} /\ d = [b EXCEPT !.st = "CLOSE_WAIT"]
    <3>1. d.st = "CLOSE_WAIT" /\ Streams(b, d) /\ d.max = b.max /\ d.up = b.up /\ d.ops = b.ops
          /\ d.err = b.err /\ d.flags = b.flags
      BY <1>8, <2>1 DEF Cb, Streams
    <3> QED BY <1>13, <2>1, <3>1
  <2>2. CASE c.st \in {"FIN_WAIT_1", "CLOSING"} /\ d = [b EXCEPT !.st = "CLOSING"]
    <3>1. d.st = "CLOSING" /\ Streams(b, d) /\ d.max = b.max /\ d.up = b.up /\ d.ops = b.ops
          /\ d.err = b.err /\ d.flags = b.flags
      BY <1>8, <2>2 DEF Cb, Streams
    <3> QED BY <1>13, <2>2, <3>1
  <2>3. CASE /\ c.st \in {"FIN_WAIT_2", "TIME_WAIT"}
             /\ d = On([b EXCEPT !.st = "TIME_WAIT", !.msl = TRUE], {"NOTIFY_DROP"})
    <3>1. d = [b EXCEPT !.st = "TIME_WAIT", !.msl = TRUE, !.flags = b.flags \cup {"NOTIFY_DROP"}]
      BY <1>8, <2>3 DEF On, Cb
    <3>2. d.st = "TIME_WAIT" /\ Streams(b, d) /\ d.max = b.max /\ d.up = b.up /\ d.ops = b.ops
          /\ d.err = b.err /\ d.flags = b.flags \cup {"NOTIFY_DROP"}
      BY <1>8, <3>1 DEF Cb, Streams
    <3> QED BY <1>13, <2>3, <3>2
  <2>4. CASE d = b
    BY <1>8, <2>4
  <2> QED BY <1>12, <2>1, <2>2, <2>3, <2>4
<1>15. Tidy(d)
  BY <1>8, <1>14 DEF Tidy, Level, Settled, Doomed, Handshaking, Fatal
<1>16. Pristine(d)
  BY <1>8, <1>14 DEF Pristine, Blank
<1> QED BY <1>11, <1>14, <1>15, <1>16 DEF Does, d

\* update_ack_state, with HaveSndFin: the FIN has been acknowledged by the peer,
\* which has all of the stream.
LEMMA FinAckedDoes ==
  ASSUME NEW P \in Peers, NEW T \in Sources, NEW K \in Sinks, NEW c, Good(c, P), Data(c, T, K),
         c.r.nxt >= 1, "SENTFIN" \in c.flags, Full(Source(c), K), K.nxt >= c.max
  PROVE  LET d == FinAcked(c)
         IN  Does(c, d, P, T, K) /\ d.err = c.err /\ (Doomed(c) => Doomed(d))
             /\ d.st \notin {"LISTEN", "SYN_SENT", "SYN_RECEIVED"}
<1> DEFINE d == FinAcked(c)
           fl == c.flags \cup {"NOTIFY_DROP"}
<1>1. c \in Cb
  BY DEF Good, Kept
<1>2. Leads(c, d, P)
  BY FinAckedKeeps
<1>3. Good(d, P) /\ d \in Cb
  BY <1>2 DEF Leads, Good, Kept
<1>4. c.told /\ c.st \notin {"LISTEN", "SYN_SENT", "SYN_RECEIVED"}
  BY DEF Data, Stage, Ending
<1>5. ASSUME d.st \in {"FIN_WAIT_2", "TIME_WAIT", "CLOSED"}, c.st \in Finishing,
             Streams(c, d), d.max = c.max, d.up = c.up, d.ops = c.ops, d.err = c.err,
             d.flags \in {c.flags, fl}, d.st = "FIN_WAIT_2" => c.st = "FIN_WAIT_1",
             d.st = "CLOSED" => c.st = "LAST_ACK"
      PROVE  /\ Does(c, d, P, T, K) /\ d.err = c.err /\ (Doomed(c) => Doomed(d))
             /\ d.st \notin {"LISTEN", "SYN_SENT", "SYN_RECEIVED"}
  <2>1. c.st \notin Opening /\ c.st # "CLOSED"
    BY <1>5 DEF Opening, Finishing
  <2>2. d.st \in Ending
    BY <1>5 DEF Ending
  <2>3. d.st = "CLOSED" => c.err # "none"
    BY <1>5 DEF Good, Kept, Phased
  <2>4. "SENTFIN" \in d.flags <=> "SENTFIN" \in c.flags
    BY <1>5
  <2>5. Moves(c, d, T, K)
    BY <1>1, <1>3, <1>4, <1>5, <2>1, <2>2, <2>3, <2>4, StateGoes
  <2>6. d.st \in FinWait => c.st \in FinWait
    BY <1>5 DEF FinWait
  <2>7. Doomed(c) => Doomed(d)
    BY <1>5, <2>1 DEF Doomed, Fatal
  <2>8. d.st \notin {"LISTEN", "SYN_SENT", "SYN_RECEIVED"}
    BY <1>5
  <2>9. ~Blank(d)
    BY <1>5, <2>1, <2>3 DEF Blank
  <2> QED BY <1>3, <1>5, <2>5, <2>6, <2>7, <2>8, <2>9 DEF Does, Pristine
<1>6. /\ Does(c, d, P, T, K) /\ d.err = c.err /\ (Doomed(c) => Doomed(d))
      /\ d.st \notin {"LISTEN", "SYN_SENT", "SYN_RECEIVED"}
  <2>1. CASE c.st = "FIN_WAIT_1"
    <3>1. d = [c EXCEPT !.st = "FIN_WAIT_2"]
      BY <2>1 DEF FinAcked
    <3> HIDE DEF d
    <3>2. d.st = "FIN_WAIT_2" /\ Streams(c, d) /\ d.max = c.max /\ d.up = c.up /\ d.ops = c.ops
          /\ d.err = c.err /\ d.flags = c.flags
      BY <1>1, <3>1 DEF Cb, Streams
    <3>3. c.st \in Finishing
      BY <2>1 DEF Finishing
    <3> QED BY <1>5, <2>1, <3>2, <3>3
  <2>2. CASE c.st = "CLOSING"
    <3> DEFINE b == [c EXCEPT !.rexmt = FALSE, !.persist = FALSE, !.keep = FALSE]
    <3>1. d = [b EXCEPT !.msl = TRUE, !.st = "TIME_WAIT", !.flags = fl]
      BY <1>1, <2>2 DEF FinAcked, CancelTimers, On, Cb
    <3>2. b \in Cb /\ Streams(c, b) /\ b.max = c.max /\ b.up = c.up /\ b.ops = c.ops
          /\ b.err = c.err
      BY ZenonT(40), <1>1 DEF Cb, Streams
    <3> HIDE DEF b, d, fl
    <3>3. d.st = "TIME_WAIT" /\ Streams(b, d) /\ d.max = b.max /\ d.up = b.up /\ d.ops = b.ops
          /\ d.err = b.err /\ d.flags = fl
      BY <3>1, <3>2 DEF Cb, Streams
    <3>4. c.st \in Finishing
      BY <2>2 DEF Finishing
    <3>5. Streams(c, d) /\ d.max = c.max /\ d.up = c.up /\ d.ops = c.ops /\ d.err = c.err
      BY <3>2, <3>3 DEF Streams
    <3> QED BY <1>5, <2>2, <3>3, <3>4, <3>5
  <2>3. CASE c.st = "LAST_ACK"
    <3>1. d = [c EXCEPT !.st = "CLOSED", !.flags = fl]
      BY <1>1, <2>3 DEF FinAcked, On, Cb
    <3> HIDE DEF d, fl
    <3>2. d.st = "CLOSED" /\ Streams(c, d) /\ d.max = c.max /\ d.up = c.up /\ d.ops = c.ops
          /\ d.err = c.err /\ d.flags = fl
      BY <1>1, <3>1 DEF Cb, Streams
    <3>3. c.st \in Finishing
      BY <2>3 DEF Finishing
    <3> QED BY <1>5, <2>3, <3>2, <3>3
  <2>4. CASE c.st \notin Finishing
    <3>1. d = c
      BY <2>4 DEF FinAcked, Finishing
    <3>2. Does(c, c, P, T, K)
      BY DoesTrans
    <3> QED BY <1>4, <3>1, <3>2
  <2> QED BY <2>1, <2>2, <2>3, <2>4 DEF Finishing
<1> QED BY <1>6 DEF d

\* The stream starts: its first byte has the sequence number behind the SYN.
LEMMA StartFlow ==
  ASSUME NEW S \in Sources, NEW U \in Sources, NEW K \in Sinks, Flow(S, K), S.seq = 0,
         U.seq = 1, ~S.told, ~U.told, S.cuts = {}, U.cuts = {}
  PROVE  Flow(U, K) /\ SrcGrows(S, U)
<1>1. K.n = 0 /\ K.nxt \in Nat
  BY DEF Flow, Sinks
<1>2. \A h \in K.reasm : PieceOf(U, h)
  <2> SUFFICES ASSUME NEW h \in K.reasm
               PROVE  PieceOf(U, h)
    OBVIOUS
  <2>1. PieceOf(S, h) /\ h.len \in Nat /\ h.seq \in Nat
    BY DEF Flow, Sinks, Packet
  <2>2. ~(h.len > 0) /\ ~h.fin
    BY <2>1 DEF PieceOf, Aligned
  <2> QED BY <2>2 DEF PieceOf
<1>3. ~Full(S, K)
  BY DEF Full
<1>4. K.fin = "none" /\ (K.nxt >= 1 => K.nxt = K.n + 1)
  BY <1>3 DEF Flow
<1>5. \A b \in 1 .. U.seq - 1 : Held(U.cuts, b) \/ HasByte(K, b)
  OBVIOUS
<1>6. Flow(U, K)
  BY <1>1, <1>2, <1>4, <1>5 DEF Flow
<1> QED BY <1>6 DEF SrcGrows

\* update_ack_state, SYN_RECEIVED: the SYN has been acknowledged.
LEMMA EstablishedDoes ==
  ASSUME NEW P \in Peers, P.rcv >= 1, NEW T \in Sources, NEW K \in Sinks, NEW c,
         Good(c, P), Data(c, T, K), c.st = "SYN_RECEIVED", Level(c), c.max >= 1
  PROVE  LET d == OnConnected([(IF c.rtt THEN XmitTimer(c) ELSE c) EXCEPT !.st = "ESTABLISHED"])
         IN  Does(c, d, P, T, K) /\ d.err = c.err /\ d.st = "ESTABLISHED"
<1> DEFINE a == IF c.rtt THEN XmitTimer(c) ELSE c
           up == a.up \/ a.handler
           d == OnConnected([a EXCEPT !.st = "ESTABLISHED"])
           S == Source(c)
           U == Source(d)
<1>1. c \in Cb /\ c.max \in Nat /\ c.nxt \in Nat /\ c.max <= 1 /\ c.sb = {} /\ c.ops = << >>
      /\ c.r.nxt >= 1
  BY CbNumbers, CountedSyn DEF Good, Kept, Phased, Handshaking
<1>2. c.nxt = 1 /\ c.max = 1
  BY <1>1 DEF Level, Handshaking
<1>3. a \in Cb /\ Streams(c, a) /\ a.nxt = c.nxt /\ a.max = c.max /\ a.ops = c.ops
      /\ a.err = c.err /\ a.flags = c.flags
  <2> DEFINE x == XmitTimer(c)
  <2>1. x = [c EXCEPT !.rtt = FALSE, !.shift = 0] /\ 0 \in 0 .. MaxRxtShift
    BY CbAssumption DEF XmitTimer
  <2> HIDE DEF x
  <2>2. x \in Cb
    BY ZenonT(60), <1>1, <2>1 DEF Cb
  <2>3. Streams(c, x) /\ x.nxt = c.nxt /\ x.max = c.max /\ x.ops = c.ops
        /\ x.err = c.err /\ x.flags = c.flags
    BY <1>1, <2>1 DEF Cb, Streams
  <2>4. a = x \/ a = c
    BY DEF x
  <2>5. Streams(c, c)
    BY DEF Streams
  <2> HIDE DEF a
  <2> QED BY <1>1, <2>2, <2>3, <2>4, <2>5
<1>4. d = [a EXCEPT !.st = "ESTABLISHED", !.up = up, !.handler = FALSE, !.sbseq = a.nxt]
  BY <1>3 DEF OnConnected, Cb
<1>5. /\ Good(d, P) /\ d.st = "ESTABLISHED" /\ d.r = c.r /\ d.flags = c.flags
  BY EstablishedKeeps
<1>6. d \in Cb
  BY <1>5 DEF Good, Kept
<1> HIDE DEF a, up, d
<1>7. /\ d.sbseq = 1 /\ d.told = c.told /\ d.sb = {} /\ d.out = c.out /\ d.err = c.err
      /\ d.max = 1 /\ d.ops = << >>
  BY <1>1, <1>2, <1>3, <1>4 DEF Cb, Streams
<1>8. c.sbseq = 0 /\ ~c.told /\ "SENTFIN" \notin c.flags
  BY DEF Data, Stage
<1>9. /\ S \in Sources /\ U \in Sources /\ S.seq = 0 /\ U.seq = 1 /\ ~S.told /\ ~U.told
      /\ S.cuts = {} /\ U.cuts = {}
  BY <1>1, <1>6, <1>7, <1>8, PartTypes DEF Cuts
<1>10. Flow(S, K) /\ Flow(T, Sink(c)) /\ Says(c, T) /\ Ordered(c) /\ Ended(c, T, K)
  BY DEF Data
<1>11. Sink(d) = Sink(c) /\ Arrived(d) = Arrived(c) /\ Sink(c) \in Sinks
  BY <1>1, <1>5, PartTypes DEF Sink, Arrived
<1> HIDE DEF S, U
<1>12. Flow(U, K) /\ SrcGrows(S, U)
  BY <1>9, <1>10, StartFlow
<1>13. SrcGrows(T, T) /\ SnkGrows(Sink(c), Sink(c))
  BY <1>9, <1>11, GrowsTrans
<1>14. Says(d, T)
  <2> SUFFICES ASSUME NEW i \in 1 .. Len(d.out)
               PROVE  Carries(d.out[i], U, Sink(c), T)
    BY <1>11 DEF Says, U
  <2>1. d.out \in Seq(Datagram)
    BY <1>6, CbNumbers
  <2>2. d.out[i] \in Datagram
    BY <2>1
  <2>3. Carries(d.out[i], S, Sink(c), T)
    BY <1>7, <1>10 DEF Says, S
  <2> QED BY <1>9, <1>10, <1>11, <1>12, <1>13, <2>2, <2>3, CarriesGrows
<1>15. Stage(d)
  <2>1. Whole(d)
    BY <1>7 DEF Whole, Cuts
  <2> QED BY <1>5, <1>7, <1>8, <2>1 DEF Stage, NoOps, Opening
<1>16. Ordered(d)
  BY <1>5, <1>10, <1>11 DEF Ordered
<1>17. Ended(d, T, K)
  BY <1>5, <1>7, <1>10, <1>11 DEF Ended
<1>18. Data(d, T, K)
  BY <1>10, <1>11, <1>12, <1>14, <1>15, <1>16, <1>17 DEF Data, U
<1>19. Adds(c, d)
  <2>1. ~Dead(c)
    BY DEF Dead
  <2>2. Len(c.r.got) <= Len(d.r.got)
    <3>1. c.r \in Half
      BY <1>1 DEF Cb
    <3>2. c.r.got \in Seq(Nat)
      BY <3>1 DEF Half
    <3> QED BY <1>5, <3>2, LenProperties
  <2> QED BY <1>7, <1>11, <1>12, <1>13, <2>1, <2>2 DEF Adds, Fatal, S, U
<1>20. Does(c, d, P, T, K)
  BY <1>5, <1>6, <1>18, <1>19 DEF Does, Moves, FinWait, Pristine, Blank
<1> QED BY <1>5, <1>7, <1>20 DEF d, a

\* update_ack_state: everything that was sent has been acknowledged.
LEMMA UpdateAckStateDoes ==
  ASSUME NEW P \in Peers, P.rcv >= 1, NEW T \in Sources, NEW K \in Sinks, NEW c,
         Good(c, P), Data(c, T, K), c.r.nxt >= 1, Level(c), c.max >= 1,
         "SENTFIN" \in c.flags => Full(Source(c), K) /\ K.nxt >= c.max
  PROVE  LET d == UpdateAckState(c)
         IN  Does(c, d, P, T, K) /\ d.err = c.err /\ (Doomed(c) => Doomed(d))
             /\ d.st \notin {"LISTEN", "SYN_SENT", "SYN_RECEIVED"}
<1> DEFINE a == OnConnected([(IF c.rtt THEN XmitTimer(c) ELSE c) EXCEPT !.st = "ESTABLISHED"])
           b == IF c.st = "SYN_RECEIVED" THEN a ELSE c
           d == UpdateAckState(c)
<1>1. c.st \notin {"LISTEN", "SYN_SENT"} /\ c.r.nxt \in Nat /\ c \in Cb
  BY CountedSyn DEF Good, Kept
<1>2. d = IF ~HaveSndFin(b) THEN b ELSE FinAcked(b)
  BY <1>1 DEF UpdateAckState, FinAcked
<1>3. c.st = "SYN_RECEIVED" =>
        /\ Does(c, a, P, T, K) /\ a.err = c.err /\ a.st = "ESTABLISHED" /\ a.flags = c.flags
        /\ a.r = c.r
  BY EstablishedDoes, EstablishedKeeps
<1> HIDE DEF a
<1>4. CASE c.st = "SYN_RECEIVED"
  <2>1. b = a
    BY <1>4
  <2>2. "SENTFIN" \notin c.flags
    BY <1>4 DEF Data, Stage, Ending
  <2>3. d = a
    BY <1>2, <1>3, <1>4, <2>1, <2>2 DEF HaveSndFin
  <2> HIDE DEF b, d
  <2>4. Doomed(c) => Doomed(a)
    BY <1>3, <1>4 DEF Doomed, Fatal
  <2> QED BY <1>3, <1>4, <2>3, <2>4 DEF d
<1>5. CASE c.st # "SYN_RECEIVED"
  <2>1. b = c
    BY <1>5
  <2>2. d = IF "SENTFIN" \notin c.flags THEN c ELSE FinAcked(c)
    BY <1>2, <2>1 DEF HaveSndFin
  <2> HIDE DEF b, d
  <2>3. CASE "SENTFIN" \notin c.flags
    <3>1. Does(c, c, P, T, K)
      BY DoesTrans
    <3> QED BY <1>1, <1>5, <2>2, <2>3, <3>1 DEF d
  <2>4. CASE "SENTFIN" \in c.flags
    <3>1. d = FinAcked(c)
      BY <2>2, <2>4
    <3> QED BY <2>4, <3>1, FinAckedDoes DEF d
  <2> QED BY <2>3, <2>4
<1> QED BY <1>4, <1>5

\* handle_syn, before this end is established: nothing of the stream has come.
LEMMA SynMoves ==
  ASSUME NEW T \in Sources, NEW K \in Sinks, NEW c \in Cb, NEW d \in Cb, Data(c, T, K),
         c.st \in {"LISTEN", "SYN_SENT", "SYN_RECEIVED"}, "NOTIFY_DROP" \notin c.flags,
         Settled(c), SynTaken(c, d)
  PROVE  Moves(c, d, T, K) /\ Settled(d)
<1> DEFINE S == Source(c)
           L == Sink(c)
           M == Sink(d)
<1>1. Arrived(c) = 0 /\ c.r.nxt <= 1 /\ c.r.reasm = {} /\ c.r.fin = "none" /\ Arrived(d) = 0
  BY DEF Settled, SynTaken, Arrived
<1>2. /\ S \in Sources /\ L \in Sinks /\ M \in Sinks /\ Source(d) = S
      /\ M.n = 0 /\ M.nxt = 1 /\ M.reasm = {} /\ M.fin = "none"
      /\ L.n = 0 /\ L.nxt <= 1 /\ L.nxt \in Nat /\ L.reasm = {} /\ L.fin = "none"
  <2>1. Source(d) = S
    BY DEF Source, Cuts, SynTaken
  <2>2. L \in Sinks /\ M \in Sinks /\ S \in Sources
        /\ L.n = Arrived(c) /\ L.nxt = c.r.nxt /\ L.reasm = c.r.reasm /\ L.fin = c.r.fin
        /\ M.n = Arrived(d) /\ M.nxt = d.r.nxt /\ M.reasm = d.r.reasm /\ M.fin = d.r.fin
    BY PartTypes
  <2>3. L.nxt \in Nat
    BY <2>2 DEF Sinks
  <2> QED BY <1>1, <2>1, <2>2, <2>3 DEF SynTaken
<1>3. Flow(S, K) /\ Flow(T, L) /\ Says(c, T)
  BY DEF Data
<1> HIDE DEF S, L, M
<1>4. Flow(T, M)
  <2>1. \A b \in 1 .. T.seq - 1 : Held(T.cuts, b) \/ HasByte(M, b)
    BY <1>2, <1>3 DEF Flow, HasByte
  <2> QED BY <1>2, <1>3, <2>1 DEF Flow
<1>5. SrcGrows(S, S) /\ SnkGrows(L, M) /\ SrcGrows(T, T)
  <2>1. SrcGrows(S, S) /\ SrcGrows(T, T)
    BY <1>2, GrowsTrans
  <2>2. SnkGrows(L, M)
    BY <1>2 DEF SnkGrows, HasByte
  <2> QED BY <2>1, <2>2
<1>6. Says(d, T)
  <2> SUFFICES ASSUME NEW i \in 1 .. Len(d.out)
               PROVE  Carries(d.out[i], S, M, T)
    BY <1>2 DEF Says, M
  <2>1. d.out \in Seq(Datagram)
    BY CbNumbers
  <2>2. d.out[i] \in Datagram
    BY <2>1
  <2>3. Carries(d.out[i], S, L, T)
    BY <1>3 DEF Says, S, L, SynTaken
  <2> QED BY <1>2, <1>3, <1>4, <1>5, <2>2, <2>3, CarriesGrows
<1>7. Stage(d)
  <2>1. Cuts(d) = Cuts(c) /\ NoOps(d) = NoOps(c)
    BY DEF Cuts, NoOps, SynTaken
  <2>2. c.sbseq = 0
    BY DEF Data, Stage
  <2>3. ~c.told /\ "SENTFIN" \notin c.flags /\ Cuts(c) = {} /\ c.ops = << >> /\ ~c.up
    BY <2>2 DEF Data, Stage
  <2>4. Whole(d)
    BY <2>1, <2>3 DEF Whole
  <2> QED BY <2>1, <2>2, <2>3, <2>4 DEF Stage, Opening, SynTaken
<1>8. Ordered(d)
  BY DEF Data, Ordered, Arrived, SynTaken
<1>9. Ended(d, T, K)
  <2>1. d.err = "eof" => Full(T, M)
    BY <1>2 DEF Data, Ended, Full, SynTaken, L
  <2> QED BY <2>1 DEF Ended, SynTaken, M
<1>10. Data(d, T, K)
  BY <1>2, <1>3, <1>4, <1>6, <1>7, <1>8, <1>9 DEF Data, M
<1>11. Adds(c, d)
  <2>1. Len(c.r.got) <= Len(d.r.got)
    <3>1. c.r \in Half
      BY DEF Cb
    <3>2. c.r.got \in Seq(Nat)
      BY <3>1 DEF Half
    <3> QED BY <3>2, LenProperties DEF SynTaken
  <2> QED BY <1>2, <1>5, <2>1 DEF Adds, Dead, Fatal, SynTaken, S, L, M
<1>12. Settled(d)
  BY <1>1 DEF Settled, SynTaken
<1> QED BY <1>10, <1>11, <1>12 DEF Moves

\* handle_syn.
LEMMA HandleSynDoes ==
  ASSUME NEW P \in Peers, NEW T \in Sources, NEW K \in Sinks, NEW c, Good(c, P), Data(c, T, K),
         c.st # "CLOSED", "NOTIFY_DROP" \notin c.flags, Tidy(c), NEW p \in Datagram,
         Sound(p, P, View(c)), "SYN" \in p.flags, "RST" \notin p.flags
  PROVE  LET d == HandleSyn(c, p)
         IN  /\ Does(c, d, P, T, K) /\ Tidy(d) /\ d.err = c.err /\ d.st # "CLOSED"
             /\ "NOTIFY_DROP" \notin d.flags
             /\ SynExpected(c) => /\ d.r.nxt >= 1 /\ d.st \in {"SYN_RECEIVED", "ESTABLISHED"}
                                  /\ d.st = "SYN_RECEIVED" => d.r.nxt = 1
<1> DEFINE d == HandleSyn(c, p)
<1>1. c \in Cb
  BY DEF Good, Kept
<1>2. /\ Leads(c, d, P) /\ d \in Cb
      /\ c.st \in {"LISTEN", "SYN_SENT", "SYN_RECEIVED"} => SynTaken(c, d)
      /\ c.st \notin {"LISTEN", "SYN_SENT", "SYN_RECEIVED"} => Same(c, d)
      /\ SynExpected(c) => d.r.nxt >= 1 /\ d.st \in {"SYN_RECEIVED", "ESTABLISHED"}
  BY HandleSynKeeps
<1> HIDE DEF d
<1>3. Good(d, P)
  BY <1>2 DEF Leads
<1>4. CASE c.st \in {"LISTEN", "SYN_SENT", "SYN_RECEIVED"}
  <2>1. Moves(c, d, T, K) /\ Settled(d)
    BY <1>1, <1>2, <1>4, SynMoves DEF Tidy
  <2>2. Does(c, d, P, T, K)
    BY <1>2, <1>3, <1>4, <2>1 DEF Does, FinWait, SynTaken, Pristine, Blank
  <2>3. Level(d)
    <3>1. c.st = "LISTEN" => c.nxt = c.max
      BY DEF Good, Kept, Phased, Unopened, Fresh
    <3>2. c.nxt = c.max
      BY <1>4, <3>1 DEF Tidy, Level, Handshaking
    <3> QED BY <1>2, <1>4, <3>2 DEF Level, SynTaken
  <2>4. Doomed(d)
    BY <1>2, <1>4 DEF Tidy, Doomed, Fatal, SynTaken
  <2> QED BY <1>2, <1>4, <2>1, <2>2, <2>3, <2>4 DEF Tidy, SynTaken, d
<1>5. CASE c.st \notin {"LISTEN", "SYN_SENT", "SYN_RECEIVED"}
  <2>1. Quiet(c, d, P, T, K)
    BY <1>2, <1>5, SameQuiet
  <2>2. Does(c, d, P, T, K) /\ Tidy(d) /\ d.st = c.st /\ d.err = c.err
        /\ "NOTIFY_DROP" \notin d.flags
    BY <2>1, DoesTrans
  <2> QED BY <1>2, <1>5, <2>2 DEF d
<1> QED BY <1>4, <1>5

----------------------------------------------------------------------------
(* handle_ack: what is freed has arrived. *)

\* Bytes that leave the send buffer because the receiver has them.
LEMMA FreedQuiet ==
  ASSUME NEW P \in Peers, NEW T \in Sources, NEW K \in Sinks, NEW c, Good(c, P), Data(c, T, K),
         NEW d, Leads(c, d, P), Steady(c, d), d.sb \subseteq c.sb,
         \A o \in c.sb \ d.sb : \A b \in o.seq .. (o.seq + o.len - 1) : HasByte(K, b),
         Level(c) => Level(d)
  PROVE  Quiet(c, d, P, T, K)
<1>1. c \in Cb /\ d \in Cb /\ Good(d, P) /\ c.sb \in SUBSET Pkt
  BY CbNumbers DEF Leads, Good, Kept
<1>2. Alike(c, d)
  BY AlikeTrans
<1>3. Cuts(d) \subseteq Cuts(c)
  BY DEF Cuts
<1>4. \A p \in Cuts(c) \ Cuts(d) : \A b \in Nat : Holds(p, b) => HasByte(K, b)
  <2> SUFFICES ASSUME NEW p \in Cuts(c) \ Cuts(d), NEW b \in Nat, Holds(p, b)
               PROVE  HasByte(K, b)
    OBVIOUS
  <2>1. PICK o \in c.sb : p = [seq |-> o.seq, len |-> o.len]
    BY DEF Cuts
  <2>2. o \notin d.sb
    BY <2>1 DEF Cuts
  <2>3. o.seq \in Nat /\ o.len \in Nat
    BY <1>1 DEF Pkt
  <2>4. b \in o.seq .. (o.seq + o.len - 1)
    BY <2>1, <2>3 DEF Holds
  <2> QED BY <2>2, <2>4
<1>5. Glides(c, d, T, K)
  BY <1>1, <1>2, <1>3, <1>4, TrimMoves
<1> QED BY <1>1, <1>5 DEF Quiet

\* handle_option_sack: every byte of a block has arrived.
LEMMA SackQuiet ==
  ASSUME NEW P \in Peers, NEW T \in Sources, NEW K \in Sinks, NEW c, Good(c, P), Data(c, T, K),
         ~Unopened(c), NEW blocks \in SUBSET (Nat \X Nat), \A b \in blocks : b[2] <= c.max,
         \A b \in blocks : \A x \in b[1] .. b[2] - 1 : HasByte(K, x)
  PROVE  LET d == HandleOptionSack(c, blocks)
         IN  Quiet(c, d, P, T, K) /\ d.una = c.una /\ d.nxt = c.nxt /\ d.max = c.max
<1> DEFINE d == HandleOptionSack(c, blocks)
<1>1. /\ Leads(c, d, P) /\ Steady(c, d) /\ d.una = c.una /\ d.nxt = c.nxt /\ d.sb \subseteq c.sb
      /\ \A p \in c.sb \ d.sb : \E b \in blocks : b[1] <= p.seq /\ p.seq + p.len <= b[2]
  BY HandleOptionSackKeeps
<1> HIDE DEF d
<1>2. \A o \in c.sb \ d.sb : \A x \in o.seq .. (o.seq + o.len - 1) : HasByte(K, x)
  <2> SUFFICES ASSUME NEW o \in c.sb \ d.sb, NEW x \in o.seq .. (o.seq + o.len - 1)
               PROVE  HasByte(K, x)
    OBVIOUS
  <2>1. o.seq \in Nat /\ o.len \in Nat
    BY CbNumbers DEF Good, Kept, Pkt
  <2>2. PICK b \in blocks : b[1] <= o.seq /\ o.seq + o.len <= b[2]
    BY <1>1
  <2>3. b[1] \in Nat /\ b[2] \in Nat
    OBVIOUS
  <2>4. x \in b[1] .. b[2] - 1
    BY <2>1, <2>2, <2>3
  <2> QED BY <2>2, <2>4
<1>3. d.max = c.max /\ (Level(c) => Level(d))
  BY <1>1 DEF Steady, Level
<1>4. Quiet(c, d, P, T, K)
  BY <1>1, <1>2, <1>3, FreedQuiet
<1> QED BY <1>1, <1>3, <1>4 DEF d

\* drop_acked_data: every byte before an acknowledgement has arrived.
LEMMA AckedQuiet ==
  ASSUME NEW P \in Peers, NEW T \in Sources, NEW K \in Sinks, NEW c, Good(c, P), Data(c, T, K),
         ~Unopened(c), NEW ack \in Nat, c.una < ack, ack <= c.max,
         ack < c.max \/ ~("SENTFIN" \in c.flags /\ c.st \in Finishing),
         ack <= K.n + 1 \/ Full(Source(c), K)
  PROVE  LET d == DropAckedData(c, ack)
         IN  Quiet(c, d, P, T, K) /\ d.una = ack /\ d.max = c.max /\ d.r = c.r
             /\ d.flags = c.flags
<1> DEFINE d == DropAckedData(c, ack)
           S == Source(c)
<1>1. /\ Leads(c, d, P) /\ Steady(c, d) /\ d.una = ack /\ d.nxt = Greatest(c.nxt, ack)
      /\ d.sb = {p \in c.sb : ~(p.seq < ack)} /\ d.flags = c.flags
  BY DropAckedDataKeeps
<1> HIDE DEF d
<1>2. /\ c \in Cb /\ c.sb \in SUBSET Pkt /\ S \in Sources /\ S.seq = c.sbseq /\ S.cuts = Cuts(c)
      /\ c.nxt \in Nat /\ c.max \in Nat /\ S.seq \in Nat /\ K.n \in Nat
      /\ \A p \in c.sb : p.seq + p.len <= c.sbseq
  BY CbNumbers, PartTypes DEF Good, Kept, Buffered, Sinks, Sources
<1>3. Flow(S, K)
  BY DEF Data
<1> HIDE DEF S
<1>4. \A o \in c.sb \ d.sb : \A x \in o.seq .. (o.seq + o.len - 1) : HasByte(K, x)
  <2> SUFFICES ASSUME NEW o \in c.sb \ d.sb, NEW x \in o.seq .. (o.seq + o.len - 1)
               PROVE  HasByte(K, x)
    OBVIOUS
  <2>1. o.seq \in Nat /\ o.len \in Nat /\ o.seq < ack
    BY <1>1, <1>2 DEF Pkt
  <2>2. CASE ack <= K.n + 1
    <3> DEFINE p == [seq |-> o.seq, len |-> o.len]
    <3>1. p \in S.cuts
      BY <1>2 DEF Cuts
    <3>2. p.seq <= K.n
      BY <1>2, <2>1, <2>2
    <3>3. p.seq + p.len <= K.n + 1
      BY <1>3, <3>1, <3>2 DEF Flow
    <3> QED BY <1>2, <2>1, <3>3 DEF HasByte
  <2>3. CASE Full(S, K)
    <3>1. o.seq + o.len <= K.n + 1
      BY <1>2, <2>3 DEF Full
    <3> QED BY <1>2, <2>1, <3>1 DEF HasByte
  <2> QED BY <2>2, <2>3 DEF S
<1>5. d.max = c.max /\ d.st = c.st /\ d.r = c.r
  BY <1>1 DEF Steady
<1>6. Level(c) => Level(d)
  BY <1>1, <1>2, <1>5 DEF Level, Greatest
<1>7. Quiet(c, d, P, T, K)
  <2>1. d.sb \subseteq c.sb
    BY <1>1
  <2> QED BY <1>1, <1>4, <1>6, <2>1, FreedQuiet
<1> QED BY <1>1, <1>5, <1>7 DEF d

----------------------------------------------------------------------------
(* handle_ack: the other steps. *)

\* A step that moves what is sent next and keeps the packets.
LEMMA SteadyQuiet ==
  ASSUME NEW P \in Peers, NEW T \in Sources, NEW K \in Sinks, NEW c, Good(c, P), Data(c, T, K),
         NEW d, Good(d, P), Steady(c, d), Cuts(d) = Cuts(c), Level(c) => Level(d)
  PROVE  Quiet(c, d, P, T, K)
<1>1. c \in Cb /\ d \in Cb /\ Alike(c, d)
  BY AlikeTrans DEF Good, Kept
<1>2. Glides(c, d, T, K)
  BY <1>1, AlikeGlides
<1> QED BY <1>2 DEF Quiet

\* reset_rexmt_timer.
LEMMA ResetQuiet ==
  ASSUME NEW P \in Peers, NEW T \in Sources, NEW K \in Sinks, NEW c, Good(c, P), Data(c, T, K),
         ~Unopened(c)
  PROVE  LET d == ResetRexmtTimer(c)
         IN  Quiet(c, d, P, T, K) /\ d.una = c.una /\ d.r = c.r /\ d.max = c.max
<1> DEFINE d == ResetRexmtTimer(c)
<1>1. Leads(c, d, P) /\ Steady(c, d) /\ d.una = c.una /\ d.nxt = c.nxt /\ d.sb = c.sb
  BY ResetRexmtTimerKeeps
<1> HIDE DEF d
<1>2. Good(d, P) /\ Cuts(d) = Cuts(c) /\ d.max = c.max /\ d.st = c.st /\ d.r = c.r
  BY <1>1 DEF Leads, Cuts, Steady
<1>3. Level(c) => Level(d)
  BY <1>1, <1>2 DEF Level
<1>4. Quiet(c, d, P, T, K)
  BY <1>1, <1>2, <1>3, SteadyQuiet
<1> QED BY <1>1, <1>2, <1>4 DEF d

\* validate_first_pkt: the marks are no part of the stream.
LEMMA FirstQuiet ==
  ASSUME NEW P \in Peers, NEW T \in Sources, NEW K \in Sinks, NEW c, Good(c, P), Data(c, T, K),
         ~Unopened(c)
  PROVE  LET d == ValidateFirstPkt(c)
         IN  Quiet(c, d, P, T, K) /\ d.una = c.una /\ d.nxt = c.nxt
<1> DEFINE d == ValidateFirstPkt(c)
<1>1. /\ Leads(c, d, P) /\ Steady(c, d) /\ d.una = c.una /\ d.nxt = c.nxt
      /\ \A p \in c.sb : \E q \in d.sb : q.seq = p.seq /\ q.len = p.len
      /\ \A q \in d.sb : \E p \in c.sb : q.seq = p.seq /\ q.len = p.len
  BY ValidateFirstPktKeeps
<1> HIDE DEF d
<1>2. Cuts(d) = Cuts(c)
  BY <1>1, CutsMarked
<1>3. Good(d, P) /\ d.max = c.max /\ d.st = c.st
  BY <1>1 DEF Leads, Steady
<1>4. Level(c) => Level(d)
  BY <1>1, <1>3 DEF Level
<1>5. Quiet(c, d, P, T, K)
  BY <1>1, <1>2, <1>3, <1>4, SteadyQuiet
<1> QED BY <1>1, <1>5 DEF d

\* do_fast_rexmt: m_snd_nxt goes back for one segment and returns.
LEMMA DoFastRexmtQuiet ==
  ASSUME NEW P \in Peers, NEW T \in Sources, NEW K \in Sinks, NEW c, Good(c, P), Data(c, T, K),
         ~Unopened(c), c.st \notin Handshaking, NEW u \in Inputs
  PROVE  Quiet(c, DoFastRexmt(c, c.una, u), P, T, K)
<1> DEFINE lost == HandlePacketLost(c, u)
           c1 == [lost EXCEPT !.rexmt = FALSE, !.nxt = c.una]
           w == Inflight(c1) + MaxSeg
           b == [c1 EXCEPT !.cwnd = w]
           c2 == ValidateFirstPkt(b)
           o == Output(c2, u)
           d == DoFastRexmt(c, c.una, u)
<1>1. /\ c \in Cb /\ c.una \in Nat /\ c.nxt \in Nat /\ c.max \in Nat /\ c.una <= c.nxt
      /\ c.nxt <= c.max
  BY CbNumbers DEF Good, Kept
<1>2. Leads(c, lost, P) /\ Same(c, lost)
  BY HandlePacketLostKeeps
<1>3. d = [o EXCEPT !.cwnd = lost.cwnd, !.nxt = c.nxt]
  BY DEF DoFastRexmt
<1>4. Good(d, P) /\ c.max <= d.max
  BY DoFastRexmtKeeps DEF Leads
<1> HIDE DEF lost, d
<1>5. lost \in Cb /\ Good(lost, P)
  BY <1>2 DEF Leads, Good, Kept
<1>6. Quiet(c, lost, P, T, K)
  BY <1>2, <1>5, SameQuiet
<1>7. /\ Data(lost, T, K) /\ ~Unopened(lost) /\ lost.st = c.st /\ lost.una = c.una
      /\ lost.max = c.max /\ lost.fack = c.fack /\ lost.err = c.err /\ lost.cwnd \in Nat \ {0}
  BY <1>2, <1>5, <1>6, DoesTrans, CbNumbers DEF Same, Unopened
<1>8. c1 \in Cb /\ Good(c1, P) /\ Steady(lost, c1) /\ c1.sb = lost.sb
  <2>1. c1 \in Cb
    BY ZenonT(40), <1>1, <1>5 DEF Cb
  <2>2. /\ c1.st = lost.st /\ c1.err = lost.err /\ c1.max = lost.max /\ c1.up = lost.up
        /\ c1.ops = lost.ops /\ c1.r = lost.r /\ c1.out = lost.out /\ c1.flags = lost.flags
        /\ c1.bad = lost.bad /\ c1.una = lost.una
    BY <1>5 DEF Cb
  <2>3. /\ c1.sb = lost.sb /\ c1.sbseq = lost.sbseq /\ c1.retrans = lost.retrans
        /\ c1.persist = lost.persist /\ c1.fack = lost.fack /\ c1.nxt = c.una
        /\ c1.rexmt = FALSE /\ c1.told = lost.told
    BY <1>5 DEF Cb
  <2> HIDE DEF c1
  <2>4. Steady(lost, c1) /\ Buffered(c1)
    BY <1>1, <1>5, <1>7, <2>2, <2>3 DEF Steady, Buffered, Good, Kept
  <2>5. /\ c1.una <= c1.nxt /\ c1.nxt <= c1.max /\ c1.una <= c1.fack /\ c1.fack <= c1.max
        /\ ~(c1.rexmt /\ c1.persist)
    BY <1>1, <1>5, <1>7, <2>2, <2>3 DEF Good, Kept
  <2>6. Good(c1, P)
    BY <1>5, <1>7, <2>1, <2>2, <2>4, <2>5, SteadyGood
  <2> QED BY <2>1, <2>3, <2>4, <2>6
<1> HIDE DEF c1
<1>9. Quiet(lost, c1, P, T, K)
  <2>1. Cuts(c1) = Cuts(lost) /\ Level(c1)
    BY <1>7, <1>8 DEF Cuts, Level, Steady
  <2> QED BY <1>5, <1>7, <1>8, <2>1, SteadyQuiet
<1>10. Data(c1, T, K) /\ c1.st = c.st /\ c1.err = c.err
  BY <1>5, <1>7, <1>9, DoesTrans
<1>11. b \in Cb /\ Same(c1, b)
  <2>1. c1.nxt \in Nat /\ c1.fack \in Nat /\ c1.retrans \in Int
    BY <1>8, CbNumbers
  <2>2. w \in Nat \ {0}
    BY <2>1, RcvBufAssumption DEF Inflight, Greatest
  <2> HIDE DEF w
  <2>3. b \in Cb
    BY <1>8, <2>2 DEF Cb
  <2>4. b = [c1 EXCEPT !.cwnd = w, !.incr = c1.incr]
    BY <1>8 DEF Cb
  <2> HIDE DEF b
  <2>5. Same(c1, b)
    BY <1>8, <2>3, <2>4, CwndKeeps
  <2> QED BY <2>3, <2>5
<1> HIDE DEF b
<1>12. Quiet(c1, b, P, T, K)
  BY <1>8, <1>10, <1>11, SameQuiet
<1>13. Good(b, P) /\ Data(b, T, K) /\ b.st = c.st /\ b.err = c.err /\ ~Unopened(b)
  <2>1. Good(b, P) /\ Data(b, T, K) /\ b.st = c1.st /\ b.err = c1.err
    BY <1>8, <1>12, QuietDoes
  <2>2. b.st = lost.st /\ b.err = lost.err
    BY <1>7, <1>10, <2>1
  <2> QED BY <1>7, <2>1, <2>2 DEF Unopened
<1>14. Quiet(b, c2, P, T, K)
  BY <1>13, FirstQuiet
<1> HIDE DEF c2
<1>15. Good(c2, P) /\ Data(c2, T, K) /\ c2.st = c.st /\ c2.err = c.err /\ c2.st # "LISTEN"
  BY <1>13, <1>14, DoesTrans DEF Unopened
<1>16. Quiet(c2, o, P, T, K)
  BY <1>15, OutputQuiet
<1> HIDE DEF o
<1>17. Good(o, P) /\ Data(o, T, K) /\ o \in Cb /\ o.st = c.st /\ o.err = c.err
  BY <1>15, <1>16, DoesTrans
<1>18. Quiet(c, c1, P, T, K)
  BY <1>6, <1>9, DoesTrans
<1>19. Quiet(c, b, P, T, K)
  BY <1>12, <1>18, DoesTrans
<1>20. Quiet(c, c2, P, T, K)
  BY <1>14, <1>19, DoesTrans
<1>21. Quiet(c, o, P, T, K)
  BY <1>16, <1>20, DoesTrans
<1>22. d \in Cb /\ d.sb = o.sb
  BY <1>3, <1>4, <1>17 DEF Good, Kept, Cb
<1>23. /\ d.st = o.st /\ d.err = o.err /\ d.max = o.max /\ d.up = o.up
       /\ d.ops = o.ops /\ d.r = o.r /\ d.out = o.out /\ d.flags = o.flags
       /\ d.sbseq = o.sbseq /\ d.told = o.told
  BY <1>3, <1>17 DEF Cb
<1>24. Glides(o, d, T, K)
  <2>1. Alike(o, d) /\ Cuts(d) = Cuts(o)
    BY <1>22, <1>23 DEF Alike, Cuts
  <2> QED BY <1>17, <1>22, <2>1, AlikeGlides
<1>25. Quiet(o, d, P, T, K)
  BY <1>4, <1>17, <1>23, <1>24 DEF Quiet, Level
<1> QED BY <1>21, <1>25, DoesTrans DEF d

\* A FIN is acknowledged only when the peer has counted it behind every byte.
LEMMA FinHeard ==
  ASSUME NEW T \in Sources, NEW K \in Sinks, NEW c \in Cb, Data(c, T, K), NEW ack \in Nat,
         ack = c.max, ack <= K.nxt, ack <= K.n + 1 \/ Full(Source(c), K), "SENTFIN" \in c.flags
  PROVE  Full(Source(c), K) /\ K.nxt >= c.max
<1>1. c.told /\ c.max = c.sbseq + 1 /\ c.sbseq \in Nat /\ c.max \in Nat
  BY CbNumbers DEF Data, Stage
<1>2. /\ Source(c).seq = c.sbseq /\ Source(c).told = c.told /\ K.n \in Nat /\ K.nxt \in Nat
  BY PartTypes DEF Sinks
<1>3. (K.n = 0 \/ K.n < Source(c).seq) /\ Source(c).seq >= 1
  BY <1>1, <1>2 DEF Data, Flow
<1>4. ~(ack <= K.n + 1)
  BY <1>1, <1>2, <1>3
<1> QED BY <1>2, <1>4

\* handle_ack, up to the choice of what the acknowledgement number asks for.
LEMMA AckReceivedDoes ==
  ASSUME NEW P \in Peers, P.rcv >= 1, NEW T \in Sources, NEW K \in Sinks, NEW c,
         Good(c, P), Data(c, T, K), c.r.nxt >= 1, Level(c), NEW p \in Datagram,
         p.ack >= 1, c.una <= p.ack, p.ack <= c.max,
         p.ack <= K.nxt, p.ack <= K.n + 1 \/ Full(Source(c), K),
         \A b \in p.sack : b[2] <= c.max,
         \A b \in p.sack : \A x \in b[1] .. b[2] - 1 : HasByte(K, x)
  PROVE  LET s == HandleOptionSack(IF AcksAll(c, p) THEN UpdateAckState(c) ELSE c, p.sack)
         IN  /\ Does(c, s, P, T, K) /\ s.err = c.err
             /\ s.st \notin {"LISTEN", "SYN_SENT", "SYN_RECEIVED"}
             /\ p.ack <= K.n + 1 \/ Full(Source(s), K)
<1> DEFINE x == IF AcksAll(c, p) THEN UpdateAckState(c) ELSE c
           s == HandleOptionSack(x, p.sack)
<1>1. /\ c \in Cb /\ c.max \in Nat /\ p.ack \in Nat /\ p.sack \in SUBSET (Nat \X Nat)
      /\ c.st \notin {"LISTEN", "SYN_SENT"}
  BY CbNumbers, CountedSyn DEF Good, Kept, Datagram
<1>2. /\ Does(c, x, P, T, K) /\ x.err = c.err /\ x.max = c.max /\ x.r = c.r
      /\ x.st \notin {"LISTEN", "SYN_SENT", "SYN_RECEIVED"}
  <2>1. CASE AcksAll(c, p)
    <3>1. p.ack = c.max
      BY <2>1 DEF AcksAll
    <3>2. "SENTFIN" \in c.flags => Full(Source(c), K) /\ K.nxt >= c.max
      BY <1>1, <3>1, FinHeard
    <3>3. c.max >= 1
      BY <3>1
    <3>4. x = UpdateAckState(c)
      BY <2>1
    <3> HIDE DEF x
    <3>5. x.max = c.max /\ x.r = c.r
      BY <3>4, UpdateAckStateKeeps
    <3>6. Does(c, x, P, T, K) /\ x.err = c.err /\ x.st \notin {"LISTEN", "SYN_SENT", "SYN_RECEIVED"}
      BY <3>2, <3>3, <3>4, UpdateAckStateDoes
    <3> QED BY <3>5, <3>6
  <2>2. CASE ~AcksAll(c, p)
    <3>1. x = c /\ p.ack # c.max
      BY <2>2 DEF AcksAll
    <3>2. c.st # "SYN_RECEIVED"
      BY <1>1, <3>1 DEF Good, Kept, Phased, Handshaking
    <3>3. Does(c, c, P, T, K)
      BY DoesTrans
    <3> QED BY <1>1, <3>1, <3>2, <3>3
  <2> QED BY <2>1, <2>2
<1> HIDE DEF x
<1>3. Good(x, P) /\ Data(x, T, K) /\ x \in Cb
  BY <1>2, DoesTrans
<1>4. ~Unopened(x)
  BY <1>2, <1>3, CountedSyn
<1>5. Quiet(x, s, P, T, K)
  BY <1>1, <1>2, <1>3, <1>4, SackQuiet
<1> HIDE DEF s
<1>6. Does(c, s, P, T, K)
  BY <1>2, <1>5, <1>3, DoesTrans
<1>7. s.err = x.err /\ s.st = x.st /\ Data(s, T, K) /\ s \in Cb
  BY <1>3, <1>5, DoesTrans
<1>8. p.ack <= K.n + 1 \/ Full(Source(s), K)
  <2>1. Source(c) \in Sources /\ Source(s) \in Sources
    BY <1>1, <1>7, PartTypes
  <2>2. SrcGrows(Source(c), Source(s)) /\ SnkGrows(K, K)
    BY <1>6, <2>1, GrowsTrans, PartTypes, <1>1 DEF Does, Moves, Adds
  <2>3. Flow(Source(c), K) /\ Flow(Source(s), K)
    BY <1>7 DEF Data
  <2> QED BY <2>1, <2>2, <2>3, FullGrows
<1> QED BY <1>2, <1>6, <1>7, <1>8 DEF s, x

\* handle_ack, an acknowledgement of what was never sent: the connection is
\* about to be dropped.
LEMMA MalformedDoes ==
  ASSUME NEW P \in Peers, NEW T \in Sources, NEW K \in Sinks, NEW c, Good(c, P), Data(c, T, K),
         Level(c), NEW e \in {"malformed_packet", "connection_reset"},
         NEW fs \in SUBSET {"NOTIFY_DROP", "NEED_RESET"}, "NOTIFY_DROP" \in fs
  PROVE  LET d == On([c EXCEPT !.err = e], fs)
         IN  Does(c, d, P, T, K) /\ Tidy(d)
<1> DEFINE a == WithErr(c, e)
           d == On([c EXCEPT !.err = e], fs)
<1>1. e \in Errs /\ e # "none" /\ e # "eof"
  BY DEF Errs
<1>2. /\ Does(c, a, P, T, K) /\ a.err = e /\ a.st = c.st /\ a.r = c.r
      /\ a.flags = c.flags
  BY <1>1, ErrDoes
<1>3. d = On(a, fs) /\ a.nxt = c.nxt /\ a.max = c.max
  BY DEF WithErr, Good, Kept, Cb
<1>4. fs \in SUBSET (CbFlags \ {"SENTFIN"})
  BY DEF CbFlags
<1> HIDE DEF a, d
<1>5. Good(a, P) /\ Data(a, T, K) /\ a \in Cb
  BY <1>2, DoesTrans
<1>6. Leads(a, d, P)
  BY <1>1, <1>2, <1>3, <1>4, <1>5, OnLeads
<1>7. /\ Moves(a, d, T, K) /\ d.st = a.st /\ d.err = a.err /\ d.nxt = a.nxt /\ d.max = a.max
      /\ d.flags = a.flags \cup fs
  <2>1. d = On(a, fs)
    BY <1>3
  <2>2. a \in Cb /\ Data(a, T, K)
    BY <1>5
  <2> QED BY <1>4, <2>1, <2>2, FlagsMove
<1>8. Does(a, d, P, T, K)
  BY <1>1, <1>2, <1>6, <1>7 DEF Leads, Does, Pristine, Blank
<1>9. Does(c, d, P, T, K)
  BY <1>2, <1>5, <1>8, DoesTrans
<1>10. Tidy(d)
  BY <1>2, <1>3, <1>7 DEF Tidy, Level, Settled, Doomed
<1> QED BY <1>9, <1>10 DEF d

\* handle_ack: whatever an acknowledgement is, a new one, a repeated one, an old
\* one or one of something never sent.
LEMMA HandleAckDoes ==
  ASSUME NEW P \in Peers, NEW T \in Sources, NEW K \in Sinks, NEW c, Good(c, P), Data(c, T, K),
         c.r.nxt >= 1, Level(c), ~Fatal(c), NEW p \in Datagram, NEW u \in Inputs,
         Sound(p, P, View(c)), "ACK" \in p.flags, "RST" \notin p.flags,
         p.ack <= K.nxt, p.ack <= K.n + 1 \/ Full(Source(c), K),
         \A b \in p.sack : \A x \in b[1] .. b[2] - 1 : HasByte(K, x)
  PROVE  LET a == HandleAck(c, p, u)
         IN  /\ Does(c, a.c, P, T, K) /\ Tidy(a.c)
             /\ ~a.done => /\ a.c.err = c.err
                           /\ a.c.st \notin {"LISTEN", "SYN_SENT", "SYN_RECEIVED"}
<1> DEFINE s == HandleOptionSack(IF AcksAll(c, p) THEN UpdateAckState(c) ELSE c, p.sack)
           d == HandleAck(c, p, u).c
           done == HandleAck(c, p, u).done
           early == {"LISTEN", "SYN_SENT", "SYN_RECEIVED"}
           Fine(x) == Does(c, x, P, T, K) /\ x.err = c.err /\ x.st \notin early
           dup == Noted(s, s.wnd, Least(s.dupacks + 1, RexmtThresh + 1), s.rtt)
           e1 == Noted(s, p.win, s.dupacks, s.rtt)
           e2 == Noted(s, s.wnd, 0, s.rtt)
           e3 == Noted(dup, dup.wnd, dup.dupacks, FALSE)
           err == On([c EXCEPT !.err = "malformed_packet"], {"NOTIFY_DROP", "NEED_RESET"})
           upd == ResetRexmtTimer(On(e1, {"NEED_OUTPUT"}))
           idle == ResetRexmtTimer(e2)
           fast == DoFastRexmt(e3, p.ack, u)
           more == On(dup, {"NEED_OUTPUT"})
           again == ResetRexmtTimer(dup)
           g == IncrCwnd(s)
           h == [g EXCEPT !.dupacks = 0]
           k == DropAckedData(h, p.ack)
           l == [k EXCEPT !.wnd = p.win]
           new == ResetRexmtTimer(On(l, {"NOTIFY_WRITE", "NEED_OUTPUT"}))
<1>1. /\ c \in Cb /\ c.max \in Nat /\ c.una \in Nat /\ p.ack \in Nat /\ p.win \in Nat
      /\ p.ack >= 1 /\ P.rcv >= 1 /\ ~Unopened(c) /\ \A b \in p.sack : b[2] <= c.max
      /\ c.una <= c.max
  BY CountedSyn, CbNumbers DEF Good, Kept, Datagram, Sound, View
<1>2. \A x : Fine(x) => Does(c, x, P, T, K) /\ Tidy(x)
  <2> TAKE x
  <2> HAVE Fine(x)
  <2>1. Level(x) /\ Settled(x)
    BY DEF Level, Handshaking, Settled
  <2>2. Doomed(x)
    BY DEF Doomed, Fatal
  <2> QED BY <2>1, <2>2 DEF Tidy
<1>3. Does(c, err, P, T, K) /\ Tidy(err)
  <2> DEFINE e == "malformed_packet"
             fs == {"NOTIFY_DROP", "NEED_RESET"}
  <2>1. /\ e \in {"malformed_packet", "connection_reset"}
        /\ fs \in SUBSET {"NOTIFY_DROP", "NEED_RESET"} /\ "NOTIFY_DROP" \in fs
    OBVIOUS
  <2>2. err = On([c EXCEPT !.err = e], fs)
    OBVIOUS
  <2> HIDE DEF e, fs, err
  <2> QED BY <2>1, <2>2, MalformedDoes
<1>4. CASE p.ack < c.una
  <2>1. HandleAck(c, p, u) = [c |-> c, done |-> TRUE]
    <3>1. p.ack # c.una /\ ~(p.ack > c.max) /\ ~(p.ack > c.una)
      BY <1>1, <1>4
    <3> HIDE DEF err
    <3> QED BY <1>4, <3>1 DEF HandleAck
  <2>2. c.st \notin early
    <3>1. c.st \notin {"LISTEN", "SYN_SENT"}
      BY CountedSyn
    <3>2. c.max >= 2
      BY <1>1, <1>4
    <3> QED BY <1>1, <3>1, <3>2 DEF Good, Kept, Phased, Handshaking
  <2>3. Fine(c)
    BY <2>2, DoesTrans
  <2>4. Does(c, c, P, T, K) /\ Tidy(c)
    BY <1>2, <2>3
  <2> QED BY <2>1, <2>4
<1>5. CASE p.ack > c.max
  <2>1. ~(p.ack < c.una)
    BY <1>1, <1>5
  <2>2. HandleAck(c, p, u) = [done |-> TRUE, c |-> err]
    <3>1. p.ack # c.una /\ ~(p.ack <= c.max)
      BY <1>1, <1>5
    <3> HIDE DEF err
    <3> QED BY <1>5, <2>1, <3>1 DEF HandleAck, err
  <2> HIDE DEF err
  <2> QED BY <1>3, <2>2
<1>6. CASE c.una <= p.ack /\ p.ack <= c.max
  <2>1. /\ Does(c, s, P, T, K) /\ s.err = c.err /\ s.st \notin early
        /\ p.ack <= K.n + 1 \/ Full(Source(s), K)
    BY <1>1, <1>6, AckReceivedDoes
  <2>2. /\ Good(s, P) /\ s.max = c.max /\ s.una = c.una /\ s.r = c.r
        /\ p.ack = c.max => ~("SENTFIN" \in s.flags /\ s.st \in Finishing)
    BY <1>1, AckReceived
  <2>3. s \in Cb /\ s.wnd \in Nat /\ s.dupacks \in Nat /\ s.rtt \in BOOLEAN /\ s.max \in Nat
    BY <2>2 DEF Good, Kept, Cb
  <2>4. Least(s.dupacks + 1, RexmtThresh + 1) \in Nat
    BY <2>3, CbAssumption DEF Least
  <2>5. dup = [s EXCEPT !.dupacks = Least(@ + 1, RexmtThresh + 1)]
    BY <2>3 DEF Noted, Cb
  <2>6. e1 = [s EXCEPT !.wnd = p.win] /\ e2 = [s EXCEPT !.dupacks = 0]
    BY <2>3 DEF Noted, Cb
  <2>7. Data(s, T, K) /\ ~Unopened(s)
    BY <2>1, <2>2, CountedSyn, DoesTrans
  <2> HIDE DEF s
  <2>8. \A x, y : Fine(x) /\ Quiet(x, y, P, T, K) => Fine(y)
    <3> SUFFICES ASSUME NEW x, NEW y, Fine(x), Quiet(x, y, P, T, K) PROVE Fine(y)
      OBVIOUS
    <3>1. /\ Does(c, x, P, T, K) /\ Quiet(x, y, P, T, K)
          /\ x.err = c.err /\ x.st \notin early
      OBVIOUS
    <3> HIDE DEF Fine
    <3>2. Good(x, P)
      BY <3>1 DEF Does
    <3>3. Does(x, y, P, T, K) /\ y.err = x.err /\ y.st = x.st
      BY <3>1, <3>2, QuietDoes
    <3>4. Does(c, y, P, T, K)
      BY <3>1, <3>3, DoesTrans
    <3> QED BY <3>1, <3>3, <3>4 DEF Fine
  <2>9. Fine(s)
    BY <2>1
  <2>10. \A x : Fine(x) => Good(x, P) /\ Data(x, T, K) /\ x \in Cb /\ x.st \notin early
    BY DoesTrans
  <2> HIDE DEF Fine
  <2>11. /\ Leads(s, dup, P) /\ Same(s, dup) /\ dup.una = s.una /\ dup.max = s.max /\ dup.r = s.r
         /\ dup.rexmt = s.rexmt
    BY <2>2, <2>3, <2>4, NotedKeeps
  <2>12. Leads(s, e1, P) /\ Same(s, e1)
    BY <1>1, <2>2, <2>3, NotedKeeps
  <2>13. Leads(s, e2, P) /\ Same(s, e2)
    <3> DEFINE z == 0
    <3>1. z \in Nat /\ e2 = Noted(s, s.wnd, z, s.rtt)
      OBVIOUS
    <3> HIDE DEF z, e2
    <3> QED BY <2>2, <2>3, <3>1, NotedKeeps
  <2> HIDE DEF dup, e1, e2
  <2>14. \A x : Leads(s, x, P) => x \in Cb
    BY DEF Leads, Good, Kept
  <2>15. Quiet(s, dup, P, T, K) /\ Quiet(s, e1, P, T, K) /\ Quiet(s, e2, P, T, K)
    <3>1. dup \in Cb /\ e1 \in Cb /\ e2 \in Cb
      BY <2>11, <2>12, <2>13, <2>14
    <3> QED BY <2>2, <2>7, <2>11, <2>12, <2>13, <3>1, SameQuiet
  <2>16. Fine(dup) /\ Fine(e1) /\ Fine(e2)
    BY <2>8, <2>9, <2>15
  <2>17. /\ {"NEED_OUTPUT"} \in SUBSET (CbFlags \ {"SENTFIN", "NOTIFY_DROP"})
         /\ {"NOTIFY_WRITE", "NEED_OUTPUT"} \in SUBSET (CbFlags \ {"SENTFIN", "NOTIFY_DROP"})
    BY DEF CbFlags
  <2>18. \A x : Fine(x) /\ x.r.nxt = c.r.nxt => ~Unopened(x)
    BY <2>10, CountedSyn
  <2>19. \A x : Quiet(s, x, P, T, K) => x.r.nxt = c.r.nxt
    BY <2>2, <2>7, DoesTrans
  <2>20. ~Unopened(dup) /\ ~Unopened(e1) /\ ~Unopened(e2)
    BY <2>15, <2>16, <2>18, <2>19
  <2>21. \A x : Fine(x) /\ ~Unopened(x) =>
           /\ Quiet(x, ResetRexmtTimer(x), P, T, K) /\ Fine(ResetRexmtTimer(x))
           /\ \A fs \in SUBSET (CbFlags \ {"SENTFIN", "NOTIFY_DROP"}) :
                Quiet(x, On(x, fs), P, T, K) /\ Fine(On(x, fs)) /\ ~Unopened(On(x, fs))
    <3> SUFFICES ASSUME NEW x, Fine(x), ~Unopened(x)
                 PROVE  /\ Quiet(x, ResetRexmtTimer(x), P, T, K) /\ Fine(ResetRexmtTimer(x))
                        /\ \A fs \in SUBSET (CbFlags \ {"SENTFIN", "NOTIFY_DROP"}) :
                             Quiet(x, On(x, fs), P, T, K) /\ Fine(On(x, fs)) /\ ~Unopened(On(x, fs))
      OBVIOUS
    <3>1. Good(x, P) /\ Data(x, T, K) /\ x \in Cb
      BY <2>10
    <3>2. Quiet(x, ResetRexmtTimer(x), P, T, K)
      BY <3>1, ResetQuiet
    <3>3. ASSUME NEW fs \in SUBSET (CbFlags \ {"SENTFIN", "NOTIFY_DROP"})
          PROVE  Quiet(x, On(x, fs), P, T, K) /\ Fine(On(x, fs)) /\ ~Unopened(On(x, fs))
      <4>1. Quiet(x, On(x, fs), P, T, K)
        BY <3>1, FlagsQuiet
      <4>2. On(x, fs).st = x.st /\ On(x, fs).err = x.err
        BY <3>1, <4>1, DoesTrans
      <4> QED BY <2>8, <4>1, <4>2 DEF Unopened
    <3> QED BY <2>8, <3>2, <3>3
  <2>22. Fine(upd) /\ Fine(idle) /\ Fine(more) /\ Fine(again)
    BY <2>16, <2>17, <2>20, <2>21
  <2>23. Fine(fast) \/ p.ack # c.una
    <3> SUFFICES ASSUME p.ack = c.una PROVE Fine(fast)
      OBVIOUS
    <3>1. dup \in Cb /\ dup.wnd \in Nat /\ dup.dupacks \in Nat /\ Good(dup, P) /\ Data(dup, T, K)
      <4>1. dup \in Cb /\ Good(dup, P) /\ Data(dup, T, K)
        BY <2>10, <2>16
      <4> QED BY <4>1 DEF Cb
    <3>2. Leads(dup, e3, P) /\ Same(dup, e3) /\ e3.una = dup.una
      <4> DEFINE f == FALSE
      <4>1. f \in BOOLEAN /\ e3 = Noted(dup, dup.wnd, dup.dupacks, f)
        OBVIOUS
      <4> HIDE DEF f, e3
      <4> QED BY <3>1, <4>1, NotedKeeps
    <3> HIDE DEF e3
    <3>3. e3 \in Cb
      BY <3>2 DEF Leads, Good, Kept
    <3>4. Quiet(dup, e3, P, T, K)
      BY <3>1, <3>2, <3>3, SameQuiet
    <3>5. Fine(e3)
      BY <2>8, <2>16, <3>4
    <3>6. Good(e3, P) /\ Data(e3, T, K) /\ e3.st \notin early /\ ~Unopened(e3)
      BY <2>10, <2>20, <3>2, <3>5 DEF Same, Unopened
    <3>7. e3.una = p.ack
      BY <2>2, <2>11, <3>2
    <3>8. Quiet(e3, DoFastRexmt(e3, e3.una, u), P, T, K)
      BY <3>6, DoFastRexmtQuiet DEF Handshaking
    <3> QED BY <2>8, <3>5, <3>7, <3>8
  <2>24. Fine(new) \/ ~(p.ack > c.una)
    <3> SUFFICES ASSUME p.ack > c.una PROVE Fine(new)
      OBVIOUS
    <3>1. Leads(s, g, P) /\ Same(s, g)
      BY <2>2, IncrCwndKeeps
    <3> HIDE DEF g
    <3>2. g \in Cb /\ g.wnd \in Nat /\ g.rtt \in BOOLEAN /\ Good(g, P)
      BY <3>1 DEF Leads, Good, Kept, Cb
    <3>3. Quiet(s, g, P, T, K)
      BY <2>2, <2>7, <3>1, <3>2, SameQuiet
    <3>4. Fine(g) /\ Data(g, T, K)
      BY <2>8, <2>9, <2>10, <3>3
    <3>5. Leads(g, h, P) /\ Same(g, h)
      <4> DEFINE z == 0
      <4>1. z \in Nat /\ h = Noted(g, g.wnd, z, g.rtt)
        BY <3>2 DEF Noted, Cb
      <4> HIDE DEF z, h
      <4> QED BY <3>2, <4>1, NotedKeeps
    <3> HIDE DEF h
    <3>6. h \in Cb /\ Good(h, P)
      BY <3>5 DEF Leads, Good, Kept
    <3>7. Quiet(g, h, P, T, K)
      BY <3>2, <3>4, <3>5, <3>6, SameQuiet
    <3>8. Fine(h) /\ Data(h, T, K)
      BY <2>8, <2>10, <3>4, <3>7
    <3>9. /\ h.una = c.una /\ h.max = c.max /\ ~Unopened(h) /\ Source(h) = Source(s)
          /\ p.ack = c.max => ~("SENTFIN" \in h.flags /\ h.st \in Finishing)
      BY <2>2, <2>7, <3>1, <3>5 DEF Same, Unopened, Source, Cuts
    <3>10. p.ack <= K.n + 1 \/ Full(Source(h), K)
      BY <2>1, <3>9
    <3>11. /\ h.una < p.ack /\ p.ack <= h.max
           /\ p.ack < h.max \/ ~("SENTFIN" \in h.flags /\ h.st \in Finishing)
      BY <1>1, <1>6, <3>9
    <3>12. Quiet(h, k, P, T, K)
      BY <1>1, <3>6, <3>8, <3>9, <3>10, <3>11, AckedQuiet
    <3> HIDE DEF k
    <3>13. Fine(k) /\ ~Unopened(k)
      <4>1. Fine(k)
        BY <2>8, <3>8, <3>12
      <4>2. k.st = h.st /\ k.err = h.err
        BY <3>6, <3>12, QuietDoes
      <4> QED BY <3>9, <4>1, <4>2 DEF Unopened
    <3>14. k \in Cb /\ Good(k, P) /\ Data(k, T, K) /\ k.dupacks \in Nat /\ k.rtt \in BOOLEAN
      BY <2>10, <3>13 DEF Cb
    <3>15. l = Noted(k, p.win, k.dupacks, k.rtt)
      BY <3>14 DEF Noted, Cb
    <3> HIDE DEF l
    <3>16. Leads(k, l, P) /\ Same(k, l)
      BY <1>1, <3>14, <3>15, NotedKeeps
    <3>17. l \in Cb
      BY <3>16 DEF Leads, Good, Kept
    <3>18. Quiet(k, l, P, T, K)
      BY <3>14, <3>16, <3>17, SameQuiet
    <3>19. Fine(l) /\ ~Unopened(l)
      BY <2>8, <3>13, <3>16, <3>18 DEF Same, Unopened
    <3> QED BY <2>17, <2>21, <3>19
  <2>25. /\ p.ack = c.una => HandleAck(c, p, u) \in
              {[done |-> FALSE, c |-> upd], [done |-> FALSE, c |-> idle],
               [done |-> TRUE, c |-> fast], [done |-> TRUE, c |-> more], [done |-> FALSE, c |-> again]}
         /\ p.ack > c.una => HandleAck(c, p, u) = [done |-> FALSE, c |-> new]
    <3> DEFINE full ==
               CASE p.ack < c.una -> [c |-> c, done |-> TRUE]
                 [] p.ack > c.max -> [done |-> TRUE, c |-> err]
                 [] p.ack = c.una /\ p.ack <= c.max /\ p.win # s.wnd ->
                      [done |-> FALSE, c |-> upd]
                 [] p.ack = c.una /\ p.ack <= c.max /\ p.win = s.wnd ->
                      IF ~s.rexmt THEN [done |-> FALSE, c |-> idle]
                      ELSE IF dup.dupacks = RexmtThresh
                      THEN [done |-> TRUE, c |-> fast]
                      ELSE IF dup.dupacks > RexmtThresh
                      THEN [done |-> TRUE, c |-> more]
                      ELSE [done |-> FALSE, c |-> again]
                 [] p.ack > c.una /\ p.ack <= c.max -> [done |-> FALSE, c |-> new]
    <3>1. e3 = [dup EXCEPT !.rtt = FALSE]
      BY <2>10, <2>16 DEF Noted, Cb
    <3>2. HandleAck(c, p, u) = full
      BY <2>5, <2>6, <3>1 DEF HandleAck, s
    <3> HIDE DEF err, upd, idle, fast, more, again, new
    <3>3. ~(p.ack < c.una) /\ ~(p.ack > c.max)
      BY <1>1, <1>6
    <3>4. CASE p.ack = c.una
      BY <1>1, <1>6, <3>2, <3>3, <3>4
    <3>5. CASE p.ack > c.una
      <4>1. p.ack # c.una
        BY <1>1, <3>5
      <4> QED BY <1>1, <1>6, <3>2, <3>3, <3>5, <4>1
    <3> QED BY <1>1, <1>6, <3>4, <3>5
  <2> HIDE DEF upd, idle, fast, more, again, new, e3
  <2>26. Fine(d)
    BY <1>1, <1>6, <2>22, <2>23, <2>24, <2>25
  <2> QED BY <1>2, <2>26 DEF Fine
<1> QED BY <1>1, <1>4, <1>5, <1>6

\* handle_fin comes last and needs what the reassembly queue has shown before
\* handle_ack ran.
LEMMA InputAckDoes ==
  ASSUME NEW P \in Peers, NEW T \in Sources, NEW K \in Sinks, NEW c, Good(c, P), Data(c, T, K),
         c.r.nxt >= 1, c.st # "CLOSED", "NOTIFY_DROP" \notin c.flags, Level(c), Doomed(c),
         NEW p \in Datagram, NEW u \in Inputs, Sound(p, P, View(c)), "RST" \notin p.flags,
         Carries(p, T, K, Source(c)), "ACK" \notin p.flags => Settled(c)
  PROVE  LET d == InputAck(c, p, u)
         IN  Does(c, d, P, T, K) /\ Tidy(d)
<1> DEFINE a == IF "ACK" \in p.flags THEN HandleAck(c, p, u) ELSE [c |-> c, done |-> FALSE]
           d == InputAck(c, p, u)
           early == {"LISTEN", "SYN_SENT", "SYN_RECEIVED"}
<1>1. c \in Cb /\ ~Fatal(c) /\ c.r.nxt \in Nat
  BY CountedSyn DEF Good, Kept, Doomed
<1>2. /\ Does(c, a.c, P, T, K) /\ Tidy(a.c)
      /\ ~a.done /\ FinAtBack(c.r) => a.c.err = c.err /\ a.c.st \notin early
  <2>1. CASE "ACK" \in p.flags
    <3>1. p.ack <= K.nxt /\ (p.ack <= K.n + 1 \/ Full(Source(c), K))
      BY <2>1 DEF Carries
    <3>2. \A b \in p.sack : \A x \in b[1] .. b[2] - 1 : HasByte(K, x)
      BY DEF Carries
    <3> DEFINE h == HandleAck(c, p, u)
    <3>3. /\ Does(c, h.c, P, T, K) /\ Tidy(h.c)
          /\ ~h.done => h.c.err = c.err /\ h.c.st \notin early
      BY <1>1, <2>1, <3>1, <3>2, HandleAckDoes
    <3>4. a = h
      BY <2>1
    <3> HIDE DEF a, h
    <3> QED BY <3>3, <3>4
  <2>2. CASE "ACK" \notin p.flags
    <3>1. a.c = c
      BY <2>2
    <3>2. Does(c, c, P, T, K)
      BY DoesTrans
    <3>3. Tidy(c)
      BY <2>2 DEF Tidy
    <3>4. FinAtBack(c.r) => c.st \notin early
      BY <2>2 DEF Settled, FinAtBack
    <3> HIDE DEF a
    <3> QED BY <3>1, <3>2, <3>3, <3>4
  <2> QED BY <2>1, <2>2
<1>3. \/ d = a.c
      \/ ~a.done /\ FinAtBack(c.r) /\ d = HandleFin(a.c)
  BY DEF InputAck, FinishInput
<1> HIDE DEF a, d
<1>4. CASE ~a.done /\ FinAtBack(c.r) /\ d = HandleFin(a.c)
  <2>1. Good(a.c, P) /\ Data(a.c, T, K) /\ a.c \in Cb
    BY <1>2, DoesGood
  <2>2. a.c.err = c.err /\ a.c.st \notin early /\ ~Fatal(a.c)
    BY <1>1, <1>2, <1>4 DEF Fatal
  <2>3. SnkGrows(Sink(c), Sink(a.c))
    BY <1>2 DEF Does, Moves, Adds
  <2>4. Sink(c) \in Sinks /\ Sink(a.c) \in Sinks /\ Sink(c).nxt = c.r.nxt /\ Sink(a.c).nxt = a.c.r.nxt
    BY <1>1, <2>1, PartTypes
  <2>5. a.c.r.nxt >= 1 /\ a.c.r.nxt \in Nat
    BY <1>1, <2>1, <2>3, <2>4, CountedSyn DEF SnkGrows
  <2>6. Flow(T, Sink(c)) /\ Flow(T, Sink(a.c)) /\ Sink(c).fin = c.r.fin
    BY <1>1, <2>1, PartTypes DEF Data
  <2>7. Full(T, Sink(c))
    BY <1>4, <2>6 DEF Flow, FinAtBack
  <2>8. SrcGrows(T, T)
    BY <2>4, GrowsTrans
  <2>9. Full(T, Sink(a.c))
    BY <2>3, <2>4, <2>6, <2>7, <2>8, FullGrows
  <2>10. Does(a.c, d, P, T, K) /\ Tidy(d)
    BY <1>4, <2>1, <2>2, <2>5, <2>9, HandleFinDoes
  <2> QED BY <1>2, <2>10, DoesTrans DEF d
<1> QED BY <1>2, <1>3, <1>4 DEF d

\* What a datagram carries is a piece of the peer's stream, at the place where
\* input() puts it.
LEMMA PieceCarried ==
  ASSUME NEW P \in Peers, NEW T \in Sources, NEW K \in Sinks, NEW S, NEW p \in Datagram, NEW v,
         Sound(p, P, v), "RST" \notin p.flags, Carries(p, T, K, S),
         p.len > 0 \/ "SYN" \in p.flags \/ "FIN" \in p.flags,
         NEW seq, seq = IF "SYN" \in p.flags THEN p.seq + 1 ELSE p.seq
  PROVE  /\ seq \in Nat /\ seq + p.len <= P.max /\ PieceOf(T, Piece(p, seq))
         /\ "SYN" \in p.flags => p.len = 0 /\ "FIN" \notin p.flags /\ seq = 1
<1>1. p.len \in Nat /\ P.max \in Nat
  BY DEF Datagram, Peers
<1>2. p.seq \in Nat /\ p.seq + p.len + (IF "SYN" \in p.flags THEN 1 ELSE 0) <= P.max
  BY DEF Sound
<1>3. seq \in Nat /\ seq + p.len <= P.max
  BY <1>1, <1>2
<1>4. CASE "SYN" \in p.flags
  <2>1. p.seq = 0 /\ p.len = 0 /\ "FIN" \notin p.flags
    BY <1>4 DEF Sound, Carries
  <2>2. seq = 1
    BY <1>4, <2>1
  <2> DEFINE h == Piece(p, seq)
  <2>3. h.len = 0 /\ ~h.fin
    <3>1. h.len = p.len /\ h.fin = ("FIN" \in p.flags)
      BY DEF Piece
    <3> HIDE DEF h
    <3> QED BY <2>1, <3>1
  <2> HIDE DEF h
  <2>4. PieceOf(T, h)
    BY <2>3 DEF PieceOf
  <2> QED BY <1>3, <2>1, <2>2, <2>4 DEF h
<1>5. CASE "SYN" \notin p.flags
  <2>1. seq = p.seq
    BY <1>5
  <2>2. /\ p.len > 0 => Aligned(T, p)
        /\ "FIN" \in p.flags => T.told /\ seq + p.len = T.seq
    BY <2>1 DEF Carries
  <2> DEFINE h == Piece(p, seq)
  <2>3. h.seq = p.seq /\ h.len = p.len /\ h.fin = ("FIN" \in p.flags)
    BY <2>1 DEF Piece
  <2> HIDE DEF h
  <2>4. Aligned(T, p) => Aligned(T, h)
    BY <2>3 DEF Aligned, Apart
  <2>5. PieceOf(T, h)
    BY <2>1, <2>2, <2>3, <2>4 DEF PieceOf
  <2> QED BY <1>3, <1>5, <2>5 DEF h
<1> QED BY <1>4, <1>5

\* The slow path of input(), from the reassembly on.
LEMMA InputSegmentDoes ==
  ASSUME NEW P \in Peers, NEW T \in Sources, NEW K \in Sinks, NEW c, Good(c, P), Data(c, T, K),
         c.r.nxt >= 1, c.st # "CLOSED", "NOTIFY_DROP" \notin c.flags, Tidy(c),
         NEW p \in Datagram, NEW u \in Inputs, Sound(p, P, View(c)), "RST" \notin p.flags,
         Carries(p, T, K, Source(c)),
         "SYN" \in p.flags /\ c.st = "SYN_RECEIVED" => c.r.nxt = 1
  PROVE  LET d == InputSegment(c, p, u)
         IN  Does(c, d, P, T, K) /\ Tidy(d)
<1> DEFINE syn == "SYN" \in p.flags
           seq == IF syn THEN p.seq + 1 ELSE p.seq
           busy == p.len > 0 \/ syn \/ "FIN" \in p.flags
           x == IF busy THEN TcpReassemble(c, p, seq) ELSE c
           d == InputSegment(c, p, u)
<1>1. c \in Cb /\ p.len \in Nat
  BY DEF Good, Kept, Datagram
<1>2. d = InputAck(x, p, u)
  BY DEF InputSegment
<1>3. /\ Does(c, x, P, T, K) /\ Leads(c, x, P) /\ x.st = c.st /\ Level(x) /\ Doomed(x)
      /\ "NOTIFY_DROP" \notin x.flags
      /\ "ACK" \notin p.flags => Settled(x)
  <2>1. CASE busy
    <3>1. /\ seq \in Nat /\ seq + p.len <= P.max /\ PieceOf(T, Piece(p, seq))
          /\ syn => p.len = 0 /\ "FIN" \notin p.flags /\ seq = 1
      <4> DEFINE v == View(c)
                 S == Source(c)
      <4>1. Sound(p, P, v) /\ Carries(p, T, K, S)
        OBVIOUS
      <4> HIDE DEF v, S
      <4> QED BY <2>1, <4>1, PieceCarried
    <3> HIDE DEF seq
    <3> DEFINE y == TcpReassemble(c, p, seq)
    <3>2. Leads(c, y, P)
      BY <3>1, TcpReassembleKeeps
    <3>3. /\ Does(c, y, P, T, K) /\ y.st = c.st /\ y.err = c.err /\ Level(y) /\ Doomed(y)
          /\ "NOTIFY_DROP" \in y.flags <=> "NOTIFY_DROP" \in c.flags
          /\ p.len = 0 /\ "FIN" \notin p.flags /\ seq = c.r.nxt => Settled(y)
      BY <3>1, TcpReassembleDoes
    <3>4. x = y
      BY <2>1
    <3>5. ASSUME "ACK" \notin p.flags PROVE Settled(y)
      <4>1. syn
        BY <1>1, <2>1, <3>5 DEF Carries
      <4>2. CASE c.st = "SYN_RECEIVED"
        BY <3>1, <3>3, <4>1, <4>2
      <4>3. CASE c.st # "SYN_RECEIVED"
        <5>1. c.st \notin {"LISTEN", "SYN_SENT"}
          BY CountedSyn
        <5> QED BY <3>3, <4>3, <5>1 DEF Settled
      <4> QED BY <4>2, <4>3
    <3> HIDE DEF x, y
    <3> QED BY <3>2, <3>3, <3>4, <3>5
  <2>2. CASE ~busy
    <3>1. x = c
      BY <2>2
    <3>2. Does(c, c, P, T, K) /\ Leads(c, c, P)
      BY LeadsSelf, DoesTrans
    <3> HIDE DEF x
    <3> QED BY <3>1, <3>2 DEF Tidy
  <2> QED BY <2>1, <2>2
<1> HIDE DEF x, d
<1>4. Good(x, P) /\ Data(x, T, K) /\ x \in Cb /\ Sound(p, P, View(x)) /\ x.r.nxt >= 1
  BY <1>1, <1>3, SoundLeads, DoesTrans DEF Leads
<1>5. Carries(p, T, K, Source(x))
  <2>1. Source(c) \in Sources /\ Source(x) \in Sources
    BY <1>1, <1>4, PartTypes
  <2>2. SrcGrows(T, T) /\ SnkGrows(K, K) /\ SrcGrows(Source(c), Source(x))
    BY <1>3, <2>1, GrowsTrans DEF Does, Moves, Adds
  <2>3. Flow(Source(c), K) /\ Flow(Source(x), K)
    BY <1>4 DEF Data
  <2> QED BY <2>1, <2>2, <2>3, CarriesGrows
<1>6. Does(x, d, P, T, K) /\ Tidy(d)
  BY <1>2, <1>3, <1>4, <1>5, InputAckDoes
<1> QED BY <1>3, <1>6, DoesTrans DEF d

\* input(), do_header_prediction: an acknowledgement and nothing else.
LEMMA PredictedAckDoes ==
  ASSUME NEW P \in Peers, NEW T \in Sources, NEW K \in Sinks, NEW c, Good(c, P), Data(c, T, K),
         NEW p \in Datagram, PredictedAck(c, p), Carries(p, T, K, Source(c)), NEW u \in Inputs
  PROVE  Quiet(c, HandlePredictedAck(c, p, u), P, T, K)
<1> DEFINE a == DropAckedData(c, p.ack)
           b == ResetRexmtTimer(a)
           e == On(b, {"NOTIFY_WRITE"})
           d == HandlePredictedAck(c, p, u)
<1>1. /\ c \in Cb /\ p.ack \in Nat /\ c.una \in Nat /\ c.una < p.ack /\ p.ack <= c.max
      /\ c.st = "ESTABLISHED" /\ c.st \notin Finishing /\ "ACK" \in p.flags
  BY CbNumbers DEF Good, Kept, Datagram, PredictedAck, Predicted, Finishing
<1>2. ~Unopened(c)
  BY <1>1 DEF Unopened
<1>3. p.ack <= K.n + 1 \/ Full(Source(c), K)
  BY <1>1 DEF Carries
<1>4. Quiet(c, a, P, T, K)
  BY <1>1, <1>2, <1>3, AckedQuiet
<1>5. d = e \/ d = Output(e, u)
  BY DEF HandlePredictedAck
<1> HIDE DEF a
<1>6. Good(a, P) /\ Data(a, T, K) /\ a.st = c.st /\ ~Unopened(a)
  BY <1>1, <1>4, QuietDoes DEF Unopened
<1>7. Quiet(a, b, P, T, K)
  BY <1>6, ResetQuiet
<1> HIDE DEF b
<1>8. Good(b, P) /\ Data(b, T, K) /\ b.st = c.st /\ ~Unopened(b)
  BY <1>1, <1>6, <1>7, QuietDoes DEF Unopened
<1>9. Quiet(b, e, P, T, K)
  <2>1. {"NOTIFY_WRITE"} \in SUBSET (CbFlags \ {"SENTFIN", "NOTIFY_DROP"})
    BY DEF CbFlags
  <2> QED BY <1>8, <2>1, FlagsQuiet
<1> HIDE DEF e
<1>10. Good(e, P) /\ Data(e, T, K) /\ e.st # "LISTEN"
  BY <1>1, <1>8, <1>9, QuietDoes
<1>11. Quiet(e, Output(e, u), P, T, K) /\ Quiet(e, e, P, T, K)
  BY <1>10, OutputQuiet, DoesTrans
<1> HIDE DEF d
<1>12. Quiet(e, d, P, T, K)
  BY <1>5, <1>11
<1>13. Quiet(c, b, P, T, K)
  BY <1>4, <1>7, DoesTrans
<1>14. Quiet(c, e, P, T, K)
  BY <1>9, <1>13, DoesTrans
<1> QED BY <1>12, <1>14, DoesTrans DEF d

\* The step of input() before commit_notifies.
LEMMA HandledDoes ==
  ASSUME NEW P \in Peers, NEW T \in Sources, NEW K \in Sinks, NEW c, Good(c, P), Data(c, T, K),
         Tidy(c), "NOTIFY_DROP" \notin c.flags, NEW p \in Datagram, NEW u \in Inputs,
         Sound(p, P, View(c)), Carries(p, T, K, Source(c))
  PROVE  LET d == Handled(c, p, u)
         IN  Does(c, d, P, T, K) /\ Tidy(d)
<1> DEFINE d == Handled(c, p, u)
           syn == "SYN" \in p.flags
<1>1. /\ c \in Cb /\ c.r.nxt \in Nat /\ p.len \in Nat /\ Level(c)
  BY CountedSyn DEF Good, Kept, Cb, Datagram, Tidy
<1>2. Does(c, c, P, T, K)
  BY DoesTrans
<1>3. \A fs \in SUBSET {"NOTIFY_DROP", "NEED_RESET"} : "NOTIFY_DROP" \in fs =>
        LET x == On([c EXCEPT !.err = "connection_reset"], fs)
        IN  Does(c, x, P, T, K) /\ Tidy(x)
  <2> DEFINE e == "connection_reset"
  <2>1. e \in {"malformed_packet", "connection_reset"}
    OBVIOUS
  <2> HIDE DEF e
  <2>2. \A fs \in SUBSET {"NOTIFY_DROP", "NEED_RESET"} : "NOTIFY_DROP" \in fs =>
          LET x == On([c EXCEPT !.err = e], fs)
          IN  Does(c, x, P, T, K) /\ Tidy(x)
    BY <1>1, <2>1, MalformedDoes
  <2> QED BY <2>2 DEF e
<1>4. CASE c.st = "CLOSED"
  <2> DEFINE x == On([c EXCEPT !.err = "connection_reset"], {"NOTIFY_DROP", "NEED_RESET"})
  <2>1. d = c \/ d = x
    BY <1>4 DEF Handled
  <2>2. Does(c, x, P, T, K) /\ Tidy(x)
    BY <1>3
  <2> HIDE DEF d, x
  <2> QED BY <1>2, <2>1, <2>2 DEF d
<1>5. CASE c.st # "CLOSED" /\ "RST" \in p.flags
  <2> DEFINE x == On([c EXCEPT !.err = "connection_reset"], {"NOTIFY_DROP"})
  <2>1. d = x
    BY <1>5 DEF Handled
  <2>2. Does(c, x, P, T, K) /\ Tidy(x)
    BY <1>3
  <2> HIDE DEF d, x
  <2> QED BY <2>1, <2>2 DEF d
<1>6. CASE c.st # "CLOSED" /\ "RST" \notin p.flags
  <2> DEFINE b == On([c EXCEPT !.r = AppendPkt(@, Piece(p, p.seq))], {"DELACK", "NOTIFY_READ"})
             h == HandleSyn(c, p)
             s == IF syn THEN h ELSE c
  <2>1. \/ OutOfWindow(c.r, p.seq, p.len, syn) /\ d = On(c, {"ACKNOW"})
        \/ PredictedAck(c, p) /\ d = HandlePredictedAck(c, p, u)
        \/ PredictedData(c, p) /\ d = b
        \/ syn /\ ~SynExpected(c) /\ d = h
        \/ (syn => SynExpected(c)) /\ d = InputSegment(s, p, u)
    BY <1>6 DEF Handled
  <2> HIDE DEF d
  <2>2. CASE OutOfWindow(c.r, p.seq, p.len, syn) /\ d = On(c, {"ACKNOW"})
    <3>1. ~Unopened(c)
      BY <1>6, <2>2, OutOpened
    <3>2. {"ACKNOW"} \in SUBSET (CbFlags \ {"SENTFIN", "NOTIFY_DROP"})
      BY DEF CbFlags
    <3>3. Quiet(c, d, P, T, K)
      BY <2>2, <3>1, <3>2, FlagsQuiet
    <3> QED BY <3>3, QuietDoes DEF d
  <2>3. CASE PredictedAck(c, p) /\ d = HandlePredictedAck(c, p, u)
    <3>1. Quiet(c, d, P, T, K)
      BY <2>3, PredictedAckDoes
    <3> QED BY <3>1, QuietDoes DEF d
  <2>4. CASE PredictedData(c, p) /\ d = b
    <3>1. p.len > 0 /\ ~syn
      BY <2>4 DEF PredictedData, Predicted
    <3> DEFINE v == View(c)
               S == Source(c)
               seq == p.seq
    <3>2. Sound(p, P, v) /\ Carries(p, T, K, S) /\ seq = IF syn THEN p.seq + 1 ELSE p.seq
      BY <3>1
    <3> HIDE DEF v, S, seq
    <3>3. seq \in Nat /\ seq + p.len <= P.max /\ PieceOf(T, Piece(p, seq))
      BY <1>6, <3>1, <3>2, PieceCarried
    <3>4. Does(c, b, P, T, K) /\ Tidy(b)
      BY <2>4, <3>3, PredictedDataDoes DEF seq
    <3> HIDE DEF b
    <3> QED BY <2>4, <3>4 DEF d
  <2>5. CASE syn /\ ~SynExpected(c) /\ d = h
    <3>1. Does(c, h, P, T, K) /\ Tidy(h)
      BY <1>6, <2>5, HandleSynDoes
    <3> HIDE DEF h
    <3> QED BY <2>5, <3>1 DEF d
  <2>6. CASE (syn => SynExpected(c)) /\ d = InputSegment(s, p, u)
    <3>1. /\ Does(c, s, P, T, K) /\ Leads(c, s, P) /\ Tidy(s) /\ s.st # "CLOSED" /\ s.r.nxt >= 1
          /\ "NOTIFY_DROP" \notin s.flags
          /\ syn /\ s.st = "SYN_RECEIVED" => s.r.nxt = 1
      <4>1. CASE syn
        <5>1. Leads(c, h, P) /\ h.r.nxt >= 1
          BY <1>6, <2>6, <4>1, HandleSynKeeps
        <5>2. /\ Does(c, h, P, T, K) /\ Tidy(h) /\ h.st # "CLOSED" /\ "NOTIFY_DROP" \notin h.flags
              /\ h.st = "SYN_RECEIVED" => h.r.nxt = 1
          BY <1>6, <2>6, <4>1, HandleSynDoes
        <5>3. s = h
          BY <4>1
        <5> HIDE DEF h, s
        <5> QED BY <5>1, <5>2, <5>3
      <4>2. CASE ~syn
        <5>1. c.r.nxt >= 1
          BY <1>1, <1>6, <4>2 DEF Sound, View
        <5>2. s = c
          BY <4>2
        <5> HIDE DEF h, s
        <5> QED BY <1>2, <1>6, <4>2, <5>1, <5>2, LeadsSelf
      <4> QED BY <4>1, <4>2
    <3> HIDE DEF s
    <3>2. Good(s, P) /\ Data(s, T, K) /\ s \in Cb /\ Sound(p, P, View(s))
      BY <1>1, <3>1, SoundLeads, DoesTrans DEF Leads
    <3>3. Carries(p, T, K, Source(s))
      <4>1. Source(c) \in Sources /\ Source(s) \in Sources
        BY <1>1, <3>2, PartTypes
      <4>2. SrcGrows(T, T) /\ SnkGrows(K, K) /\ SrcGrows(Source(c), Source(s))
        BY <3>1, <4>1, GrowsTrans DEF Does, Moves, Adds
      <4>3. Flow(Source(c), K) /\ Flow(Source(s), K)
        BY <3>2 DEF Data
      <4> QED BY <4>1, <4>2, <4>3, CarriesGrows
    <3>4. Does(s, d, P, T, K) /\ Tidy(d)
      BY <1>6, <2>6, <3>1, <3>2, <3>3, InputSegmentDoes
    <3> QED BY <3>1, <3>4, DoesTrans DEF d
  <2> QED BY <2>1, <2>2, <2>3, <2>4, <2>5, <2>6
<1> QED BY <1>4, <1>5, <1>6

\* What an end is between two handlers: no drop is left to be done.
AtRest(c) == Tidy(c) /\ Pristine(c) /\ "NOTIFY_DROP" \notin c.flags

\* A quiet step from rest ends at rest.
LEMMA RestQuiet ==
  ASSUME NEW P \in Peers, NEW T \in Sources, NEW K \in Sinks, NEW c, Good(c, P), AtRest(c),
         NEW d, Quiet(c, d, P, T, K)
  PROVE  Does(c, d, P, T, K) /\ AtRest(d)
<1>1. Does(c, d, P, T, K) /\ (Tidy(c) => Tidy(d)) /\ (AtRest(c) => "NOTIFY_DROP" \notin d.flags)
  BY QuietDoes DEF AtRest
<1> QED BY <1>1 DEF AtRest, Does

\* An end at rest is closed with the error it has, or with a time-out.
LEMMA RestDrop ==
  ASSUME NEW P \in Peers, NEW T \in Sources, NEW K \in Sinks, NEW c, Good(c, P), Data(c, T, K),
         AtRest(c), NEW u \in Inputs
  PROVE  LET d == Drop(c, "timed_out", u)
         IN  Does(c, d, P, T, K) /\ AtRest(d)
<1> DEFINE e == "timed_out"
           d == Drop(c, e, u)
<1>1. e \in Errs /\ e # "none" /\ e \in {c.err, "timed_out"}
  BY DEF Errs
<1> HIDE DEF e
<1>2. /\ Does(c, d, P, T, K) /\ d.st = "CLOSED"
      /\ "NOTIFY_DROP" \in d.flags <=> "NOTIFY_DROP" \in c.flags
  BY <1>1, DropDoes
<1> HIDE DEF d
<1>3. Tidy(d)
  BY <1>2 DEF Tidy, Level, Settled, Doomed, Handshaking
<1>4. Does(c, d, P, T, K) /\ AtRest(d)
  BY <1>2, <1>3 DEF AtRest, Does
<1> QED BY <1>4 DEF d, e

\* input().
LEMMA InputDoes ==
  ASSUME NEW P \in Peers, NEW T \in Sources, NEW K \in Sinks, NEW c, Good(c, P), Data(c, T, K),
         AtRest(c), NEW p \in Datagram, NEW u \in Inputs,
         Sound(p, P, View(c)), Carries(p, T, K, Source(c))
  PROVE  LET d == Input(c, p, u)
         IN  Does(c, d, P, T, K) /\ AtRest(d)
<1> DEFINE a == [c EXCEPT !.pseq = p.seq, !.keep = TRUE]
           b == UpdateRtt(a, p.pseq)
           e == Handled(b, p, u)
           d == Input(c, p, u)
<1>1. c \in Cb /\ p.seq \in Int
  BY DEF Good, Kept, Datagram
<1>2. a \in Cb
  BY <1>1 DEF Cb
<1>3. Same(c, a) /\ a.cwnd = c.cwnd /\ a.r = c.r /\ a.flags = c.flags
  BY <1>1 DEF Cb, Same
<1>4. d = CommitNotifies(e, u)
  BY DEF Input, Handled
<1> HIDE DEF a, d
<1>5. Quiet(c, a, P, T, K) /\ Leads(c, a, P)
  BY <1>2, <1>3, SameGood, SameQuiet
<1>6. Good(a, P) /\ Data(a, T, K)
  BY <1>5, QuietDoes
<1>7. Leads(a, b, P) /\ Same(a, b)
  BY <1>6, UpdateRttKeeps
<1> HIDE DEF b
<1>8. b \in Cb /\ Leads(c, b, P)
  BY <1>1, <1>5, <1>7, LeadsTrans DEF Leads, Good, Kept
<1>9. Quiet(a, b, P, T, K)
  BY <1>6, <1>7, <1>8, SameQuiet
<1>10. Quiet(c, b, P, T, K)
  BY <1>5, <1>9, DoesTrans
<1>11. Good(b, P) /\ Data(b, T, K) /\ Does(c, b, P, T, K) /\ AtRest(b)
  BY <1>10, QuietDoes, RestQuiet
<1>12. Sound(p, P, View(b)) /\ Carries(p, T, K, Source(b))
  <2>1. Source(b) = Source(c)
    BY <1>3, <1>7 DEF Source, Same, Cuts
  <2> QED BY <1>1, <1>8, <2>1, SoundLeads DEF Leads
<1>13. Does(b, e, P, T, K) /\ Tidy(e)
  BY <1>11, <1>12, HandledDoes DEF AtRest
<1> HIDE DEF e
<1>14. Good(e, P) /\ Data(e, T, K) /\ Does(c, e, P, T, K)
  BY <1>11, <1>13, DoesTrans
<1>15. Does(e, d, P, T, K) /\ AtRest(d)
  <2>1. Does(e, d, P, T, K) /\ Tidy(d) /\ "NOTIFY_DROP" \notin d.flags
    BY <1>4, <1>13, <1>14, CommitTidies
  <2>2. Pristine(d)
    BY <1>11, <1>13, <2>1 DEF Does, AtRest
  <2> QED BY <2>1, <2>2 DEF AtRest
<1> QED BY <1>14, <1>15, DoesTrans DEF d

----------------------------------------------------------------------------
(* Timers. *)

\* A timer that stops moves no data.
LEMMA StoppedQuiet ==
  ASSUME NEW P \in Peers, NEW T \in Sources, NEW K \in Sinks, NEW c, Good(c, P), Data(c, T, K),
         NEW k \in 0 .. MaxRxtShift,
         NEW x \in BOOLEAN, x => c.rexmt, NEW y \in BOOLEAN, NEW z \in BOOLEAN,
         NEW d, d = Stopped(c, k, x, y, z)
  PROVE  Quiet(c, d, P, T, K)
<1>1. c \in Cb
  BY DEF Good, Kept
<1>2. Good(d, P) /\ d \in Cb
  BY StoppedKeeps DEF Leads, Good, Kept
<1>3. /\ d.st = c.st /\ d.err = c.err /\ d.max = c.max /\ d.up = c.up /\ d.ops = c.ops
      /\ d.sbseq = c.sbseq /\ d.told = c.told /\ d.out = c.out
  BY <1>1 DEF Stopped, Cb
<1>4. d.r = c.r /\ d.flags = c.flags /\ d.sb = c.sb /\ d.nxt = c.nxt
  BY <1>1 DEF Stopped, Cb
<1>5. Alike(c, d) /\ Cuts(d) = Cuts(c)
  BY <1>3, <1>4 DEF Alike, Cuts
<1>6. Glides(c, d, T, K)
  BY <1>1, <1>2, <1>5, AlikeGlides
<1> QED BY <1>2, <1>3, <1>4, <1>6 DEF Quiet, Level

\* handle_slow_timo, TCPT_REXMT.
LEMMA RexmtTimeoutDoes ==
  ASSUME NEW P \in Peers, NEW T \in Sources, NEW K \in Sinks, NEW c, Good(c, P), Data(c, T, K),
         AtRest(c), c.rexmt, NEW u \in Inputs
  PROVE  LET d == RexmtTimeout(c, u)
         IN  Does(c, d, P, T, K) /\ AtRest(d)
<1>1. /\ c \in Cb /\ c.shift \in 0 .. MaxRxtShift /\ c.keep \in BOOLEAN /\ c.msl \in BOOLEAN
      /\ ~Unopened(c) /\ MaxRxtShift \in Nat /\ c.persist = FALSE
  BY TimerOpened, CbAssumption DEF Good, Kept, Cb
<1>2. CASE c.shift + 1 > MaxRxtShift
  <2> DEFINE a == [c EXCEPT !.rexmt = FALSE, !.shift = MaxRxtShift]
             d == Drop(a, "timed_out", u)
             no == FALSE
             k == MaxRxtShift
  <2>1. k \in 0 .. MaxRxtShift /\ no \in BOOLEAN /\ ~no
    BY <1>1
  <2>2. a = Stopped(c, k, no, c.keep, c.msl)
    BY <1>1 DEF Stopped, Cb
  <2>3. RexmtTimeout(c, u) = d
    BY <1>2 DEF RexmtTimeout
  <2> HIDE DEF a, d, no, k
  <2>4. Quiet(c, a, P, T, K)
    BY <1>1, <2>1, <2>2, StoppedQuiet
  <2>5. Good(a, P) /\ Data(a, T, K) /\ Does(c, a, P, T, K) /\ AtRest(a)
    BY <2>4, QuietDoes, RestQuiet
  <2>6. Does(a, d, P, T, K) /\ AtRest(d)
    BY <2>5, RestDrop DEF d
  <2> QED BY <2>3, <2>5, <2>6, DoesTrans
<1>3. CASE ~(c.shift + 1 > MaxRxtShift)
  <2> DEFINE a == BackToUna(c)
             b == HandlePacketLost(a, u)
             e == ClearMarks(b)
             d == Output(e, u)
  <2>0. c.shift + 1 <= MaxRxtShift
    BY <1>1, <1>3
  <2>1. Leads(c, a, P) /\ Steady(c, a) /\ a.sb = c.sb
    BY <1>1, <2>0, BackToUnaKeeps
  <2>2. RexmtTimeout(c, u) = Output([b EXCEPT !.sb = {Unmark(p, c.max) : p \in b.sb},
                                              !.retrans = 0], u)
    BY <1>3 DEF RexmtTimeout, Unmark, BackToUna
  <2> HIDE DEF a
  <2>3. Leads(a, b, P) /\ Same(a, b)
    BY <2>1, HandlePacketLostKeeps DEF Leads
  <2> HIDE DEF b
  <2>4. b.max = c.max /\ ~Unopened(a) /\ ~Unopened(b)
    BY <1>1, <2>1, <2>3 DEF Steady, Same, Unopened
  <2>5. RexmtTimeout(c, u) = d
    BY <2>2, <2>4 DEF ClearMarks
  <2>6. /\ Leads(b, e, P) /\ Steady(b, e)
        /\ \A p \in b.sb : \E q \in e.sb : q.seq = p.seq /\ q.len = p.len
        /\ \A q \in e.sb : \E p \in b.sb : q.seq = p.seq /\ q.len = p.len
    BY <2>3, <2>4, ClearMarksKeeps DEF Leads
  <2> HIDE DEF e, d
  <2>7. e.st # "LISTEN"
    BY <2>4, <2>6 DEF Steady, Unopened
  <2>8. a \in Cb /\ b \in Cb /\ e \in Cb /\ Good(e, P)
    BY <2>1, <2>3, <2>6 DEF Leads, Good, Kept
  <2>9. Alike(c, a) /\ Cuts(a) = Cuts(c) /\ Alike(b, e) /\ Cuts(e) = Cuts(b)
    <3>1. Alike(c, a) /\ Alike(b, e)
      BY <2>1, <2>6, AlikeTrans
    <3>2. Cuts(e) = Cuts(b)
      BY <2>6, CutsMarked
    <3> QED BY <2>1, <3>1, <3>2 DEF Cuts
  <2>10. Glides(c, a, T, K)
    BY <1>1, <2>8, <2>9, AlikeGlides
  <2>11. Glides(a, b, T, K)
    BY <2>3, <2>8, <2>10, SameGlides DEF Glides, Moves
  <2>12. Glides(b, e, T, K)
    BY <2>8, <2>9, <2>11, AlikeGlides DEF Glides, Moves
  <2>13. Glides(e, d, T, K) /\ Level(d)
    BY <2>7, <2>8, <2>12, OutputGlides DEF d, Glides, Moves
  <2>14. Glides(c, e, T, K)
    BY <1>1, <2>8, <2>10, <2>11, <2>12, GlidesTrans
  <2>15. Glides(c, d, T, K)
    BY <1>1, <2>8, <2>13, <2>14, GlidesTrans
  <2>16. Good(d, P)
    BY <2>7, <2>8, OutputKeeps DEF Leads, d
  <2>17. Quiet(c, d, P, T, K)
    BY <2>13, <2>15, <2>16 DEF Quiet
  <2> QED BY <2>5, <2>17, RestQuiet
<1> QED BY <1>2, <1>3

\* TCPT_PERSIST: the window is probed.
LEMMA PersistTimeoutDoes ==
  ASSUME NEW P \in Peers, NEW T \in Sources, NEW K \in Sinks, NEW c, Good(c, P), Data(c, T, K),
         AtRest(c), c.persist, NEW u \in Inputs
  PROVE  LET d == PersistTimeout(c, u)
         IN  Does(c, d, P, T, K) /\ AtRest(d)
<1> DEFINE a == PersistOff(c)
           b == EnterPersist(a)
           e == ValidateFirstPkt(b)
           v == [u EXCEPT !.force = TRUE]
           d == Output(e, v)
<1>1. c \in Cb /\ ~Unopened(c) /\ c.st \notin Handshaking
  BY TimerOpened DEF Good, Kept
<1>2. Leads(c, a, P) /\ Steady(c, a) /\ ~a.rexmt /\ a.sb = c.sb /\ a.nxt = c.nxt
  BY PersistOffKeeps
<1>3. PersistTimeout(c, u) = d
  BY DEF PersistTimeout, PersistOff
<1>4. v \in Inputs
  BY DEF Inputs
<1> HIDE DEF a, v
<1>5. Good(a, P) /\ a \in Cb /\ ~Unopened(a) /\ a.st = c.st
  BY <1>1, <1>2 DEF Leads, Good, Kept, Steady, Unopened
<1>6. Quiet(c, a, P, T, K)
  <2>1. Cuts(a) = Cuts(c)
    BY <1>2 DEF Cuts
  <2>2. Level(a)
    BY <1>1, <1>5 DEF Level
  <2> QED BY <1>2, <1>5, <2>1, <2>2, SteadyQuiet
<1>7. Good(b, P) /\ Alike(a, b) /\ b.sb = a.sb /\ b.nxt = a.nxt
  BY <1>1, <1>2, <1>5, EnterPersistKeeps, EnterPersistAlike
<1> HIDE DEF b
<1>8. Quiet(a, b, P, T, K) /\ b.st = a.st /\ ~Unopened(b)
  <2>1. Cuts(b) = Cuts(a) /\ b \in Cb /\ b.st = a.st /\ b.err = a.err
    BY <1>7 DEF Cuts, Good, Kept, Alike
  <2>2. Data(a, T, K)
    BY <1>6, QuietDoes
  <2>3. Glides(a, b, T, K)
    BY <1>5, <1>7, <2>1, <2>2, AlikeGlides
  <2> QED BY <1>1, <1>5, <1>7, <2>1, <2>3 DEF Quiet, Level, Unopened
<1>9. Quiet(c, b, P, T, K)
  BY <1>6, <1>8, DoesTrans
<1>10. Quiet(b, e, P, T, K)
  <2>1. Good(b, P) /\ Data(b, T, K)
    BY <1>9, QuietDoes
  <2> QED BY <1>8, <2>1, FirstQuiet
<1> HIDE DEF e
<1>11. Quiet(c, e, P, T, K)
  BY <1>9, <1>10, DoesTrans
<1>12. Good(e, P) /\ Data(e, T, K) /\ e.st = c.st
  BY <1>11, QuietDoes
<1>13. Quiet(e, d, P, T, K)
  BY <1>1, <1>4, <1>12, OutputQuiet DEF Unopened
<1> HIDE DEF d
<1>14. Quiet(c, d, P, T, K)
  BY <1>11, <1>13, DoesTrans
<1> QED BY <1>3, <1>14, RestQuiet

\* TCPT_KEEP.
LEMMA KeepTimeoutDoes ==
  ASSUME NEW P \in Peers, NEW T \in Sources, NEW K \in Sinks, NEW c, Good(c, P), Data(c, T, K),
         AtRest(c), NEW u \in Inputs
  PROVE  LET d == KeepTimeout(c, u)
         IN  Does(c, d, P, T, K) /\ AtRest(d)
<1> DEFINE no == FALSE
           yes == TRUE
           a == [c EXCEPT !.keep = no]
           b == Drop(a, "timed_out", u)
           e == Respond(a, c.una - 1, {"ACK"})
           f == [e EXCEPT !.keep = yes]
           g == [a EXCEPT !.keep = yes]
           d == KeepTimeout(c, u)
<1>1. /\ c \in Cb /\ c.shift \in 0 .. MaxRxtShift /\ c.rexmt \in BOOLEAN /\ c.msl \in BOOLEAN
      /\ c.una \in Nat /\ c.una - 1 \in Int /\ no \in BOOLEAN /\ yes \in BOOLEAN
  BY DEF Good, Kept, Cb
<1>2. a = Stopped(c, c.shift, c.rexmt, no, c.msl)
  BY <1>1 DEF Stopped, Cb
<1>3. d = b \/ (d = f /\ c.st \in {"ESTABLISHED", "CLOSE_WAIT"}) \/ d = g
  BY DEF KeepTimeout
<1> HIDE DEF no, yes, a, d
<1>4. Quiet(c, a, P, T, K)
  BY <1>1, <1>2, StoppedQuiet
<1>5. /\ Good(a, P) /\ Data(a, T, K) /\ a \in Cb /\ a.st = c.st
      /\ Does(c, a, P, T, K) /\ AtRest(a)
  BY <1>4, QuietDoes, RestQuiet
<1>6. \A x : Good(x, P) /\ Data(x, T, K) => Quiet(x, [x EXCEPT !.keep = yes], P, T, K)
  <2> TAKE x
  <2> HAVE Good(x, P) /\ Data(x, T, K)
  <2> DEFINE y == [x EXCEPT !.keep = yes]
  <2>1. /\ x \in Cb /\ x.shift \in 0 .. MaxRxtShift /\ x.rexmt \in BOOLEAN /\ x.msl \in BOOLEAN
    BY DEF Good, Kept, Cb
  <2>2. y = Stopped(x, x.shift, x.rexmt, yes, x.msl)
    BY <2>1 DEF Stopped, Cb
  <2> HIDE DEF y
  <2>3. Quiet(x, y, P, T, K)
    BY <1>1, <2>1, <2>2, StoppedQuiet
  <2> QED BY <2>3 DEF y
<1>7. CASE d = b
  <2>1. Does(a, b, P, T, K) /\ AtRest(b)
    BY <1>5, RestDrop
  <2> HIDE DEF b
  <2> QED BY <1>5, <1>7, <2>1, DoesTrans DEF d
<1>8. CASE d = g
  <2>1. Quiet(a, g, P, T, K)
    BY <1>5, <1>6
  <2> HIDE DEF g
  <2>2. Quiet(c, d, P, T, K)
    BY <1>4, <1>8, <2>1, DoesTrans
  <2> QED BY <2>2, RestQuiet DEF d
<1>9. CASE d = f /\ c.st \in {"ESTABLISHED", "CLOSE_WAIT"}
  <2>1. a.r.nxt >= 1 /\ P.rcv >= 1
    BY <1>5, <1>9 DEF Good, Kept, Opened, Opening
  <2> DEFINE fs == {"ACK"}
             n == c.una - 1
  <2>2. Quiet(a, e, P, T, K)
    <3>1. fs = {"ACK"} /\ n \in Int /\ e = Respond(a, n, fs)
      BY <1>1
    <3> HIDE DEF fs, n, e
    <3> QED BY <1>5, <2>1, <3>1, RespondQuiet
  <2> HIDE DEF e
  <2>3. Good(e, P) /\ Data(e, T, K)
    BY <1>5, <2>2, QuietDoes
  <2>4. Quiet(e, f, P, T, K)
    BY <1>6, <2>3
  <2> HIDE DEF f
  <2>5. Quiet(c, e, P, T, K)
    BY <1>4, <2>2, DoesTrans
  <2>6. Quiet(c, d, P, T, K)
    BY <1>9, <2>4, <2>5, DoesTrans
  <2> QED BY <2>6, RestQuiet DEF d
<1> QED BY <1>3, <1>7, <1>8, <1>9 DEF d

\* TCPT_2MSL.
LEMMA MslTimeoutDoes ==
  ASSUME NEW P \in Peers, NEW T \in Sources, NEW K \in Sinks, NEW c, Good(c, P), Data(c, T, K),
         AtRest(c), NEW u \in Inputs
  PROVE  LET d == MslTimeout(c, u)
         IN  Does(c, d, P, T, K) /\ AtRest(d)
<1> DEFINE no == FALSE
           a == [c EXCEPT !.msl = no]
           d == Drop(a, "timed_out", u)
<1>1. /\ c \in Cb /\ c.shift \in 0 .. MaxRxtShift /\ c.rexmt \in BOOLEAN /\ c.keep \in BOOLEAN
      /\ no \in BOOLEAN
  BY DEF Good, Kept, Cb
<1>2. a = Stopped(c, c.shift, c.rexmt, c.keep, no)
  BY <1>1 DEF Stopped, Cb
<1>3. MslTimeout(c, u) = d
  BY DEF MslTimeout
<1> HIDE DEF no, a
<1>4. Quiet(c, a, P, T, K)
  BY <1>1, <1>2, StoppedQuiet
<1>5. Good(a, P) /\ Data(a, T, K) /\ Does(c, a, P, T, K) /\ AtRest(a)
  BY <1>4, QuietDoes, RestQuiet
<1>6. Does(a, d, P, T, K) /\ AtRest(d)
  BY <1>5, RestDrop
<1> HIDE DEF d
<1> QED BY <1>3, <1>5, <1>6, DoesTrans

\* handle_fast_timo.
LEMMA FastTimeoutDoes ==
  ASSUME NEW P \in Peers, NEW T \in Sources, NEW K \in Sinks, NEW c, Good(c, P), Data(c, T, K),
         AtRest(c), "DELACK" \in c.flags, NEW u \in Inputs
  PROVE  LET d == FastTimeout(c, u)
         IN  Does(c, d, P, T, K) /\ AtRest(d)
<1> DEFINE fs == {"DELACK"}
           gs == {"ACKNOW"}
           a == Off(c, fs)
           b == On(a, gs)
           d == Output(b, u)
<1>1. c \in Cb /\ ~Unopened(c)
  BY TimerOpened DEF Good, Kept
<1>2. /\ fs \in SUBSET (CbFlags \ {"SENTFIN", "NOTIFY_DROP"})
      /\ gs \in SUBSET (CbFlags \ {"SENTFIN", "NOTIFY_DROP"})
  BY DEF CbFlags
<1>3. FastTimeout(c, u) = d
  BY DEF FastTimeout
<1> HIDE DEF fs, gs
<1>4. Quiet(c, a, P, T, K)
  BY <1>2, FlagsQuiet
<1> HIDE DEF a
<1>5. Good(a, P) /\ Data(a, T, K) /\ a.st = c.st /\ a.err = c.err
  BY <1>4, QuietDoes
<1>6. Quiet(a, b, P, T, K)
  BY <1>1, <1>2, <1>5, FlagsQuiet DEF Unopened
<1> HIDE DEF b
<1>7. Quiet(c, b, P, T, K)
  BY <1>4, <1>6, DoesTrans
<1>8. Good(b, P) /\ Data(b, T, K) /\ b.st = c.st
  BY <1>7, QuietDoes
<1>9. Quiet(b, d, P, T, K)
  BY <1>1, <1>8, OutputQuiet DEF Unopened
<1> HIDE DEF d
<1>10. Quiet(c, d, P, T, K)
  BY <1>7, <1>9, DoesTrans
<1> QED BY <1>3, <1>10, RestQuiet

\* handle_delay_recv_operation.
LEMMA DelayTimeoutDoes ==
  ASSUME NEW P \in Peers, NEW T \in Sources, NEW K \in Sinks, NEW c, Good(c, P), Data(c, T, K),
         AtRest(c)
  PROVE  LET d == DelayTimeout(c)
         IN  Does(c, d, P, T, K) /\ AtRest(d)
<1> DEFINE no == FALSE
           a == [c EXCEPT !.delay = no]
           h == [a EXCEPT !.r = Copy(@, a.op), !.op = 0]
           d == DelayTimeout(c)
<1>1. c \in Cb /\ no \in BOOLEAN
  BY DEF Good, Kept
<1>2. a \in Cb /\ a.op = c.op /\ a.op \in Nat
  BY ZenonT(40), <1>1 DEF Cb
<1>3. Same(c, a) /\ a.cwnd = c.cwnd
  BY <1>1 DEF Cb, Same
<1>4. d = a \/ d = h
  BY <1>2 DEF DelayTimeout
<1> HIDE DEF no, a, d
<1>5. Quiet(c, a, P, T, K)
  BY <1>2, <1>3, SameQuiet
<1>6. Good(a, P) /\ Data(a, T, K)
  BY <1>5, QuietDoes
<1>7. Quiet(a, h, P, T, K)
  <2>1. Good(h, P)
    BY <1>6, CopyKeeps DEF Leads
  <2>2. /\ h.r = Copy(a.r, a.op) /\ h.st = a.st /\ h.err = a.err /\ h.max = a.max /\ h.up = a.up
        /\ h.ops = a.ops /\ h.nxt = a.nxt
    BY <1>2 DEF Cb
  <2>3. /\ h.sbseq = a.sbseq /\ h.told = a.told /\ h.out = a.out /\ h.sb = a.sb
        /\ h.flags = a.flags
    BY <1>2 DEF Cb
  <2> HIDE DEF h
  <2>4. h \in Cb
    BY <2>1 DEF Good, Kept
  <2>5. Glides(a, h, T, K)
    BY <1>2, <1>6, <2>2, <2>3, <2>4, CopyGlides
  <2> QED BY <2>1, <2>2, <2>5 DEF Quiet, Level
<1> HIDE DEF h
<1>8. Quiet(c, h, P, T, K)
  BY <1>5, <1>7, DoesTrans
<1> QED BY <1>4, <1>5, <1>8, RestQuiet DEF d

----------------------------------------------------------------------------
(* Calls of the application. *)

\* The end opens: nothing of either stream has been touched.
LEMMA OpensDoes ==
  ASSUME NEW P \in Peers, NEW T \in Sources, NEW K \in Sinks, NEW c, Good(c, P), Data(c, T, K),
         AtRest(c), Blank(c), NEW d \in Cb, Good(d, P), d.st \in {"LISTEN", "SYN_SENT"},
         d.err = c.err, d.nxt = c.nxt, d.max = c.max, d.sb = c.sb, d.sbseq = c.sbseq,
         d.ops = c.ops, d.up = c.up, d.r = c.r, d.out = c.out, d.flags = c.flags, d.told = c.told
  PROVE  Does(c, d, P, T, K) /\ AtRest(d)
<1>1. c \in Cb /\ c.err = "none" /\ c.st = "CLOSED" /\ c.nxt = 0 /\ c.max = 0 /\ c.r.nxt = 0
  BY DEF Good, Kept, Phased, Unopened, Fresh, Blank
<1>2. Streams(c, d)
  BY DEF Streams
<1>3. Stage(d)
  <2>1. Stage(c) /\ Cuts(d) = Cuts(c)
    BY DEF Data, Cuts
  <2>2. c.sbseq = 0 /\ Cuts(c) = {} /\ c.ops = << >> /\ ~c.told /\ ~c.up /\ "SENTFIN" \notin c.flags
    BY <1>1, <2>1 DEF Stage
  <2>3. Whole(d)
    BY <2>1, <2>2 DEF Whole
  <2> QED BY <1>1, <2>1, <2>2, <2>3 DEF Stage, Opening
<1>4. Ended(d, T, K)
  BY <1>1 DEF Ended
<1>5. Moves(c, d, T, K) /\ Arrived(d) = Arrived(c)
  BY <1>1, <1>2, <1>3, <1>4, StateMoves DEF Fatal, Dead
<1>6. Tidy(d)
  BY <1>1, <1>5 DEF Tidy, Level, Settled, Doomed, Fatal, AtRest, Pristine, Blank
<1>7. Pristine(d)
  BY DEF Pristine, Blank
<1> QED BY <1>5, <1>6, <1>7 DEF Does, AtRest, FinWait

\* async_connect.
LEMMA ConnectDoes ==
  ASSUME NEW P \in Peers, NEW T \in Sources, NEW K \in Sinks, NEW c, Good(c, P), Data(c, T, K),
         AtRest(c), Blank(c), NEW u \in Inputs
  PROVE  LET d == Connect(c, u)
         IN  Does(c, d, P, T, K) /\ AtRest(d)
<1> DEFINE no == FALSE
           yes == TRUE
           x == [c EXCEPT !.handler = yes, !.deaf = no]
           b == [x EXCEPT !.st = "SYN_SENT", !.keep = yes]
           d == Output(b, u)
<1>1. /\ c \in Cb /\ no \in BOOLEAN /\ yes \in BOOLEAN /\ "SYN_SENT" \in States
      /\ c.err = "none" /\ c.st = "CLOSED" /\ c.una = 0 /\ c.nxt = 0 /\ c.max = 0 /\ c.fack = 0
  BY DEF Good, Kept, Phased, Unopened, Fresh, Blank, States, Opening
<1>2. Connect(c, u) = d
  <2>1. [c EXCEPT !.una = 0, !.nxt = 0, !.max = 0, !.fack = 0] = c
    BY <1>1 DEF Cb
  <2>2. [c EXCEPT !.handler = TRUE, !.deaf = FALSE, !.st = "SYN_SENT", !.keep = TRUE,
                  !.una = 0, !.nxt = 0, !.max = 0, !.fack = 0] =
        [[c EXCEPT !.una = 0, !.nxt = 0, !.max = 0, !.fack = 0]
           EXCEPT !.handler = TRUE, !.deaf = FALSE, !.st = "SYN_SENT", !.keep = TRUE]
    BY <1>1 DEF Cb
  <2>3. [c EXCEPT !.handler = TRUE, !.deaf = FALSE, !.st = "SYN_SENT", !.keep = TRUE] = b
    BY <1>1 DEF Cb
  <2> QED BY <2>1, <2>2, <2>3 DEF Connect
<1> HIDE DEF no, yes, d
<1>3. x \in Cb
  BY ZenonT(60), <1>1 DEF Cb
<1> HIDE DEF x
<1>4. b \in Cb
  BY ZenonT(60), <1>1, <1>3 DEF Cb
<1>5. /\ b.st = "SYN_SENT" /\ b.err = c.err /\ b.una = c.una /\ b.nxt = c.nxt
      /\ b.max = c.max /\ b.fack = c.fack /\ b.retrans = c.retrans /\ b.sb = c.sb
      /\ b.sbseq = c.sbseq /\ b.ops = c.ops /\ b.told = c.told
  BY <1>1, <1>3 DEF Cb, x
<1>6. /\ b.rexmt = c.rexmt /\ b.persist = c.persist /\ b.cwnd = c.cwnd
      /\ b.up = c.up /\ b.r = c.r /\ b.out = c.out /\ b.flags = c.flags /\ b.bad = c.bad
  BY <1>1, <1>3 DEF Cb, x
<1> HIDE DEF b
<1>7. Leads(c, b, P)
  BY <1>1, <1>4, <1>5, <1>6, OpenKeeps
<1>8. Good(b, P)
  BY <1>7 DEF Leads
<1>9. Does(c, b, P, T, K) /\ AtRest(b)
  BY <1>4, <1>5, <1>6, <1>8, OpensDoes
<1>10. Data(b, T, K)
  BY <1>9 DEF Does, Moves
<1>11. Quiet(b, d, P, T, K)
  BY <1>5, <1>8, <1>10, OutputQuiet DEF d
<1>12. Does(b, d, P, T, K) /\ AtRest(d)
  BY <1>8, <1>9, <1>11, RestQuiet
<1>13. Does(c, d, P, T, K)
  BY <1>9, <1>12, DoesTrans
<1> QED BY <1>2, <1>12, <1>13

\* async_accept.
LEMMA AcceptDoes ==
  ASSUME NEW P \in Peers, NEW T \in Sources, NEW K \in Sinks, NEW c, Good(c, P), Data(c, T, K),
         AtRest(c), Blank(c)
  PROVE  LET d == Accept(c)
         IN  Does(c, d, P, T, K) /\ AtRest(d)
<1> DEFINE no == FALSE
           yes == TRUE
           d == Accept(c)
<1>1. c \in Cb /\ no \in BOOLEAN /\ yes \in BOOLEAN /\ "LISTEN" \in States
  BY DEF Good, Kept, States, Opening
<1>2. d = [c EXCEPT !.handler = yes, !.deaf = no, !.st = "LISTEN"]
  BY DEF Accept
<1>3. Good(d, P)
  BY AcceptKeeps DEF Leads, Blank
<1> HIDE DEF no, yes, d
<1>4. d \in Cb
  BY <1>3 DEF Good, Kept
<1>5. /\ d.st = "LISTEN" /\ d.err = c.err /\ d.nxt = c.nxt /\ d.max = c.max /\ d.sb = c.sb
      /\ d.sbseq = c.sbseq /\ d.ops = c.ops /\ d.told = c.told
      /\ d.up = c.up /\ d.r = c.r /\ d.out = c.out /\ d.flags = c.flags
  BY <1>1, <1>2 DEF Cb
<1> QED BY <1>3, <1>4, <1>5, OpensDoes DEF d

\* async_send: nothing is added to a stream that has been finished.
LEMMA AsyncSendDoes ==
  ASSUME NEW P \in Peers, NEW T \in Sources, NEW K \in Sinks, NEW c, Good(c, P), Data(c, T, K),
         AtRest(c), c.up, c.st \in FinWait => c.err # "none", NEW n \in Nat, NEW u \in Inputs
  PROVE  LET d == AsyncSend(c, n, u)
         IN  Does(c, d, P, T, K) /\ AtRest(d)
<1> DEFINE a == Queued(c, n)
           q == Append(c.ops, n)
           d == OnWritable(a, u)
<1>1. /\ c \in Cb /\ c.ops \in Seq(Nat) /\ ~Unopened(c) /\ c.st \notin Handshaking
      /\ c.st # "LISTEN"
  BY UpOpened, CbNumbers DEF Good, Kept
<1>2. q \in Seq(Nat)
  BY <1>1, AppendProperties
<1>3. a = [c EXCEPT !.ops = q]
  BY DEF Queued
<1>4. AsyncSend(c, n, u) = IF c.err # "none" THEN c ELSE d
  BY DEF AsyncSend, Queued
<1>5. CASE c.err # "none"
  <2>1. Does(c, c, P, T, K)
    BY DoesTrans
  <2> QED BY <1>4, <1>5, <2>1
<1>6. CASE c.err = "none"
  <2> HIDE DEF q
  <2>1. a \in Cb
    <3>1. c \in Cb
      BY <1>1
    <3> HIDE DEF a
    <3> QED BY ZenonT(40), <1>2, <1>3, <3>1 DEF Cb
  <2>2. /\ a.st = c.st /\ a.err = c.err /\ a.una = c.una /\ a.nxt = c.nxt
        /\ a.max = c.max /\ a.fack = c.fack /\ a.retrans = c.retrans /\ a.sb = c.sb
        /\ a.sbseq = c.sbseq /\ a.told = c.told
    BY <1>1, <1>3 DEF Cb
  <2>3. /\ a.rexmt = c.rexmt /\ a.persist = c.persist /\ a.cwnd = c.cwnd
        /\ a.up = c.up /\ a.r = c.r /\ a.out = c.out /\ a.flags = c.flags /\ a.bad = c.bad
    BY <1>1, <1>3 DEF Cb
  <2> HIDE DEF a, d
  <2>4. Good(a, P)
    <3>1. Phased(a)
      BY <1>1, <2>2, <2>3 DEF Good, Kept, Phased, Unopened
    <3>2. Opened(a, P) /\ Buffered(a) /\ Heard(a, P)
      BY <2>2, <2>3 DEF Good, Kept, Opened, Buffered, Heard, View
    <3> QED BY <2>1, <2>2, <2>3, <3>1, <3>2 DEF Good, Kept
  <2>5. ~c.told /\ c.st # "CLOSED" /\ c.sbseq # 0
    <3>1. c.sbseq # 0
      BY DEF Data, Stage
    <3>2. c.st # "CLOSED"
      BY <1>6, <3>1 DEF Data, Stage
    <3>3. c.st \notin {"CLOSE_WAIT", "CLOSING", "LAST_ACK", "TIME_WAIT"} /\ c.st \notin FinWait
      BY <1>6 DEF Good, Kept, Phased
    <3>4. c.st \notin Ending
      BY <3>2, <3>3 DEF Ending, FinWait
    <3> QED BY <3>1, <3>2, <3>4 DEF Data, Stage
  <2>6. Streams(c, a) /\ Stage(a) /\ Ended(a, T, K)
    <3>1. Source(a) = Source(c) /\ Sink(a) = Sink(c) /\ Cuts(a) = Cuts(c)
      BY <2>2, <2>3 DEF Source, Cuts, Sink, Arrived
    <3>2. Stage(a)
      <4>1. Whole(a)
        BY <2>2, <3>1 DEF Data, Stage, Whole
      <4> QED BY <2>2, <2>3, <2>5, <3>1, <4>1 DEF Data, Stage
    <3>3. Ended(a, T, K)
      BY <2>2, <2>3, <3>1 DEF Data, Ended
    <3> QED BY <2>2, <2>3, <3>2, <3>3 DEF Streams
  <2>7. Moves(c, a, T, K) /\ Arrived(a) = Arrived(c)
    BY <1>1, <2>1, <2>2, <2>6, StateMoves DEF Fatal, Dead
  <2>8. Quiet(c, a, P, T, K)
    BY <2>2, <2>3, <2>4, <2>7 DEF Quiet, Glides, Calm, Level
  <2>9. Data(a, T, K)
    BY <2>7 DEF Moves
  <2>10. Quiet(a, d, P, T, K)
    BY <1>1, <2>2, <2>4, <2>9, OnWritableQuiet DEF d
  <2>11. Quiet(c, d, P, T, K)
    BY <2>8, <2>10, DoesTrans
  <2> QED BY <1>4, <1>6, <2>11, RestQuiet
<1> QED BY <1>5, <1>6

\* async_receive.
LEMMA AsyncReceiveDoes ==
  ASSUME NEW P \in Peers, NEW T \in Sources, NEW K \in Sinks, NEW c, Good(c, P), Data(c, T, K),
         AtRest(c), c.up, NEW n \in Nat, NEW u \in Inputs
  PROVE  LET d == AsyncReceive(c, n, u)
         IN  Does(c, d, P, T, K) /\ AtRest(d)
<1> DEFINE a == [c EXCEPT !.op = n]
           d == RecvData(a, u)
<1>1. c \in Cb /\ c.st # "LISTEN"
  BY UpOpened DEF Good, Kept
<1>2. AsyncReceive(c, n, u) = c \/ AsyncReceive(c, n, u) = d
  BY DEF AsyncReceive
<1>3. a \in Cb
  BY ZenonT(60), <1>1 DEF Cb
<1>4. Same(c, a) /\ a.cwnd = c.cwnd /\ a.r = c.r /\ a.flags = c.flags /\ a.st = c.st
  BY <1>1 DEF Cb, Same
<1> HIDE DEF a, d
<1>5. Quiet(c, a, P, T, K)
  BY <1>3, <1>4, SameQuiet
<1>6. Good(a, P) /\ Data(a, T, K)
  BY <1>5, QuietDoes
<1>7. Quiet(a, d, P, T, K)
  BY <1>1, <1>4, <1>6, RecvDataQuiet DEF d
<1>8. Quiet(c, d, P, T, K) /\ Quiet(c, c, P, T, K)
  BY <1>5, <1>7, DoesTrans
<1>9. \A x : Quiet(c, x, P, T, K) => Does(c, x, P, T, K) /\ AtRest(x)
  BY RestQuiet
<1> QED BY <1>2, <1>8, <1>9

\* async_shutdown: what follows in the stream is its end.
LEMMA AsyncShutdownDoes ==
  ASSUME NEW P \in Peers, NEW T \in Sources, NEW K \in Sinks, NEW c, Good(c, P), Data(c, T, K),
         AtRest(c), NEW u \in Inputs
  PROVE  LET d == AsyncShutdown(c, u)
         IN  Good(d, P) /\ Moves(c, d, T, K) /\ AtRest(d)
<1> DEFINE yes == TRUE
           a == [c EXCEPT !.shut = yes]
           s == IF c.st = "ESTABLISHED" THEN "FIN_WAIT_1" ELSE "LAST_ACK"
           b == [a EXCEPT !.st = s]
           d == Output(b, u)
<1>1. c \in Cb /\ yes \in BOOLEAN /\ s \in {"FIN_WAIT_1", "LAST_ACK"}
  BY DEF Good, Kept
<1>2. a \in Cb /\ Same(c, a) /\ a.cwnd = c.cwnd /\ a.r = c.r /\ a.flags = c.flags /\ a.st = c.st
  BY <1>1 DEF Cb, Same
<1>3. \/ AsyncShutdown(c, u) = a
      \/ AsyncShutdown(c, u) = d /\ c.st \in {"ESTABLISHED", "CLOSE_WAIT"}
  BY DEF AsyncShutdown
<1> HIDE DEF yes, a
<1>4. Quiet(c, a, P, T, K)
  BY <1>2, SameQuiet
<1>5. Does(c, a, P, T, K) /\ AtRest(a) /\ Good(a, P) /\ Data(a, T, K)
  BY <1>4, RestQuiet, QuietDoes
<1>6. CASE AsyncShutdown(c, u) = d /\ c.st \in {"ESTABLISHED", "CLOSE_WAIT"}
  <2>1. Good(d, P)
    BY <1>6, AsyncShutdownKeeps DEF Leads
  <2>2. (s = "LAST_ACK" => a.err # "none") /\ a.st \notin Opening
    BY <1>2, <1>5, <1>6 DEF Good, Kept, Phased, Opening
  <2>3. "SENTFIN" \notin a.flags /\ ("NOTIFY_DROP" \in a.flags => a.err # "none") /\ a.r.nxt >= 1
    BY <1>2, <1>5, <1>6 DEF Good, Kept, Phased, Finishing, Opened, Opening
  <2> HIDE DEF s, d
  <2>4. b \in Cb
    <3>1. s \in States
      BY <1>1 DEF States
    <3> QED BY <1>2, <3>1 DEF Cb
  <2>5. /\ b.st = s /\ b.err = a.err /\ b.una = a.una /\ b.nxt = a.nxt
        /\ b.max = a.max /\ b.fack = a.fack /\ b.retrans = a.retrans /\ b.sb = a.sb
        /\ b.sbseq = a.sbseq /\ b.told = a.told
    BY <1>2 DEF Cb
  <2>6. /\ b.rexmt = a.rexmt /\ b.persist = a.persist /\ b.cwnd = a.cwnd /\ b.ops = a.ops
        /\ b.up = a.up /\ b.r = a.r /\ b.out = a.out /\ b.flags = a.flags /\ b.bad = a.bad
    BY <1>2 DEF Cb
  <2> HIDE DEF b
  <2>7. b.st \notin {"SYN_SENT", "SYN_RECEIVED", "LISTEN"} /\ b.st # "CLOSED" /\ b.st \in Ending
    BY <1>1, <2>5 DEF Ending
  <2>8. Leads(a, b, P)
    BY <1>1, <1>5, <2>2, <2>3, <2>4, <2>5, <2>6, <2>7, StateKeeps DEF Handshaking
  <2>9. Good(b, P)
    BY <2>8 DEF Leads
  <2>10. Streams(a, b) /\ b.st \notin {"FIN_WAIT_2", "TIME_WAIT"}
    BY <1>1, <2>5, <2>6 DEF Streams
  <2>11. Moves(a, b, T, K)
    BY <1>2, <1>5, <2>2, <2>4, <2>5, <2>6, <2>7, <2>10, StateGoes
  <2>12. AtRest(b)
    <3>1. Doomed(b)
      BY <1>2, <1>5, <1>6, <2>5, <2>6 DEF AtRest, Tidy, Doomed, Fatal
    <3>2. Level(b) /\ Settled(b) /\ Pristine(b)
      BY <2>7 DEF Level, Settled, Pristine, Blank, Handshaking
    <3> QED BY <1>5, <2>6, <3>1, <3>2 DEF AtRest, Tidy
  <2>13. Data(b, T, K)
    BY <2>11 DEF Moves
  <2>14. Quiet(b, d, P, T, K)
    BY <2>7, <2>9, <2>13, OutputQuiet DEF d
  <2>15. Does(b, d, P, T, K) /\ AtRest(d)
    BY <2>9, <2>12, <2>14, RestQuiet
  <2>16. d \in Cb
    BY <2>1 DEF Good, Kept
  <2>17. Moves(c, a, T, K) /\ Moves(b, d, T, K)
    BY <1>5, <2>15 DEF Does
  <2>18. Moves(c, b, T, K)
    BY <1>1, <1>2, <2>4, <2>11, <2>17, GlidesTrans
  <2>19. Moves(c, d, T, K)
    BY <1>1, <2>4, <2>16, <2>17, <2>18, GlidesTrans
  <2> QED BY <1>6, <2>1, <2>15, <2>19
<1>7. CASE AsyncShutdown(c, u) = a
  BY <1>5, <1>7 DEF Does
<1> QED BY <1>3, <1>6, <1>7

----------------------------------------------------------------------------
(* Both ends and the network. *)

\* What one handler at an end does to both streams, as its peer is.
Goes(c, x, d) == Good(x, View(d)) /\ Moves(c, x, Source(d), Sink(d)) /\ AtRest(x)

\* A stream has grown that has not changed.
LEMMA GrowsSelf ==
  ASSUME NEW S \in Sources, NEW K \in Sinks
  PROVE  SrcGrows(S, S) /\ SnkGrows(K, K)
<1>1. S.seq \in Nat /\ K.n \in Nat /\ K.nxt \in Nat
  BY DEF Sources, Sinks
<1> QED BY <1>1 DEF SrcGrows, SnkGrows

\* A handler is over: what it has sent is on the network.
LEMMA SilentData ==
  ASSUME NEW T \in Sources, NEW K \in Sinks, NEW x \in Cb, Data(x, T, K)
  PROVE  LET s == Silent(x)
         IN  /\ Data(s, T, K) /\ Source(s) = Source(x) /\ Sink(s) = Sink(x)
             /\ Arrived(s) = Arrived(x) /\ s.st = x.st /\ s.err = x.err /\ s.r = x.r
             /\ s.sbseq = x.sbseq /\ s.told = x.told
             /\ (AtRest(x) => AtRest(s))
<1> DEFINE nil == << >>
           s == Silent(x)
<1>1. s = [x EXCEPT !.out = nil] /\ Len(nil) = 0
  BY DEF Silent
<1> HIDE DEF nil, s
<1>2. /\ s.st = x.st /\ s.err = x.err /\ s.r = x.r /\ s.flags = x.flags /\ s.sb = x.sb
      /\ s.sbseq = x.sbseq /\ s.told = x.told /\ s.ops = x.ops
  BY <1>1 DEF Cb
<1>3. /\ s.max = x.max /\ s.nxt = x.nxt /\ s.up = x.up /\ s.out = nil
  BY <1>1 DEF Cb
<1>4. Source(s) = Source(x) /\ Sink(s) = Sink(x) /\ Arrived(s) = Arrived(x) /\ Cuts(s) = Cuts(x)
  BY <1>2 DEF Source, Cuts, Sink, Arrived
<1>5. Stage(s)
  <2>1. Whole(s)
    BY <1>3, <1>4 DEF Data, Stage, Whole
  <2> QED BY <1>2, <1>3, <1>4, <2>1 DEF Data, Stage, NoOps
<1>6. Ended(s, T, K) /\ Ordered(s)
  BY <1>2, <1>3, <1>4 DEF Data, Ended, Ordered
<1>7. Says(s, T)
  BY <1>1, <1>3 DEF Says
<1>8. Data(s, T, K)
  BY <1>4, <1>5, <1>6, <1>7 DEF Data
<1>9. AtRest(x) => AtRest(s)
  BY <1>2, <1>3, <1>4 DEF AtRest, Tidy, Level, Settled, Doomed, Fatal, Pristine, Blank
<1> QED BY <1>2, <1>4, <1>8, <1>9 DEF s

\* What an end has of both streams stays true while its peer goes on.
LEMMA OtherData ==
  ASSUME NEW c \in Cb, NEW d \in Cb, NEW x \in Cb, d.out = << >>,
         Data(c, Source(d), Sink(d)), Data(d, Source(c), Sink(c)),
         Moves(c, x, Source(d), Sink(d))
  PROVE  Data(d, Source(x), Sink(x))
<1>1. /\ Source(c) \in Sources /\ Sink(c) \in Sinks /\ Source(d) \in Sources
      /\ Sink(d) \in Sinks /\ Source(x) \in Sources /\ Sink(x) \in Sinks
  BY PartTypes
<1>2. /\ SrcGrows(Source(c), Source(x)) /\ SnkGrows(Sink(c), Sink(x))
      /\ SrcGrows(Source(d), Source(d)) /\ SnkGrows(Sink(d), Sink(d))
  BY <1>1, GrowsSelf DEF Moves, Adds
<1>3. /\ Flow(Source(c), Sink(d)) /\ Flow(Source(d), Sink(c))
      /\ Flow(Source(x), Sink(d)) /\ Flow(Source(d), Sink(x))
  BY DEF Moves, Data
<1>4. Full(Source(c), Sink(d)) => Full(Source(x), Sink(d))
  BY <1>1, <1>2, <1>3, FullGrows
<1>5. Full(Source(d), Sink(c)) => Full(Source(d), Sink(x))
  BY <1>1, <1>2, <1>3, FullGrows
<1>6. Sink(c).nxt >= d.max => Sink(x).nxt >= d.max
  <2>1. Sink(c).nxt \in Nat /\ Sink(x).nxt \in Nat /\ d.max \in Nat
    BY <1>1, CbNumbers DEF Sinks
  <2> QED BY <1>2, <2>1 DEF SnkGrows
<1>7. Ended(d, Source(x), Sink(x))
  BY <1>4, <1>5, <1>6 DEF Data, Ended
<1>8. Says(d, Source(x))
  <2>1. Len(d.out) = 0
    OBVIOUS
  <2> QED BY <2>1 DEF Says
<1> QED BY <1>3, <1>7, <1>8 DEF Data

\* The datagrams to the end that has taken a step, and those to its peer.
LEMMA CarriesOn ==
  ASSUME NEW c \in Cb, NEW d \in Cb, NEW x \in Cb,
         Data(c, Source(d), Sink(d)), Moves(c, x, Source(d), Sink(d)), NEW m \in Datagram
  PROVE  /\ Carries(m, Source(d), Sink(d), Source(c)) =>
              Carries(m, Source(d), Sink(d), Source(x))
         /\ Carries(m, Source(c), Sink(c), Source(d)) =>
              Carries(m, Source(x), Sink(x), Source(d))
<1>1. /\ Source(c) \in Sources /\ Sink(c) \in Sinks /\ Source(d) \in Sources
      /\ Sink(d) \in Sinks /\ Source(x) \in Sources /\ Sink(x) \in Sinks
  BY PartTypes
<1>2. /\ SrcGrows(Source(c), Source(x)) /\ SnkGrows(Sink(c), Sink(x))
      /\ SrcGrows(Source(d), Source(d)) /\ SnkGrows(Sink(d), Sink(d))
  BY <1>1, GrowsSelf DEF Moves, Adds
<1>3. /\ Flow(Source(c), Sink(d)) /\ Flow(Source(d), Sink(c))
      /\ Flow(Source(x), Sink(d)) /\ Flow(Source(d), Sink(x))
  BY DEF Moves, Data
<1>4. Carries(m, Source(d), Sink(d), Source(c)) => Carries(m, Source(d), Sink(d), Source(x))
  BY <1>1, <1>2, <1>3, CarriesGrows
<1>5. Carries(m, Source(c), Sink(c), Source(d)) => Carries(m, Source(x), Sink(x), Source(d))
  BY <1>1, <1>2, <1>3, CarriesGrows
<1> QED BY <1>4, <1>5

\* What an end has given its application are the first bytes of the stream.
LEMMA GivenBytes ==
  ASSUME NEW x \in Cb, Ordered(x)
  PROVE  x.r.got = [i \in 1 .. Len(x.r.got) |-> i] /\ Len(x.r.got) \in Nat
         /\ Len(x.r.got) <= Arrived(x)
<1> DEFINE g == x.r.got
           q == x.r.q
           n == Len(g)
           s == g \o q
<1>1. g \in Seq(Nat) /\ q \in Seq(Nat)
  BY DEF Cb, Half
<1>2. n \in Nat /\ Len(q) \in Nat /\ g = [i \in 1 .. n |-> g[i]]
  BY <1>1, LenProperties
<1>3. Arrived(x) = n + Len(q) /\ Arrived(x) \in Nat /\ n <= Arrived(x)
  <2>1. Arrived(x) = n + Len(q)
    BY DEF Arrived
  <2> HIDE DEF n
  <2> QED BY <1>2, <2>1
<1>4. \A i \in 1 .. n : s[i] = g[i]
  <2> HIDE DEF g, q
  <2>1. \A i \in 1 .. Len(g) + Len(q) : s[i] = IF i <= Len(g) THEN g[i] ELSE q[i - Len(g)]
    BY <1>1, ConcatProperties
  <2> HIDE DEF s
  <2> QED BY <1>2, <2>1
<1>5. \A i \in 1 .. n : g[i] = i
  <2> TAKE i \in 1 .. n
  <2>1. s = Bytes(1, Arrived(x))
    BY DEF Ordered
  <2> HIDE DEF n, s
  <2>3. i \in 1 .. Arrived(x) /\ i \in Nat
    BY <1>2, <1>3
  <2>2. Bytes(1, Arrived(x))[i] = 1 + i - 1
    BY <2>3 DEF Bytes
  <2> QED BY <1>4, <2>1, <2>2, <2>3
<1> HIDE DEF n, g
<1>6. g = [i \in 1 .. n |-> i]
  BY <1>2, <1>5
<1> QED BY <1>2, <1>3, <1>6 DEF g, n

\* What UdtStream sees of an end.
Status(c) == IF c.err = "none" THEN "open" ELSE IF c.err = "eof" THEN "eof" ELSE "failed"

\* One handler at an end writes, receives, reads and changes as UdtStream allows.
LEMMA HandlerStreams ==
  ASSUME NEW c \in Cb, NEW d \in Cb, NEW x \in Cb, Data(c, Source(d), Sink(d)), AtRest(c),
         Goes(c, x, d)
  PROVE  /\ Written(x) >= Written(c)
         /\ c.told => x.told /\ Written(x) = Written(c)
         /\ Status(c) = "failed" => Written(x) = Written(c) /\ x.told = c.told
         /\ Arrived(c) <= Arrived(x) /\ Arrived(x) <= Written(d)
         /\ Status(c) # "open" => Arrived(x) = Arrived(c)
         /\ \E n \in Len(c.r.got) .. Arrived(x) : x.r.got = [i \in 1 .. n |-> i]
         /\ \/ Status(x) = Status(c)
            \/ Status(x) = "failed"
            \/ Status(c) = "open" /\ Status(x) = "eof" /\ d.told /\ Arrived(x) = Written(d)
<1> DEFINE S == Source(c)
           U == Source(x)
           T == Source(d)
           J == Sink(c)
           L == Sink(x)
           K == Sink(d)
<1>1. /\ S \in Sources /\ U \in Sources /\ T \in Sources /\ J \in Sinks /\ L \in Sinks /\ K \in Sinks
      /\ S.seq = c.sbseq /\ U.seq = x.sbseq /\ T.seq = d.sbseq
      /\ S.told = c.told /\ U.told = x.told /\ T.told = d.told
  BY PartTypes
<1>2. J.n = Arrived(c) /\ L.n = Arrived(x) /\ Arrived(c) \in Nat /\ Arrived(x) \in Nat
  BY PartTypes
<1>3. c.sbseq \in Nat /\ x.sbseq \in Nat /\ d.sbseq \in Nat
  BY <1>1 DEF Sources
<1> HIDE DEF S, U, T, J, L, K
<1>4. Data(c, T, K) /\ Data(x, T, K) /\ Adds(c, x)
  BY DEF Goes, Moves, T, K
<1>5. Flow(T, J) /\ Flow(T, L) /\ SrcGrows(S, U) /\ SnkGrows(J, L) /\ SrcGrows(T, T)
  BY <1>1, <1>4, GrowsSelf DEF Data, Adds, S, U, J, L
<1>6. c.sbseq <= x.sbseq /\ (c.told => x.told /\ x.sbseq = c.sbseq)
  BY <1>1, <1>5 DEF SrcGrows
<1>7. Arrived(c) <= Arrived(x)
  BY <1>2, <1>5 DEF SnkGrows
<1>8. Arrived(x) = 0 \/ Arrived(x) < d.sbseq
  BY <1>1, <1>2, <1>5 DEF Flow
<1>9. Written(x) >= Written(c) /\ Arrived(x) <= Written(d)
      /\ (x.sbseq = c.sbseq => Written(x) = Written(c))
  BY <1>2, <1>3, <1>6, <1>8 DEF Written, Greatest
<1>10. Status(c) = "failed" => Dead(c)
  BY DEF Status, Dead, Fatal, AtRest, Tidy, Doomed
<1>11. Dead(c) => x.sbseq = c.sbseq /\ x.told = c.told /\ Arrived(x) = Arrived(c)
  BY <1>4 DEF Adds
<1>12. c.err = "eof" => Arrived(x) = Arrived(c)
  <2>1. c.err = "eof" => Full(T, J)
    BY <1>4 DEF Data, Ended, J
  <2> QED BY <1>1, <1>2, <1>5, <2>1, FullGrows
<1>13. Status(c) # "open" => Arrived(x) = Arrived(c)
  BY <1>10, <1>11, <1>12 DEF Status
<1>14. \E n \in Len(c.r.got) .. Arrived(x) : x.r.got = [i \in 1 .. n |-> i]
  <2>1. Len(c.r.got) <= Len(x.r.got) /\ Len(c.r.got) \in Nat
    <3>1. c.r.got \in Seq(Nat)
      BY DEF Cb, Half
    <3> QED BY <1>4, <3>1, LenProperties DEF Adds
  <2>2. x.r.got = [i \in 1 .. Len(x.r.got) |-> i] /\ Len(x.r.got) \in Nat
        /\ Len(x.r.got) <= Arrived(x)
    BY <1>4, GivenBytes DEF Data
  <2> DEFINE n == Len(x.r.got)
  <2>3. n \in Len(c.r.got) .. Arrived(x) /\ x.r.got = [i \in 1 .. n |-> i]
    <3>1. n \in Len(c.r.got) .. Arrived(x)
      BY <1>2, <2>1, <2>2
    <3> QED BY <2>2, <3>1
  <2> HIDE DEF n
  <2> QED BY <2>3
<1>15. x.err = "eof" => d.told /\ Arrived(x) = Written(d)
  <2>1. x.err = "eof" => Full(T, L)
    BY <1>4 DEF Data, Ended, L
  <2> QED BY <1>1, <1>2, <1>3, <2>1 DEF Full, Written, Greatest
<1>16. (c.err # "none" => x.err # "none") /\ (Fatal(c) => Fatal(x))
  BY <1>4 DEF Adds
<1>17. \/ Status(x) = Status(c)
       \/ Status(x) = "failed"
       \/ Status(c) = "open" /\ Status(x) = "eof" /\ d.told /\ Arrived(x) = Written(d)
  BY <1>15, <1>16 DEF Status, Fatal
<1> QED BY <1>6, <1>7, <1>9, <1>10, <1>11, <1>13, <1>14, <1>17

\* An end, what is on its way to it, and how far its application is: it has
\* finished its stream only when everything it was to send has been sent.
EndData(c, d, in, sent, plan) ==
  /\ Data(c, Source(d), Sink(d)) /\ AtRest(c)
  /\ \A m \in in : Carries(m, Source(d), Sink(d), Source(c))
  /\ c.st \in FinWait => c.err # "none" \/ sent = plan
StreamInv ==
  /\ ConnInv
  /\ \A e \in Ends : EndData(ep[e], ep[Peer(e)], net[e], app[e].sent, Len(SendPlan[e]))

\* What the invariant says of an end and of its peer.
LEMMA StreamEnds ==
  ASSUME StreamInv, NEW e \in Ends
  PROVE  LET c == ep[e]
             d == ep[Peer(e)]
         IN  /\ c \in Cb /\ d \in Cb /\ Good(c, View(d)) /\ View(d) \in Peers
             /\ Source(d) \in Sources /\ Sink(d) \in Sinks
             /\ Data(c, Source(d), Sink(d)) /\ Data(d, Source(c), Sink(c))
             /\ AtRest(c) /\ AtRest(d) /\ c.out = << >> /\ d.out = << >>
             /\ \A m \in net[e] : m \in Datagram /\ Sound(m, View(d), View(c))
                                  /\ Carries(m, Source(d), Sink(d), Source(c))
             /\ \A m \in net[Peer(e)] : m \in Datagram /\ Carries(m, Source(c), Sink(c), Source(d))
             /\ c.st \in FinWait => c.err # "none" \/ app[e].sent = Len(SendPlan[e])
<1> DEFINE o == Peer(e)
           c == ep[e]
           d == ep[o]
<1>1. o \in Ends /\ Peer(o) = e /\ ConnInv
  BY PeerFacts DEF StreamInv
<1>2. /\ EndData(c, d, net[e], app[e].sent, Len(SendPlan[e]))
      /\ EndData(d, c, net[o], app[o].sent, Len(SendPlan[o]))
  BY <1>1 DEF StreamInv
<1>3. /\ c \in Cb /\ d \in Cb /\ EndInv(c, d, net[e]) /\ EndInv(d, c, net[o])
  BY <1>1 DEF ConnInv
<1> HIDE DEF o
<1>4. View(d) \in Peers /\ Source(d) \in Sources /\ Sink(d) \in Sinks
  BY <1>3, ViewType, PartTypes
<1> HIDE DEF c, d
<1>5. /\ Good(c, View(d)) /\ c.out = << >> /\ d.out = << >>
      /\ \A m \in net[e] : m \in Datagram /\ Sound(m, View(d), View(c))
      /\ \A m \in net[o] : m \in Datagram
  BY <1>3 DEF EndInv
<1>6. /\ Data(c, Source(d), Sink(d)) /\ Data(d, Source(c), Sink(c)) /\ AtRest(c) /\ AtRest(d)
      /\ \A m \in net[e] : Carries(m, Source(d), Sink(d), Source(c))
      /\ \A m \in net[o] : Carries(m, Source(c), Sink(c), Source(d))
      /\ c.st \in FinWait => c.err # "none" \/ app[e].sent = Len(SendPlan[e])
  BY <1>2 DEF EndData
<1> QED BY <1>3, <1>4, <1>5, <1>6 DEF o, c, d

\* A handler at one end keeps what both ends and the network hold of the streams,
\* and is a step of UdtStream.
LEMMA LeaveStreams ==
  ASSUME StreamInv, NEW e \in Ends, NEW x, Goes(ep[e], x, ep[Peer(e)]), ConnInv',
         NEW here \in SUBSET net[e], Leave(e, x, here),
         app'[Peer(e)] = app[Peer(e)],
         x.st \in FinWait => x.err # "none" \/ app'[e].sent = Len(SendPlan[e])
  PROVE  StreamInv' /\ Stream!Step(e)
<1> DEFINE o == Peer(e)
           c == ep[e]
           d == ep[o]
           s == Silent(x)
           R == Reach(net[o], x.out)
<1>1. o \in Ends /\ Peer(o) = e /\ o # e /\ \A f \in Ends : f = e \/ f = o
  BY PeerFacts
<1>2. /\ ep \in [Ends -> Cb] /\ net \in [Ends -> SUBSET Datagram]
      /\ IsFiniteSet(net[o]) /\ Cardinality(net[o]) <= NetCap
  BY <1>1 DEF StreamInv, ConnInv, EndInv
<1>3. /\ c \in Cb /\ d \in Cb /\ Data(c, Source(d), Sink(d)) /\ Data(d, Source(c), Sink(c))
      /\ AtRest(c) /\ AtRest(d) /\ d.out = << >>
      /\ \A m \in net[e] : m \in Datagram /\ Carries(m, Source(d), Sink(d), Source(c))
      /\ \A m \in net[o] : m \in Datagram /\ Carries(m, Source(c), Sink(c), Source(d))
      /\ d.st \in FinWait => d.err # "none" \/ app[o].sent = Len(SendPlan[o])
  <2>1. c = ep[e] /\ d = ep[Peer(e)] /\ o = Peer(e)
    OBVIOUS
  <2>2. EndData(ep[o], ep[Peer(o)], net[o], app[o].sent, Len(SendPlan[o]))
    BY <1>1 DEF StreamInv
  <2> HIDE DEF c, d, o
  <2> QED BY <1>1, <2>1, <2>2, StreamEnds DEF EndData
<1>4. Goes(c, x, d)
  OBVIOUS
<1>5. ep' = [ep EXCEPT ![e] = s] /\ net' = [net EXCEPT ![e] = here, ![o] = R]
  BY <1>1, <1>2 DEF Leave, Silent
<1>6. /\ ep'[e] = s /\ ep'[o] = d /\ net'[e] = here /\ net'[o] = R
  BY <1>1, <1>2, <1>5
<1> HIDE DEF c, d, o, R
<1>7. x \in Cb /\ Moves(c, x, Source(d), Sink(d)) /\ Data(x, Source(d), Sink(d)) /\ AtRest(x)
      /\ Source(d) \in Sources /\ Sink(d) \in Sinks
  BY <1>3, <1>4, PartTypes DEF Goes, Moves
<1>8. /\ Data(s, Source(d), Sink(d)) /\ Source(s) = Source(x) /\ Sink(s) = Sink(x) /\ AtRest(s)
      /\ Arrived(s) = Arrived(x) /\ s.st = x.st /\ s.err = x.err /\ s.r = x.r
      /\ s.sbseq = x.sbseq /\ s.told = x.told
  BY <1>7, SilentData
<1> HIDE DEF s
<1>9. Data(d, Source(s), Sink(s))
  BY <1>3, <1>7, <1>8, OtherData
<1>10. \A m \in here : Carries(m, Source(d), Sink(d), Source(s))
  BY <1>3, <1>7, <1>8, CarriesOn
<1>11. \A m \in R : Carries(m, Source(s), Sink(s), Source(d))
  <2>1. x.out \in Seq(Datagram) /\ net[o] \in SUBSET Datagram
    BY <1>1, <1>2, <1>7, CbNumbers
  <2>2. R \subseteq net[o] \cup {x.out[i] : i \in 1 .. Len(x.out)}
    BY <1>2, <2>1, ReachBounded DEF R
  <2>3. \A i \in 1 .. Len(x.out) : Carries(x.out[i], Source(x), Sink(x), Source(d))
    BY <1>7 DEF Data, Says
  <2>4. \A m \in net[o] : Carries(m, Source(x), Sink(x), Source(d))
    BY <1>3, <1>7, CarriesOn
  <2> QED BY <1>8, <2>2, <2>3, <2>4
<1>12. EndData(s, d, here, app'[e].sent, Len(SendPlan[e]))
  BY <1>8, <1>10 DEF EndData
<1>13. EndData(d, s, R, app'[o].sent, Len(SendPlan[o]))
  BY <1>3, <1>9, <1>11 DEF EndData, o
<1>14. StreamInv'
  <2>1. \A f \in Ends : EndData(ep'[f], ep'[Peer(f)], net'[f], app'[f].sent, Len(SendPlan[f]))
    <3>1. EndData(ep'[e], ep'[Peer(e)], net'[e], app'[e].sent, Len(SendPlan[e]))
      BY <1>6, <1>12 DEF o
    <3>2. EndData(ep'[o], ep'[Peer(o)], net'[o], app'[o].sent, Len(SendPlan[o]))
      BY <1>1, <1>6, <1>13
    <3> QED BY <1>1, <3>1, <3>2
  <2> QED BY <2>1 DEF StreamInv
<1>15. /\ Written(s) >= Written(c)
       /\ c.told => s.told /\ Written(s) = Written(c)
       /\ Status(c) = "failed" => Written(s) = Written(c) /\ s.told = c.told
       /\ Arrived(c) <= Arrived(s) /\ Arrived(s) <= Written(d)
       /\ Status(c) # "open" => Arrived(s) = Arrived(c)
       /\ \E n \in Len(c.r.got) .. Arrived(s) : s.r.got = [i \in 1 .. n |-> i]
       /\ \/ Status(s) = Status(c)
          \/ Status(s) = "failed"
          \/ Status(c) = "open" /\ Status(s) = "eof" /\ d.told /\ Arrived(s) = Written(d)
  <2>1. Written(s) = Written(x) /\ Status(s) = Status(x)
    BY <1>8 DEF Written, Status
  <2> QED BY <1>3, <1>4, <1>7, <1>8, <2>1, HandlerStreams
<1>16. Stream!Step(e)
  <2>1. Stream!Writes(e)
    BY <1>6, <1>15 DEF Stream!Writes, Status, c
  <2>2. Stream!Arrives(e)
    BY <1>1, <1>6, <1>15 DEF Stream!Arrives, Status, c, d, o
  <2>3. Stream!IsGiven(e)
    BY <1>6, <1>15 DEF Stream!IsGiven, c
  <2>4. Stream!Changes(e)
    BY <1>1, <1>6, <1>15 DEF Stream!Changes, Status, c, d, o
  <2>5. \A f \in Ends \ {e} : ep'[f] = ep[f]
    BY <1>1, <1>6 DEF d
  <2> QED BY <2>1, <2>2, <2>3, <2>4, <2>5 DEF Stream!Step
<1> QED BY <1>14, <1>16

\* A handler that does not finish the stream, of a call or of none.
LEMMA DoesStreams ==
  ASSUME StreamInv, ConnInv', NEW e \in Ends, NEW x, NEW here \in SUBSET net[e],
         Leave(e, x, here), app'[Peer(e)] = app[Peer(e)], app'[e].sent = app[e].sent,
         Does(ep[e], x, View(ep[Peer(e)]), Source(ep[Peer(e)]), Sink(ep[Peer(e)])), AtRest(x)
  PROVE  StreamInv' /\ Stream!Step(e)
<1>1. Goes(ep[e], x, ep[Peer(e)])
  BY DEF Does, Goes
<1>2. x.st \in FinWait => ep[e].st \in FinWait
  BY DEF Does
<1>3. ep[e].err # "none" => x.err # "none"
  BY DEF Does, Moves, Adds
<1>4. x.st \in FinWait => x.err # "none" \/ app'[e].sent = Len(SendPlan[e])
  BY <1>2, <1>3, StreamEnds
<1> QED BY <1>1, <1>4, LeaveStreams

\* handle_receive.
LEMMA DeliverStreams ==
  ASSUME StreamInv, ConnInv', NEW e \in Ends, NEW p \in net[e], Deliver(e, p) \/ Repeat(e, p)
  PROVE  StreamInv' /\ Stream!Step(e)
<1>1. PICK u \in Unknown(TRUE), here \in SUBSET net[e] : Leave(e, Input(ep[e], p, u), here)
  <2>1. CASE Deliver(e, p)
    BY <2>1 DEF Deliver
  <2>2. CASE Repeat(e, p)
    BY <2>2 DEF Repeat
  <2> QED BY <2>1, <2>2
<1>2. app' = app
  BY DEF Deliver, Repeat
<1>3. u \in Inputs
  BY UnknownInputs
<1> DEFINE c == ep[e]
           d == ep[Peer(e)]
           P == View(d)
           T == Source(d)
           K == Sink(d)
<1>4. /\ Good(c, P) /\ P \in Peers /\ T \in Sources /\ K \in Sinks /\ Data(c, T, K) /\ AtRest(c)
      /\ p \in Datagram /\ Sound(p, P, View(c)) /\ Carries(p, T, K, Source(c))
  BY StreamEnds
<1>5. Does(c, Input(c, p, u), P, T, K) /\ AtRest(Input(c, p, u))
  <2> HIDE DEF c, d, P, T, K
  <2> QED BY <1>3, <1>4, InputDoes
<1> QED BY <1>1, <1>2, <1>5, DoesStreams

\* A datagram is lost: no stream moves.
LEMMA LoseStreams ==
  ASSUME StreamInv, ConnInv', NEW e \in Ends, NEW p \in net[e], Lose(e, p)
  PROVE  StreamInv' /\ ep' = ep
<1>1. ep' = ep /\ app' = app /\ net' = [net EXCEPT ![e] = @ \ {p}]
  BY DEF Lose
<1>2. \A f \in Ends : net'[f] \subseteq net[f]
  <2>1. net \in [Ends -> SUBSET Datagram]
    BY DEF StreamInv, ConnInv
  <2> QED BY <1>1, <2>1
<1>3. \A f \in Ends : EndData(ep[f], ep[Peer(f)], net'[f], app[f].sent, Len(SendPlan[f]))
  BY <1>2 DEF StreamInv, EndData
<1> QED BY <1>1, <1>3 DEF StreamInv

\* A timer that has expired, and a step of one end that no message starts.
LEMMA ExpireStreams ==
  ASSUME StreamInv, ConnInv', NEW e \in Ends, NEW timer, NEW cs,
         Expire(e, timer, cs) \/ Local(e, cs),
         \A x \in cs : Does(ep[e], x, View(ep[Peer(e)]), Source(ep[Peer(e)]), Sink(ep[Peer(e)]))
                       /\ AtRest(x)
  PROVE  StreamInv' /\ Stream!Step(e)
<1>1. PICK x \in cs : Leave(e, x, net[e])
  BY DEF Expire, Local
<1>2. app' = app
  BY DEF Expire, Local
<1> QED BY <1>1, <1>2, DoesStreams

\* The six timers of an end.
LEMMA TimersStream ==
  ASSUME StreamInv, ConnInv', NEW e \in Ends,
         Rexmt(e) \/ Persist(e) \/ Keep(e) \/ Msl(e) \/ Fast(e) \/ Delay(e)
  PROVE  StreamInv' /\ Stream!Step(e)
<1> DEFINE c == ep[e]
           P == View(ep[Peer(e)])
           T == Source(ep[Peer(e)])
           K == Sink(ep[Peer(e)])
           U == Unknown(FALSE)
           Fine(x) == Does(c, x, P, T, K) /\ AtRest(x)
<1>1. /\ Good(c, P) /\ P \in Peers /\ T \in Sources /\ K \in Sinks /\ Data(c, T, K) /\ AtRest(c)
      /\ U \subseteq Inputs
  BY StreamEnds, UnknownInputs
<1>2. ASSUME NEW timer, NEW cs, Expire(e, timer, cs) \/ Local(e, cs), \A x \in cs : Fine(x)
      PROVE  StreamInv' /\ Stream!Step(e)
  BY <1>2, ExpireStreams
<1>3. CASE Rexmt(e)
  <2> DEFINE cs == {RexmtTimeout(c, u) : u \in U}
  <2>1. c.rexmt /\ Expire(e, "rexmt", cs)
    BY <1>3 DEF Rexmt, Expire
  <2>2. \A u \in U : Fine(RexmtTimeout(c, u))
    <3> HIDE DEF c, P, T, K, U
    <3> QED BY <1>1, <2>1, RexmtTimeoutDoes
  <2>3. \A x \in cs : Fine(x)
    BY <2>2
  <2> HIDE DEF cs, Fine
  <2> QED BY <1>2, <2>1, <2>3
<1>4. CASE Persist(e)
  <2> DEFINE cs == {PersistTimeout(c, u) : u \in U}
  <2>1. c.persist /\ Expire(e, "persist", cs)
    BY <1>4 DEF Persist, Expire
  <2>2. \A u \in U : Fine(PersistTimeout(c, u))
    <3> HIDE DEF c, P, T, K, U
    <3> QED BY <1>1, <2>1, PersistTimeoutDoes
  <2>3. \A x \in cs : Fine(x)
    BY <2>2
  <2> HIDE DEF cs, Fine
  <2> QED BY <1>2, <2>1, <2>3
<1>5. CASE Keep(e)
  <2> DEFINE cs == {KeepTimeout(c, u) : u \in U}
  <2>1. c.keep /\ Expire(e, "keep", cs)
    BY <1>5 DEF Keep, Expire
  <2>2. \A u \in U : Fine(KeepTimeout(c, u))
    <3> HIDE DEF c, P, T, K, U
    <3> QED BY <1>1, <2>1, KeepTimeoutDoes
  <2>3. \A x \in cs : Fine(x)
    BY <2>2
  <2> HIDE DEF cs, Fine
  <2> QED BY <1>2, <2>1, <2>3
<1>6. CASE Msl(e)
  <2> DEFINE cs == {MslTimeout(c, u) : u \in U}
  <2>1. c.msl /\ Expire(e, "msl", cs)
    BY <1>6 DEF Msl, Expire
  <2>2. \A u \in U : Fine(MslTimeout(c, u))
    <3> HIDE DEF c, P, T, K, U
    <3> QED BY <1>1, <2>1, MslTimeoutDoes
  <2>3. \A x \in cs : Fine(x)
    BY <2>2
  <2> HIDE DEF cs, Fine
  <2> QED BY <1>2, <2>1, <2>3
<1>7. CASE Fast(e)
  <2> DEFINE cs == {FastTimeout(c, u) : u \in U}
  <2>1. "DELACK" \in c.flags /\ Local(e, cs)
    BY <1>7 DEF Fast
  <2>2. \A u \in U : Fine(FastTimeout(c, u))
    <3> HIDE DEF c, P, T, K, U
    <3> QED BY <1>1, <2>1, FastTimeoutDoes
  <2>3. \A x \in cs : Fine(x)
    BY <2>2
  <2> HIDE DEF cs, Fine
  <2> QED BY <1>2, <2>1, <2>3
<1>8. CASE Delay(e)
  <2> DEFINE cs == {DelayTimeout(c)}
  <2>1. Local(e, cs)
    BY <1>8 DEF Delay
  <2>2. Fine(DelayTimeout(c))
    <3> HIDE DEF c, P, T, K, U
    <3> QED BY <1>1, DelayTimeoutDoes
  <2>3. \A x \in cs : Fine(x)
    BY <2>2
  <2> HIDE DEF cs, Fine
  <2> QED BY <1>2, <2>1, <2>3
<1> QED BY <1>3, <1>4, <1>5, <1>6, <1>7, <1>8

\* The calls of the applications: a stream is finished once, behind everything
\* its application was to send, or after an error.
LEMMA CallsStream ==
  ASSUME StreamInv, ConnInv', NEW e \in Ends, Open(e) \/ Send(e) \/ Receive(e) \/ Shutdown(e)
  PROVE  StreamInv' /\ Stream!Step(e)
<1> DEFINE c == ep[e]
           P == View(ep[Peer(e)])
           T == Source(ep[Peer(e)])
           K == Sink(ep[Peer(e)])
           U == Unknown(FALSE)
           Fine(x) == Does(c, x, P, T, K) /\ AtRest(x)
<1>1. /\ Good(c, P) /\ P \in Peers /\ T \in Sources /\ K \in Sinks /\ Data(c, T, K) /\ AtRest(c)
      /\ U \subseteq Inputs
      /\ c.st \in FinWait => c.err # "none" \/ app[e].sent = Len(SendPlan[e])
  BY StreamEnds, UnknownInputs
<1>2. ASSUME NEW cs, Local(e, cs), \A x \in cs : Fine(x)
      PROVE  StreamInv' /\ Stream!Step(e)
  <2>1. ASSUME NEW timer, Expire(e, timer, cs) \/ Local(e, cs)
        PROVE  StreamInv' /\ Stream!Step(e)
    BY <1>2, <2>1, ExpireStreams
  <2> QED BY <1>2, <2>1
<1>3. /\ app \in [Ends -> [sent : Nat, closed : BOOLEAN]] /\ Peer(e) \in Ends /\ Peer(e) # e
  BY PeerFacts DEF StreamInv, ConnInv
<1>4. CASE Open(e)
  <2>1. Blank(c)
    BY <1>4 DEF Open, CanOpen, Blank
  <2>2. (\A u \in U : Fine(Connect(c, u))) /\ Fine(Accept(c))
    <3> HIDE DEF c, P, T, K, U
    <3> QED BY <1>1, <2>1, ConnectDoes, AcceptDoes
  <2>3. Local(e, {Connect(c, u) : u \in U}) \/ Local(e, {Accept(c)})
    BY <1>4 DEF Open
  <2>4. CASE Local(e, {Connect(c, u) : u \in U})
    <3> DEFINE cs == {Connect(c, u) : u \in U}
    <3>1. Local(e, cs) /\ \A x \in cs : Fine(x)
      BY <2>2, <2>4
    <3> HIDE DEF cs, Fine
    <3> QED BY <1>2, <3>1
  <2>5. CASE Local(e, {Accept(c)})
    <3> DEFINE cs == {Accept(c)}
    <3>1. Local(e, cs) /\ \A x \in cs : Fine(x)
      BY <2>2, <2>5
    <3> HIDE DEF cs, Fine
    <3> QED BY <1>2, <3>1
  <2> QED BY <2>3, <2>4, <2>5
<1>5. CASE Send(e)
  <2> DEFINE n == SendPlan[e][app[e].sent + 1]
  <2>1. c.up /\ app[e].sent < Len(SendPlan[e]) /\ SendPlan[e] \in Seq(Nat)
    BY <1>5, ConnAssumption DEF Send, CanSend
  <2>2. n \in Nat
    <3>1. app[e].sent \in Nat
      BY <1>3
    <3>2. app[e].sent + 1 \in 1 .. Len(SendPlan[e])
      BY <2>1, <3>1, LenProperties
    <3> QED BY <2>1, <3>2, ElementOfSeq
  <2>3. PICK u \in U : Leave(e, AsyncSend(c, n, u), net[e])
    BY <1>5 DEF Send
  <2>4. app' = [app EXCEPT ![e].sent = @ + 1]
    BY <1>5 DEF Send
  <2>5. app'[Peer(e)] = app[Peer(e)]
    BY <1>3, <2>4
  <2>6. c.st \in FinWait => c.err # "none"
    <3>1. app[e].sent \in Nat /\ Len(SendPlan[e]) \in Nat
      BY <1>3, <2>1, LenProperties
    <3> QED BY <1>1, <2>1, <3>1
  <2> DEFINE x == AsyncSend(c, n, u)
  <2>7. Does(c, x, P, T, K) /\ AtRest(x)
    <3> HIDE DEF c, P, T, K, U, n
    <3> QED BY <1>1, <2>1, <2>2, <2>6, AsyncSendDoes
  <2> HIDE DEF x, n
  <2>8. Goes(c, x, ep[Peer(e)]) /\ (x.st \in FinWait => x.err # "none")
    BY <2>6, <2>7 DEF Does, Goes, Moves, Adds
  <2>9. Leave(e, x, net[e])
    BY <2>3 DEF x, n
  <2> QED BY <2>5, <2>8, <2>9, LeaveStreams
<1>6. CASE Receive(e)
  <2>1. c.up
    BY <1>6 DEF Receive, CanReceive
  <2>2. \A n \in Reads, u \in U : Fine(AsyncReceive(c, n, u))
    <3>1. Reads \subseteq Nat
      BY ConnAssumption
    <3> HIDE DEF c, P, T, K, U
    <3> QED BY <1>1, <2>1, <3>1, AsyncReceiveDoes
  <2>3. PICK n \in Reads : Local(e, {AsyncReceive(c, n, u) : u \in U})
    BY <1>6 DEF Receive
  <2> DEFINE cs == {AsyncReceive(c, n, u) : u \in U}
  <2>4. Local(e, cs) /\ \A x \in cs : Fine(x)
    BY <2>2, <2>3
  <2> HIDE DEF cs, Fine
  <2> QED BY <1>2, <2>4
<1>7. CASE Shutdown(e)
  <2>1. PICK u \in U : Leave(e, AsyncShutdown(c, u), net[e])
    BY <1>7 DEF Shutdown
  <2>2. app' = [app EXCEPT ![e].closed = TRUE]
    BY <1>7 DEF Shutdown
  <2>3. app'[Peer(e)] = app[Peer(e)] /\ app'[e].sent = app[e].sent
    BY <1>3, <2>2
  <2>4. app[e].sent = Len(SendPlan[e]) \/ c.err = "eof"
    BY <1>7 DEF Shutdown, CanShutdown
  <2> DEFINE x == AsyncShutdown(c, u)
  <2>5. Good(x, P) /\ Moves(c, x, T, K) /\ AtRest(x)
    <3> HIDE DEF c, P, T, K, U
    <3> QED BY <1>1, AsyncShutdownDoes
  <2>6. Leave(e, x, net[e])
    BY <2>1
  <2> HIDE DEF x
  <2>7. Goes(c, x, ep[Peer(e)]) /\ (c.err # "none" => x.err # "none")
    BY <2>5 DEF Goes, Moves, Adds
  <2>8. x.st \in FinWait => x.err # "none" \/ app'[e].sent = Len(SendPlan[e])
    BY <2>3, <2>4, <2>7
  <2> QED BY <2>3, <2>6, <2>7, <2>8, LeaveStreams
<1> QED BY <1>4, <1>5, <1>6, <1>7

\* Both control blocks begin with nothing sent and nothing received.
LEMMA InitStreams == Init => StreamInv /\ Stream!Init
<1> SUFFICES ASSUME Init
             PROVE  StreamInv /\ Stream!Init
  OBVIOUS
<1> DEFINE c == CbInit
           S == Source(c)
           K == Sink(c)
<1>1. /\ c.st = "CLOSED" /\ c.err = "none" /\ c.flags = {} /\ c.nxt = 0 /\ c.max = 0
      /\ c.sb = {} /\ c.sbseq = 0 /\ c.ops = << >> /\ c.up = FALSE /\ c.told = FALSE
      /\ c.out = << >> /\ c.r = RcvInit(0)
  BY DEF CbInit
<1>2. /\ c.r.got = << >> /\ c.r.q = << >> /\ c.r.nxt = 0 /\ c.r.reasm = {} /\ c.r.fin = "none"
      /\ Len(<< >>) = 0
  BY <1>1, EmptySeq DEF RcvInit
<1>3. c \in Cb
  BY CbInitGood
<1> HIDE DEF c
<1>4. Arrived(c) = 0 /\ Cuts(c) = {} /\ Written(c) = 0
  <2>1. Cuts(c) = {}
    BY <1>1 DEF Cuts
  <2>2. Written(c) = 0
    BY <1>1 DEF Written, Greatest
  <2>3. Arrived(c) = 0
    BY <1>2 DEF Arrived
  <2> QED BY <2>1, <2>2, <2>3
<1>5. /\ S.seq = 0 /\ S.told = FALSE /\ S.cuts = {}
      /\ K.n = 0 /\ K.nxt = 0 /\ K.reasm = {} /\ K.fin = "none"
  BY <1>1, <1>2, <1>4 DEF Source, Sink
<1> HIDE DEF S, K
<1>6. Flow(S, K)
  BY <1>5 DEF Flow
<1>7. Stage(c)
  <2>1. Whole(c)
    BY <1>4 DEF Whole
  <2> QED BY <1>1, <1>2, <1>4, <2>1 DEF Stage, NoOps, Opening
<1>8. Ordered(c)
  <2>1. << >> \o << >> = << >> /\ Bytes(1, 0) = << >>
    BY DEF Bytes
  <2> QED BY <1>2, <1>4, <2>1 DEF Ordered
<1>9. Ended(c, S, K) /\ Says(c, S)
  BY <1>1, <1>2 DEF Ended, Says
<1>10. Data(c, S, K)
  BY <1>6, <1>7, <1>8, <1>9 DEF Data, S, K
<1>11. AtRest(c)
  BY <1>1, <1>2, <1>4 DEF AtRest, Tidy, Level, Settled, Doomed, Fatal, Pristine, Handshaking
<1>12. EndData(c, c, {}, 0, 0) /\ c.st \notin FinWait
  BY <1>1, <1>10, <1>11 DEF EndData, FinWait, S, K
<1>13. \A e \in Ends : ep[e] = c /\ ep[Peer(e)] = c /\ net[e] = {}
  BY PeerFacts DEF Init, c
<1>14. \A e \in Ends : EndData(ep[e], ep[Peer(e)], net[e], app[e].sent, Len(SendPlan[e]))
  BY <1>12, <1>13 DEF EndData
<1>15. StreamInv
  BY <1>14, InitConnInv DEF StreamInv
<1>16. Stream!Init
  <2>1. \A e \in Ends : /\ Written(ep[e]) = 0 /\ ep[e].told = FALSE /\ Arrived(ep[e]) = 0
                        /\ ep[e].r.got = << >> /\ ep[e].err = "none"
    BY <1>1, <1>2, <1>4, <1>13
  <2> QED BY <2>1 DEF Stream!Init
<1> QED BY <1>15, <1>16

\* Every datagram, timer and call keeps the streams, and is a step of UdtStream
\* or leaves what the two applications see alone.
LEMMA NextStreams ==
  StreamInv /\ [Next]_vars =>
    /\ StreamInv'
    /\ Stream!Next \/ ep' = ep
<1> SUFFICES ASSUME StreamInv, [Next]_vars
             PROVE  /\ StreamInv'
                    /\ Stream!Next \/ ep' = ep
  OBVIOUS
<1>1. ConnInv'
  BY NextConnInv DEF StreamInv
<1>2. CASE UNCHANGED vars
  BY <1>1, <1>2 DEF StreamInv, vars
<1>3. CASE Next
  <2>1. PICK e \in Ends :
          \/ \E p \in net[e] : Deliver(e, p) \/ Repeat(e, p) \/ Lose(e, p)
          \/ Rexmt(e) \/ Persist(e) \/ Keep(e) \/ Msl(e) \/ Fast(e) \/ Delay(e)
          \/ Open(e) \/ Send(e) \/ Receive(e) \/ Shutdown(e)
    BY <1>3 DEF Next
  <2>2. CASE \E p \in net[e] : Lose(e, p)
    BY <1>1, <2>2, LoseStreams
  <2>3. CASE ~\E p \in net[e] : Lose(e, p)
    <3>1. StreamInv' /\ Stream!Step(e)
      BY <1>1, <2>1, <2>3, DeliverStreams, TimersStream, CallsStream
    <3> QED BY <3>1 DEF Stream!Next
  <2> QED BY <2>2, <2>3
<1> QED BY <1>2, <1>3

\* The inductive invariant of both streams holds whatever the network loses,
\* repeats and reorders, and whatever timers expire.
THEOREM StreamInvariant == Spec => []StreamInv
BY InitStreams, NextStreams, PTL DEF Spec

\* drop_acked_data and handle_option_sack: no byte leaves the send buffer before
\* the peer has accepted it or keeps it for reassembly.
THEOREM ConnNoDataLost == Spec => []NoDataLost
<1>1. StreamInv => NoDataLost
  <2> SUFFICES ASSUME StreamInv, NEW e \in Ends, NEW b \in 1 .. Written(ep[e])
               PROVE  \/ \E p \in ep[e].sb : Holds(p, b)
                      \/ b <= Arrived(ep[Peer(e)])
                      \/ \E p \in ep[Peer(e)].r.reasm : Holds(p, b)
    BY DEF NoDataLost
  <2> DEFINE c == ep[e]
             d == ep[Peer(e)]
  <2>1. c \in Cb /\ d \in Cb /\ Flow(Source(c), Sink(d))
    BY StreamEnds DEF Data
  <2>2. b \in 1 .. Written(c)
    OBVIOUS
  <2> HIDE DEF c, d
  <2>3. /\ Source(c).seq = c.sbseq /\ c.sbseq \in Nat /\ Source(c).cuts = Cuts(c)
        /\ Sink(d).n = Arrived(d) /\ Sink(d).reasm = d.r.reasm
    BY <2>1, PartTypes DEF Cb
  <2>4. b \in 1 .. c.sbseq - 1
    BY <2>2, <2>3 DEF Written, Greatest
  <2>5. Held(Cuts(c), b) \/ b <= Arrived(d) \/ Held(d.r.reasm, b)
    BY <2>1, <2>3, <2>4 DEF Flow, HasByte
  <2>6. Held(Cuts(c), b) => \E p \in c.sb : Holds(p, b)
    BY DEF Held, Cuts, Holds
  <2> QED BY <2>5, <2>6 DEF Held, c, d
<1> QED BY <1>1, StreamInvariant, PTL

\* output, compose and handle_fin: no acknowledgement and no SACK block on its way
\* names a byte its sender does not have, whatever is lost, repeated or late.
THEOREM ConnAcksTruthful == Spec => []AcksTruthful
<1>1. StreamInv => AcksTruthful
  <2> SUFFICES ASSUME StreamInv, NEW e \in Ends, NEW m \in net[e], "ACK" \in m.flags
               PROVE  LET peer == ep[Peer(e)]
                      IN  /\ m.ack <= Arrived(peer) + 1
                             \/ (ep[e].told /\ Arrived(peer) = Written(ep[e]))
                          /\ \A b \in m.sack : \A x \in b[1] .. b[2] - 1 :
                               x <= Arrived(peer) \/ \E p \in peer.r.reasm : Holds(p, x)
    BY DEF AcksTruthful
  <2> DEFINE c == ep[e]
             d == ep[Peer(e)]
  <2>1. c \in Cb /\ d \in Cb /\ Carries(m, Source(d), Sink(d), Source(c))
    BY StreamEnds
  <2> HIDE DEF c, d
  <2>2. /\ Source(c).seq = c.sbseq /\ Source(c).told = c.told /\ c.sbseq \in Nat
        /\ Sink(d).n = Arrived(d) /\ Arrived(d) \in Nat /\ Sink(d).reasm = d.r.reasm
    BY <2>1, PartTypes DEF Cb
  <2>3. m.ack <= Arrived(d) + 1 \/ (c.told /\ Arrived(d) = Written(c))
    <3>1. m.ack <= Arrived(d) + 1 \/ Full(Source(c), Sink(d))
      BY <2>1, <2>2 DEF Carries
    <3> QED BY <2>2, <3>1 DEF Full, Written, Greatest
  <2>4. \A b \in m.sack : \A x \in b[1] .. b[2] - 1 :
          x <= Arrived(d) \/ \E p \in d.r.reasm : Holds(p, x)
    BY <2>1, <2>2 DEF Carries, HasByte, Held
  <2> QED BY <2>3, <2>4 DEF c, d
<1> QED BY <1>1, StreamInvariant, PTL

\* get_snd_pkt: a packet of the send buffer is new or has been sent whole, so a
\* retransmission or a probe never sends a part of one.
THEOREM ConnSentWhole == Spec => []SentWhole
<1>1. StreamInv => SentWhole
  <2> SUFFICES ASSUME StreamInv, NEW e \in Ends, NEW p \in ep[e].sb
               PROVE  /\ p.seq # 0
                      /\ p.seq < ep[e].max => p.seq + p.len <= ep[e].max
    BY DEF SentWhole
  <2> DEFINE c == ep[e]
             K == Sink(ep[Peer(e)])
             s == [seq |-> p.seq, len |-> p.len]
  <2>1. c \in Cb /\ Flow(Source(c), K) /\ Stage(c)
    BY StreamEnds DEF Data
  <2>2. s \in Cuts(c) /\ s.seq = p.seq /\ s.len = p.len
    BY DEF Cuts
  <2> HIDE DEF c, K, s
  <2>3. Source(c).cuts = Cuts(c)
    BY <2>1, PartTypes
  <2>4. s.seq >= 1
    BY <2>1, <2>2, <2>3 DEF Flow, Aligned
  <2>5. s.seq < c.max => s.seq + s.len <= c.max
    BY <2>1, <2>2 DEF Stage, Whole
  <2> QED BY <2>2, <2>4, <2>5 DEF c
<1> QED BY <1>1, StreamInvariant, PTL

\* update_ack_state: in FIN_WAIT_2 and TIME_WAIT the peer has counted the FIN and
\* has every byte before it, however late or often the FIN was sent.
THEOREM ConnFinAgreement == Spec => []FinAgreement
<1>1. StreamInv => FinAgreement
  <2> SUFFICES ASSUME StreamInv, NEW e \in Ends, ep[e].st \in {"FIN_WAIT_2", "TIME_WAIT"}
               PROVE  /\ ep[Peer(e)].r.nxt >= ep[e].max
                      /\ Arrived(ep[Peer(e)]) = Written(ep[e])
    BY DEF FinAgreement
  <2> DEFINE c == ep[e]
             d == ep[Peer(e)]
  <2>1. c \in Cb /\ d \in Cb /\ Ended(c, Source(d), Sink(d)) /\ c.st \in {"FIN_WAIT_2", "TIME_WAIT"}
    BY StreamEnds DEF Data
  <2> HIDE DEF c, d
  <2>2. /\ Source(c).seq = c.sbseq /\ c.sbseq \in Nat /\ Sink(d).n = Arrived(d)
        /\ Arrived(d) \in Nat /\ Sink(d).nxt = d.r.nxt
    BY <2>1, PartTypes DEF Cb
  <2>3. d.r.nxt >= c.max /\ Arrived(d) + 1 = c.sbseq
    BY <2>1, <2>2 DEF Ended, Full
  <2>4. Arrived(d) = Written(c)
    BY <2>2, <2>3 DEF Written, Greatest
  <2> QED BY <2>3, <2>4 DEF c, d
<1> QED BY <1>1, StreamInvariant, PTL

\* The two sockets implement the two streams of UdtStream: every byte the peer
\* has committed arrives once, in order and without a hole, the end of the stream
\* is reported only behind the last of them, and after an error nothing moves.
THEOREM ConnStreamSafe == Spec => StreamSpec
<1> DEFINE view == <<[e \in Ends |-> Written(ep[e])],
                     [e \in Ends |-> ep[e].told],
                     [e \in Ends |-> Arrived(ep[e])],
                     [e \in Ends |-> ep[e].r.got],
                     [e \in Ends |-> IF ep[e].err = "none" THEN "open"
                                     ELSE IF ep[e].err = "eof" THEN "eof" ELSE "failed"]>>
<1>1. Init => Stream!Init
  BY InitStreams
<1>2. StreamInv /\ [Next]_vars => [Stream!Next]_view
  <2> SUFFICES ASSUME StreamInv, [Next]_vars, ~Stream!Next
               PROVE  view' = view
    OBVIOUS
  <2>1. ep' = ep
    BY NextStreams
  <2> QED BY <2>1
<1> QED BY <1>1, <1>2, StreamInvariant, PTL DEF Spec, StreamSpec, Stream!Spec

=============================================================================
