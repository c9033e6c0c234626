--------------------------- MODULE UdtFlowProofs ---------------------------
(***************************************************************************)
(* Proofs about one direction of the data of UdtConn: what the send buffer *)
(* of one end, the datagrams and the receive half of the other hold        *)
(* together is the whole stream, and what output() and the ends that every *)
(* handler shares do to the two streams of an end.                         *)
(***************************************************************************)
EXTENDS UdtConnProofs

----------------------------------------------------------------------------
(* One direction: a source sends a stream, a sink receives it. *)

\* A packet of the send buffer without its mark; what the sender has of its
\* stream; what the receiver has of it.
Slices == [seq : Nat, len : 1 .. MaxSeg]
Sources == [seq : Nat, told : BOOLEAN, cuts : SUBSET Slices]
Sinks == [n : Nat, nxt : Nat, reasm : SUBSET Packet, fin : {"none", "bare", "data"}]
Cuts(c) == {[seq |-> p.seq, len |-> p.len] : p \in c.sb}
Source(c) == [seq |-> c.sbseq, told |-> c.told, cuts |-> Cuts(c)]
Sink(c) == [n |-> Arrived(c), nxt |-> c.r.nxt, reasm |-> c.r.reasm, fin |-> c.r.fin]

\* A byte is in a packet of R; the sink has the byte; it has the whole stream.
Held(R, b) == \E h \in R : Holds(h, b)
HasByte(K, b) == b <= K.n \/ Held(K.reasm, b)
Full(S, K) == S.told /\ K.n + 1 = S.seq

\* Packets never share some of their bytes: they are cut once.
Apart(p, o) ==
  p.seq + p.len <= o.seq \/ o.seq + o.len <= p.seq \/ (p.seq = o.seq /\ p.len = o.len)
Aligned(S, m) == m.seq >= 1 /\ m.seq + m.len <= S.seq /\ \A p \in S.cuts : Apart(p, m)
PieceOf(S, h) ==
  (h.len > 0 => Aligned(S, h)) /\ (h.fin => S.told /\ h.seq + h.len = S.seq)

\* Every byte is in the send buffer or has reached the sink, which ends at the
\* end of a packet and counts the FIN only behind the last byte.
Flow(S, K) ==
  /\ S.told => S.seq >= 1
  /\ \A p \in S.cuts : Aligned(S, p)
  /\ \A b \in 1 .. S.seq - 1 : Held(S.cuts, b) \/ HasByte(K, b)
  /\ \A p \in S.cuts : p.seq <= K.n => p.seq + p.len <= K.n + 1
  /\ \A h \in K.reasm : PieceOf(S, h)
  /\ K.n = 0 \/ K.n < S.seq
  /\ K.nxt = 0 => K.n = 0
  /\ K.nxt >= 1 => K.nxt = K.n + 1 \/ (Full(S, K) /\ K.nxt > K.n + 1)
  /\ K.fin # "none" => Full(S, K)

\* A datagram from the end that sends S and receives in K; T is the stream it
\* receives.
Carries(m, S, K, T) ==
  /\ m.len > 0 \/ "FIN" \in m.flags =>
       "SYN" \notin m.flags /\ "RST" \notin m.flags /\ "ACK" \in m.flags
  /\ m.len > 0 => Aligned(S, m)
  /\ "FIN" \in m.flags => S.told /\ m.seq + m.len = S.seq
  /\ "ACK" \in m.flags => m.ack <= K.nxt /\ (m.ack <= K.n + 1 \/ Full(T, K))
  /\ \A b \in m.sack : \A x \in b[1] .. b[2] - 1 : HasByte(K, x)

\* What the other end sees of a handler: a stream grows until it is told to be
\* finished, and what a sink has it keeps.
SrcGrows(S, T) ==
  /\ S.seq <= T.seq /\ (S.told => T.told /\ T.seq = S.seq)
  /\ \A p \in T.cuts : p \in S.cuts \/ p.seq >= S.seq
SnkGrows(K, L) ==
  K.n <= L.n /\ K.nxt <= L.nxt /\ \A b \in Nat : HasByte(K, b) => HasByte(L, b)

\* The parts have their types.
LEMMA PartTypes ==
  ASSUME NEW c \in Cb
  PROVE  /\ Source(c) \in Sources /\ Sink(c) \in Sinks /\ Arrived(c) \in Nat
         /\ Source(c).seq = c.sbseq /\ Source(c).told = c.told /\ Source(c).cuts = Cuts(c)
         /\ Sink(c).n = Arrived(c) /\ Sink(c).nxt = c.r.nxt /\ Sink(c).reasm = c.r.reasm
         /\ Sink(c).fin = c.r.fin
<1>1. c.sbseq \in Nat /\ c.told \in BOOLEAN /\ c.sb \in SUBSET Pkt /\ c.r \in Half
  BY DEF Cb
<1>2. Cuts(c) \in SUBSET Slices
  <2>1. \A p \in c.sb : p.seq \in Nat /\ p.len \in 1 .. MaxSeg
    BY <1>1 DEF Pkt
  <2>2. ASSUME NEW s \in Cuts(c)
        PROVE  s \in Slices
    <3>1. PICK p \in c.sb : s = [seq |-> p.seq, len |-> p.len]
      BY <2>2 DEF Cuts
    <3>2. p.seq \in Nat /\ p.len \in 1 .. MaxSeg
      BY <2>1, <3>1
    <3> QED BY <3>1, <3>2 DEF Slices
  <2> QED BY <2>2
<1>3. /\ c.r.nxt \in Nat /\ c.r.reasm \in SUBSET Packet /\ c.r.fin \in {"none", "bare", "data"}
      /\ c.r.got \in Seq(Nat) /\ c.r.q \in Seq(Nat)
  BY <1>1 DEF Half
<1>4. Arrived(c) \in Nat
  <2>1. Len(c.r.got) \in Nat /\ Len(c.r.q) \in Nat
    BY <1>3, LenProperties
  <2>2. \A i, j \in Nat : i + j \in Nat
    OBVIOUS
  <2> QED BY ONLY <2>1, <2>2 DEF Arrived
<1>5. Source(c) \in Sources
  BY <1>1, <1>2 DEF Source, Sources
<1>6. Sink(c) \in Sinks
  BY <1>3, <1>4 DEF Sink, Sinks
<1> QED BY <1>4, <1>5, <1>6 DEF Source, Sink

\* A byte of a sink is still there when the sink has grown.
LEMMA HasByteGrows ==
  ASSUME NEW K \in Sinks, NEW L \in Sinks, K.n <= L.n,
         \A b \in Nat : Held(K.reasm, b) => HasByte(L, b)
  PROVE  \A b \in Nat : HasByte(K, b) => HasByte(L, b)
BY DEF HasByte, Sinks

\* A full sink stays full: nothing is sent after the end of the stream.
LEMMA FullGrows ==
  ASSUME NEW S \in Sources, NEW T \in Sources, NEW K \in Sinks, NEW L \in Sinks,
         SrcGrows(S, T), SnkGrows(K, L), Flow(S, K), Flow(T, L), Full(S, K)
  PROVE  Full(T, L) /\ L.n = K.n
<1>1. S.told /\ K.n + 1 = S.seq /\ T.told /\ T.seq = S.seq /\ K.n <= L.n
  BY DEF Full, SrcGrows, SnkGrows
<1>2. L.n = 0 \/ L.n < T.seq
  BY DEF Flow
<1>3. K.n \in Nat /\ L.n \in Nat /\ S.seq \in Nat
  BY DEF Sinks, Sources
<1> QED BY <1>1, <1>2, <1>3 DEF Full

\* A packet that was cut once stays apart from what is cut later.
LEMMA AlignedGrows ==
  ASSUME NEW S \in Sources, NEW T \in Sources, SrcGrows(S, T), NEW m, m.seq \in Int, m.len \in Nat,
         Aligned(S, m)
  PROVE  Aligned(T, m)
<1>1. m.seq >= 1 /\ m.seq + m.len <= S.seq /\ S.seq <= T.seq /\ S.seq \in Nat /\ T.seq \in Nat
  BY DEF Aligned, SrcGrows, Sources
<1>2. ASSUME NEW p \in T.cuts
      PROVE  Apart(p, m)
  <2>1. CASE p \in S.cuts
    BY <2>1 DEF Aligned
  <2>2. CASE p.seq >= S.seq
    <3>1. p.seq \in Nat
      BY <1>2 DEF Sources, Slices
    <3> QED BY <1>1, <2>2, <3>1 DEF Apart
  <2> QED BY <1>2, <2>1, <2>2 DEF SrcGrows
<1> QED BY <1>1, <1>2 DEF Aligned

\* A datagram in flight stays true while both ends go on.
LEMMA CarriesGrows ==
  ASSUME NEW m \in Datagram, NEW S \in Sources, NEW U \in Sources, NEW T \in Sources,
         NEW V \in Sources, NEW K \in Sinks, NEW L \in Sinks,
         Carries(m, S, K, T), SrcGrows(S, U), SrcGrows(T, V), SnkGrows(K, L),
         Flow(T, K), Flow(V, L)
  PROVE  Carries(m, U, L, V)
<1>1. m.seq \in Int /\ m.len \in Nat /\ m.ack \in Nat /\ m.sack \in SUBSET (Nat \X Nat)
  BY DEF Datagram
<1>2. m.len > 0 => Aligned(U, m)
  BY <1>1, AlignedGrows DEF Carries
<1>3. "FIN" \in m.flags => U.told /\ m.seq + m.len = U.seq
  BY DEF Carries, SrcGrows
<1>4. "ACK" \in m.flags => m.ack <= L.nxt /\ (m.ack <= L.n + 1 \/ Full(V, L))
  <2>1. K.n <= L.n /\ K.nxt <= L.nxt /\ K.n \in Nat /\ L.n \in Nat /\ K.nxt \in Nat /\ L.nxt \in Nat
    BY DEF SnkGrows, Sinks
  <2>2. Full(T, K) => Full(V, L)
    BY FullGrows
  <2> QED BY <1>1, <2>1, <2>2 DEF Carries
<1>5. \A b \in m.sack : \A x \in b[1] .. b[2] - 1 : HasByte(L, x)
  <2> TAKE b \in m.sack
  <2> TAKE x \in b[1] .. b[2] - 1
  <2>1. x \in Nat
    BY <1>1
  <2>2. HasByte(K, x)
    BY DEF Carries
  <2> QED BY <2>1, <2>2 DEF SnkGrows
<1>6. m.len > 0 \/ "FIN" \in m.flags =>
        "SYN" \notin m.flags /\ "RST" \notin m.flags /\ "ACK" \in m.flags
  BY DEF Carries
<1> QED BY <1>2, <1>3, <1>4, <1>5, <1>6 DEF Carries

\* Growing is transitive and reflexive.
LEMMA GrowsTrans ==
  ASSUME NEW S \in Sources, NEW T \in Sources, NEW U \in Sources,
         NEW K \in Sinks, NEW L \in Sinks, NEW M \in Sinks
  PROVE  /\ SrcGrows(S, T) /\ SrcGrows(T, U) => SrcGrows(S, U)
         /\ SnkGrows(K, L) /\ SnkGrows(L, M) => SnkGrows(K, M)
         /\ SrcGrows(S, S) /\ SnkGrows(K, K)
<1>1. ASSUME SrcGrows(S, T), SrcGrows(T, U)
      PROVE  SrcGrows(S, U)
  <2>1. S.seq <= T.seq /\ T.seq <= U.seq /\ S.seq \in Nat /\ T.seq \in Nat /\ U.seq \in Nat
    BY <1>1 DEF SrcGrows, Sources
  <2>2. ASSUME NEW p \in U.cuts
        PROVE  p \in S.cuts \/ p.seq >= S.seq
    <3>1. p.seq \in Nat
      BY <2>2 DEF Sources, Slices
    <3> QED BY <1>1, <2>1, <2>2, <3>1 DEF SrcGrows
  <2>3. S.told => U.told /\ U.seq = S.seq
    BY <1>1 DEF SrcGrows
  <2> QED BY <2>1, <2>2, <2>3 DEF SrcGrows
<1>2. ASSUME SnkGrows(K, L), SnkGrows(L, M)
      PROVE  SnkGrows(K, M)
  BY <1>2 DEF SnkGrows, Sinks
<1>3. SrcGrows(S, S) /\ SnkGrows(K, K)
  BY DEF SrcGrows, SnkGrows, Sources, Sinks
<1> QED BY <1>1, <1>2, <1>3

----------------------------------------------------------------------------
(* One end: c sends Source(c) to a peer that has K of it, and receives T. *)

Ending == {"FIN_WAIT_1", "CLOSING", "LAST_ACK", "FIN_WAIT_2", "TIME_WAIT", "CLOSED"}

\* The packets that have been sent have been sent whole.
Whole(c) == \A p \in Cuts(c) : p.seq < c.max => p.seq + p.len <= c.max

\* The stream starts when the connection is established and is told to be
\* finished after async_shutdown, when no send is queued any more.
Stage(c) ==
  /\ Whole(c)
  /\ \/ c.st \in {"LISTEN", "SYN_SENT", "SYN_RECEIVED"}
     \/ c.st = "CLOSED" /\ c.err = "none"
     => c.sbseq = 0
  /\ c.sbseq = 0 => /\ Cuts(c) = {} /\ c.ops = << >> /\ ~c.told /\ ~c.up
                    /\ c.st \in Opening /\ "SENTFIN" \notin c.flags
  /\ c.sbseq >= 1 => c.max <= c.sbseq + (IF "SENTFIN" \in c.flags THEN 1 ELSE 0)
  /\ "SENTFIN" \in c.flags => c.told /\ c.max = c.sbseq + 1
  /\ c.told => c.st \in Ending
  /\ c.told \/ c.st = "CLOSED" => NoOps(c)

\* The application gets the bytes in order; it is told eof behind the last
\* one; FIN_WAIT_2 and TIME_WAIT are left to a peer that has counted the FIN.
Ordered(c) == c.r.got \o c.r.q = Bytes(1, Arrived(c))
Ended(c, T, K) ==
  /\ c.err = "eof" => Full(T, Sink(c))
  /\ c.st \in {"FIN_WAIT_2", "TIME_WAIT"} =>
       "SENTFIN" \in c.flags /\ Full(Source(c), K) /\ K.nxt >= c.max
Says(c, T) == \A i \in 1 .. Len(c.out) : Carries(c.out[i], Source(c), Sink(c), T)
Data(c, T, K) ==
  /\ Flow(Source(c), K) /\ Flow(T, Sink(c))
  /\ Stage(c) /\ Ordered(c) /\ Ended(c, T, K) /\ Says(c, T)

\* What a handler that finds c and leaves d may have done to the streams; an
\* error is final, and a connection that has been dropped does nothing.
Fatal(c) == c.err \notin {"none", "eof"}
Dead(c) == c.st = "CLOSED" /\ c.err # "none"
Adds(c, d) ==
  /\ SrcGrows(Source(c), Source(d)) /\ SnkGrows(Sink(c), Sink(d))
  /\ Len(c.r.got) <= Len(d.r.got)
  /\ (c.err # "none" => d.err # "none") /\ (Fatal(c) => Fatal(d))
  /\ Dead(c) => d.st = "CLOSED" /\ d.sbseq = c.sbseq /\ d.told = c.told /\ Arrived(d) = Arrived(c)

\* Most operators leave the state, the error and what has arrived alone.
Calm(c, d) ==
  /\ d.st = c.st /\ d.err = c.err /\ d.up = c.up
  /\ "NOTIFY_DROP" \in d.flags <=> "NOTIFY_DROP" \in c.flags
  /\ Arrived(d) = Arrived(c) /\ d.r.nxt = c.r.nxt /\ d.r.reasm = c.r.reasm
  /\ d.r.fin \in {c.r.fin, "none"}
Moves(c, d, T, K) == d \in Cb /\ Data(d, T, K) /\ Adds(c, d)
Glides(c, d, T, K) == Moves(c, d, T, K) /\ Calm(c, d)

\* The fields the streams depend on, without the packets of the send buffer.
Alike(c, d) ==
  /\ d.st = c.st /\ d.err = c.err /\ d.max = c.max /\ d.up = c.up /\ d.ops = c.ops
  /\ d.sbseq = c.sbseq /\ d.told = c.told /\ d.out = c.out
  /\ d.r.got = c.r.got /\ d.r.q = c.r.q /\ d.r.nxt = c.r.nxt /\ d.r.reasm = c.r.reasm
  /\ d.r.fin = c.r.fin
  /\ "SENTFIN" \in d.flags <=> "SENTFIN" \in c.flags
  /\ "NOTIFY_DROP" \in d.flags <=> "NOTIFY_DROP" \in c.flags

\* One change of the streams after another is a change of the streams.
LEMMA AddsTrans ==
  ASSUME NEW c \in Cb, NEW d \in Cb, NEW e \in Cb
  PROVE  /\ Adds(c, d) /\ Adds(d, e) => Adds(c, e)
         /\ Calm(c, d) /\ Calm(d, e) => Calm(c, e)
         /\ Adds(c, c) /\ Calm(c, c)
<1>1. /\ Source(c) \in Sources /\ Source(d) \in Sources /\ Source(e) \in Sources
      /\ Sink(c) \in Sinks /\ Sink(d) \in Sinks /\ Sink(e) \in Sinks
  BY PartTypes
<1>2. Len(c.r.got) \in Nat /\ Len(d.r.got) \in Nat /\ Len(e.r.got) \in Nat
  BY LenProperties DEF Cb, Half
<1>3. ASSUME Adds(c, d), Adds(d, e)
      PROVE  Adds(c, e)
  <2>1. SrcGrows(Source(c), Source(e)) /\ SnkGrows(Sink(c), Sink(e))
    BY <1>1, <1>3, GrowsTrans DEF Adds
  <2>2. Len(c.r.got) <= Len(e.r.got)
    BY <1>2, <1>3 DEF Adds
  <2>3. (c.err # "none" => e.err # "none") /\ (Fatal(c) => Fatal(e))
    BY <1>3 DEF Adds
  <2>4. Dead(c) => e.st = "CLOSED" /\ e.sbseq = c.sbseq /\ e.told = c.told /\ Arrived(e) = Arrived(c)
    BY <1>3 DEF Adds, Dead
  <2> QED BY <2>1, <2>2, <2>3, <2>4 DEF Adds
<1>4. Calm(c, d) /\ Calm(d, e) => Calm(c, e)
  BY DEF Calm
<1>5. Adds(c, c) /\ Calm(c, c)
  <2>1. SrcGrows(Source(c), Source(c)) /\ SnkGrows(Sink(c), Sink(c))
    BY <1>1, GrowsTrans
  <2>2. Len(c.r.got) <= Len(c.r.got)
    BY <1>2
  <2> QED BY <2>1, <2>2 DEF Adds, Calm, Dead
<1> QED BY <1>3, <1>4, <1>5

\* A step that leaves what has arrived alone adds at most to the source.
LEMMA CalmAdds ==
  ASSUME NEW c \in Cb, NEW d \in Cb, Calm(c, d), SrcGrows(Source(c), Source(d)),
         Len(c.r.got) <= Len(d.r.got), Dead(c) => d.sbseq = c.sbseq /\ d.told = c.told
  PROVE  Adds(c, d)
<1>1. /\ Sink(c) \in Sinks /\ Sink(d) \in Sinks /\ Sink(c).n = Sink(d).n
      /\ Sink(c).nxt = Sink(d).nxt /\ Sink(c).reasm = Sink(d).reasm
  BY PartTypes DEF Calm
<1>2. SnkGrows(Sink(c), Sink(d))
  BY <1>1 DEF SnkGrows, HasByte, Sinks
<1> QED BY <1>2 DEF Adds, Calm, Fatal, Dead

\* A packet may leave the send buffer when the peer has all of it.
LEMMA TrimFlow ==
  ASSUME NEW S \in Sources, NEW U \in Sources, NEW K \in Sinks, Flow(S, K),
         U.seq = S.seq, U.told = S.told, U.cuts \subseteq S.cuts,
         \A p \in S.cuts \ U.cuts : \A b \in Nat : Holds(p, b) => HasByte(K, b)
  PROVE  Flow(U, K) /\ SrcGrows(S, U) /\ \A m : Aligned(S, m) => Aligned(U, m)
<1>1. \A m : Aligned(S, m) => Aligned(U, m)
  BY DEF Aligned
<1>2. SrcGrows(S, U)
  BY DEF SrcGrows, Sources
<1>3. \A b \in 1 .. U.seq - 1 : Held(U.cuts, b) \/ HasByte(K, b)
  <2> TAKE b \in 1 .. U.seq - 1
  <2>1. b \in Nat /\ b \in 1 .. S.seq - 1
    BY DEF Sources
  <2>2. CASE Held(S.cuts, b)
    BY <2>1, <2>2 DEF Held
  <2> QED BY <2>1, <2>2 DEF Flow
<1>4. \A h \in K.reasm : PieceOf(U, h)
  BY <1>1 DEF Flow, PieceOf
<1>5. /\ U.told => U.seq >= 1
      /\ K.n = 0 \/ K.n < U.seq
      /\ K.nxt = 0 => K.n = 0
      /\ K.nxt >= 1 => K.nxt = K.n + 1 \/ (Full(U, K) /\ K.nxt > K.n + 1)
      /\ K.fin # "none" => Full(U, K)
  BY DEF Flow, Full
<1>6. \A p \in U.cuts : Aligned(U, p) /\ (p.seq <= K.n => p.seq + p.len <= K.n + 1)
  BY <1>1 DEF Flow
<1> QED BY <1>1, <1>2, <1>3, <1>4, <1>5, <1>6 DEF Flow

\* drop_acked_data and handle_option_sack: the bytes of the packets that leave
\* the send buffer are with the peer.
LEMMA TrimMoves ==
  ASSUME NEW T \in Sources, NEW K \in Sinks, NEW c \in Cb, NEW d \in Cb, Data(c, T, K),
         Alike(c, d), Cuts(d) \subseteq Cuts(c),
         \A p \in Cuts(c) \ Cuts(d) : \A b \in Nat : Holds(p, b) => HasByte(K, b)
  PROVE  Glides(c, d, T, K)
<1>1. /\ Source(c) \in Sources /\ Source(d) \in Sources /\ Sink(c) \in Sinks
      /\ Source(d).seq = Source(c).seq /\ Source(d).told = Source(c).told
      /\ Source(d).cuts \subseteq Source(c).cuts
      /\ Source(d).cuts = Cuts(d) /\ Source(c).cuts = Cuts(c)
  BY PartTypes DEF Alike
<1>2. /\ Flow(Source(d), K) /\ SrcGrows(Source(c), Source(d))
      /\ \A m : Aligned(Source(c), m) => Aligned(Source(d), m)
  BY <1>1, TrimFlow DEF Data
<1>3. Arrived(d) = Arrived(c) /\ Sink(d) = Sink(c)
  BY DEF Alike, Arrived, Sink
<1>4. Flow(T, Sink(d)) /\ Ordered(d)
  BY <1>3 DEF Data, Ordered, Alike
<1>5. Stage(d)
  <2>1. Cuts(c) = {} => Cuts(d) = {}
    OBVIOUS
  <2>2. NoOps(c) <=> NoOps(d)
    BY DEF NoOps, Alike
  <2>3. Whole(d)
    BY DEF Data, Stage, Whole, Alike
  <2> QED BY <2>1, <2>2, <2>3 DEF Data, Stage, Alike
<1>6. Ended(d, T, K)
  BY <1>1, <1>3 DEF Data, Ended, Alike, Full
<1>7. Says(d, T)
  BY <1>1, <1>2, <1>3 DEF Data, Says, Carries, Alike
<1>8. Calm(c, d)
  BY <1>3 DEF Calm, Alike
<1>9. Len(c.r.got) <= Len(d.r.got)
  <2>1. Len(c.r.got) \in Nat
    BY LenProperties DEF Cb, Half
  <2> QED BY <2>1 DEF Alike
<1>10. Adds(c, d)
  BY <1>2, <1>8, <1>9, CalmAdds DEF Alike
<1> QED BY <1>2, <1>4, <1>5, <1>6, <1>7, <1>8, <1>10 DEF Glides, Moves, Data

\* What leaves all those fields and the packets alone leaves the streams alone.
LEMMA AlikeGlides ==
  ASSUME NEW T \in Sources, NEW K \in Sinks, NEW c \in Cb, NEW d \in Cb, Data(c, T, K),
         Alike(c, d), Cuts(d) = Cuts(c)
  PROVE  Glides(c, d, T, K)
BY TrimMoves

\* What leaves the whole end as it was leaves the streams alone.
LEMMA SameGlides ==
  ASSUME NEW T \in Sources, NEW K \in Sinks, NEW c \in Cb, NEW d \in Cb, Data(c, T, K), Same(c, d)
  PROVE  Glides(c, d, T, K)
<1>1. Alike(c, d) /\ d.sb = c.sb
  BY DEF Same, Alike
<1>2. Cuts(d) = Cuts(c)
  BY <1>1 DEF Cuts
<1> QED BY <1>1, <1>2, AlikeGlides

\* Steps follow one another.
LEMMA GlidesTrans ==
  ASSUME NEW T \in Sources, NEW K \in Sinks, NEW c \in Cb, NEW d \in Cb, NEW e
  PROVE  /\ Moves(c, d, T, K) /\ Moves(d, e, T, K) => Moves(c, e, T, K)
         /\ Glides(c, d, T, K) /\ Glides(d, e, T, K) => Glides(c, e, T, K)
         /\ Data(c, T, K) => Glides(c, c, T, K)
BY AddsTrans DEF Moves, Glides

----------------------------------------------------------------------------
(* Reading, and queueing of data. *)

\* A read moves bytes from the receive buffer to the application.
LEMMA CopyBytes ==
  ASSUME NEW r \in Half, NEW n \in Nat
  PROVE  LET d == Copy(r, n)
         IN  /\ d.got \o d.q = r.got \o r.q /\ Len(r.got) <= Len(d.got)
             /\ Len(d.got) + Len(d.q) = Len(r.got) + Len(r.q)
             /\ d.nxt = r.nxt /\ d.reasm = r.reasm /\ d.fin \in {r.fin, "none"}
<1> DEFINE k == Least(n, Len(r.q))
           a == SubSeq(r.q, 1, k)
           b == SubSeq(r.q, k + 1, Len(r.q))
           d == Copy(r, n)
<1>1. r.q \in Seq(Nat) /\ r.got \in Seq(Nat) /\ Len(r.q) \in Nat /\ Len(r.got) \in Nat
  BY LenProperties DEF Half
<1>2. k \in 0 .. Len(r.q)
  BY <1>1 DEF Least
<1>3. d.q = b /\ d.got = r.got \o a /\ d.nxt = r.nxt /\ d.reasm = r.reasm /\ d.fin \in {r.fin, "none"}
  BY DEF Copy, Half
<1> HIDE DEF k, d
<1>4. /\ a \in Seq(Nat) /\ b \in Seq(Nat) /\ Len(b) = Len(r.q) - k
      /\ (r.got \o a) \o b = r.got \o r.q
  BY <1>1, <1>2, MovePrefix
<1> HIDE DEF a, b
<1> DEFINE x == r.got \o a
<1>5. x \in Seq(Nat) /\ Len(x) = Len(r.got) + Len(a) /\ Len(a) \in Nat /\ Len(b) \in Nat
  BY <1>1, <1>4, ConcatProperties, LenProperties
<1>6. Len(x \o b) = Len(r.got \o r.q) /\ d.got = x
  BY <1>3, <1>4
<1> HIDE DEF x
<1>7. Len(x \o b) = Len(x) + Len(b)
  BY <1>4, <1>5, ConcatProperties
<1>8. Len(r.got \o r.q) = Len(r.got) + Len(r.q)
  BY <1>1, ConcatProperties
<1>9. Len(d.got) + Len(d.q) = Len(r.got) + Len(r.q) /\ Len(r.got) <= Len(d.got)
  <2>1. \A i, j \in Nat : i <= i + j
    OBVIOUS
  <2>2. Len(d.got) + Len(d.q) = Len(x) + Len(b)
    BY <1>3, <1>6
  <2>3. Len(r.got) <= Len(x)
    BY ONLY <1>1, <1>5, <2>1
  <2> QED BY ONLY <1>6, <1>7, <1>8, <2>2, <2>3
<1> QED BY <1>3, <1>4, <1>9 DEF d

\* A bare FIN that has been read to its end is forgotten.
LEMMA FlowFin ==
  ASSUME NEW T \in Sources, NEW K \in Sinks, NEW L \in Sinks, L.n = K.n, L.nxt = K.nxt,
         L.reasm = K.reasm, L.fin \in {K.fin, "none"}
  PROVE  /\ Flow(T, K) => Flow(T, L)
         /\ \A U : Full(U, K) <=> Full(U, L)
         /\ \A b : HasByte(K, b) <=> HasByte(L, b)
<1>1. \A U : Full(U, K) <=> Full(U, L)
  BY DEF Full
<1>2. \A b : HasByte(K, b) <=> HasByte(L, b)
  BY DEF HasByte
<1>3. Flow(T, K) => Flow(T, L)
  BY <1>1, <1>2 DEF Flow
<1> QED BY <1>1, <1>2, <1>3

\* udt_rcv_buf::copy: what was queued is read, in order.
LEMMA CopyGlides ==
  ASSUME NEW T \in Sources, NEW K \in Sinks, NEW c \in Cb, NEW d \in Cb, Data(c, T, K),
         NEW n \in Nat, d.r = Copy(c.r, n),
         d.st = c.st, d.err = c.err, d.max = c.max, d.up = c.up, d.ops = c.ops,
         d.sbseq = c.sbseq, d.told = c.told, d.out = c.out, d.sb = c.sb, d.flags = c.flags
  PROVE  Glides(c, d, T, K)
<1>1. /\ d.r.got \o d.r.q = c.r.got \o c.r.q /\ Len(c.r.got) <= Len(d.r.got)
      /\ Len(d.r.got) + Len(d.r.q) = Len(c.r.got) + Len(c.r.q)
      /\ d.r.nxt = c.r.nxt /\ d.r.reasm = c.r.reasm /\ d.r.fin \in {c.r.fin, "none"}
  <2>1. c.r \in Half
    BY DEF Cb
  <2> QED BY <2>1, CopyBytes
<1>2. Cuts(d) = Cuts(c) /\ Arrived(d) = Arrived(c)
  BY <1>1 DEF Cuts, Arrived
<1>3. Source(d) = Source(c) /\ Source(c) \in Sources /\ Sink(c) \in Sinks /\ Sink(d) \in Sinks
  BY <1>2, PartTypes DEF Source
<1>4. /\ Flow(T, Sink(d)) /\ \A U : Full(U, Sink(c)) <=> Full(U, Sink(d))
      /\ \A b : HasByte(Sink(c), b) <=> HasByte(Sink(d), b)
      /\ Sink(d).n = Sink(c).n /\ Sink(d).nxt = Sink(c).nxt
  BY <1>1, <1>2, <1>3, FlowFin, PartTypes DEF Data
<1>5. Ordered(d) /\ Flow(Source(d), K)
  BY <1>1, <1>2, <1>3 DEF Ordered, Data
<1>6. Stage(d)
  <2>1. Whole(d)
    BY <1>2 DEF Data, Stage, Whole
  <2> QED BY <1>2, <2>1 DEF Data, Stage, NoOps
<1>7. Ended(d, T, K)
  BY <1>3, <1>4 DEF Data, Ended
<1>8. Says(d, T)
  BY <1>3, <1>4 DEF Data, Says, Carries
<1>9. Calm(c, d)
  BY <1>1, <1>2 DEF Calm
<1>10. Adds(c, d)
  <2>1. SrcGrows(Source(c), Source(d))
    BY <1>3, GrowsTrans
  <2> QED BY <1>1, <1>9, <2>1, CalmAdds
<1> QED BY <1>4, <1>5, <1>6, <1>7, <1>8, <1>9, <1>10 DEF Glides, Moves, Data

\* udt_buf::append cuts the next n bytes of the stream.
LEMMA CutFlow ==
  ASSUME NEW S \in Sources, NEW U \in Sources, NEW K \in Sinks, Flow(S, K), NEW n \in Nat,
         U.seq = S.seq + n, U.told = S.told, S.seq >= 1, S.told => n = 0,
         NEW C \in SUBSET Slices, U.cuts = S.cuts \cup C,
         \A p \in C : p.seq >= S.seq /\ p.seq + p.len <= U.seq,
         \A p, o \in C : Apart(p, o),
         \A b \in S.seq .. U.seq - 1 : Held(C, b)
  PROVE  Flow(U, K) /\ SrcGrows(S, U)
<1>1. S.seq \in Nat /\ U.seq \in Nat /\ K.n \in Nat /\ (K.n = 0 \/ K.n < S.seq)
  BY DEF Sources, Sinks, Flow
<1>2. SrcGrows(S, U)
  BY <1>1 DEF SrcGrows
<1>3. \A m : m.seq \in Int /\ m.len \in Nat /\ Aligned(S, m) => Aligned(U, m)
  BY <1>2, AlignedGrows
<1>4. ASSUME NEW p \in U.cuts
      PROVE  Aligned(U, p) /\ (p.seq <= K.n => p.seq + p.len <= K.n + 1)
  <2>1. p.seq \in Nat /\ p.len \in 1 .. MaxSeg /\ p.len \in Nat
    BY <1>4, RcvBufAssumption DEF Sources, Slices
  <2>2. CASE p \in S.cuts
    BY <1>3, <2>1, <2>2 DEF Flow
  <2>3. CASE p \in C
    <3>1. p.seq >= S.seq /\ p.seq + p.len <= U.seq
      BY <2>3
    <3>2. ASSUME NEW o \in U.cuts
          PROVE  Apart(o, p)
      <4>1. o.seq \in Nat /\ o.len \in Nat
        BY <3>2, RcvBufAssumption DEF Sources, Slices
      <4>2. CASE o \in S.cuts
        <5>1. o.seq + o.len <= S.seq
          BY <4>2 DEF Flow, Aligned
        <5> QED BY <1>1, <2>1, <3>1, <4>1, <5>1 DEF Apart
      <4> QED BY <2>3, <3>2, <4>2
    <3> QED BY <1>1, <2>1, <3>1, <3>2 DEF Aligned
  <2> QED BY <1>4, <2>2, <2>3
<1>5. \A b \in 1 .. U.seq - 1 : Held(U.cuts, b) \/ HasByte(K, b)
  <2> TAKE b \in 1 .. U.seq - 1
  <2>1. CASE b < S.seq
    <3>1. Held(S.cuts, b) \/ HasByte(K, b)
      BY <1>1, <2>1 DEF Flow
    <3> QED BY <3>1 DEF Held
  <2>2. CASE b >= S.seq
    <3>1. Held(C, b)
      BY <1>1, <2>2
    <3> QED BY <3>1 DEF Held
  <2> QED BY <1>1, <2>1, <2>2
<1>6. ASSUME NEW h \in K.reasm
      PROVE  PieceOf(U, h)
  <2>1. h.seq \in Int /\ h.len \in Nat /\ PieceOf(S, h)
    BY <1>6 DEF Flow, Sinks, Packet
  <2> QED BY <1>1, <1>3, <2>1 DEF PieceOf
<1>7. /\ U.told => U.seq >= 1
      /\ K.n = 0 \/ K.n < U.seq
      /\ \A x \in {0} : Full(S, K) => Full(U, K)
  BY <1>1 DEF Full
<1>8. /\ K.nxt = 0 => K.n = 0
      /\ K.nxt >= 1 => K.nxt = K.n + 1 \/ (Full(U, K) /\ K.nxt > K.n + 1)
      /\ K.fin # "none" => Full(U, K)
  BY <1>7 DEF Flow
<1> QED BY <1>2, <1>4, <1>5, <1>6, <1>7, <1>8 DEF Flow

\* The cuts of a send buffer with more packets in it.
LEMMA CutsUnion ==
  ASSUME NEW c, NEW d, NEW C, d.sb = c.sb \cup C
  PROVE  Cuts(d) = Cuts(c) \cup {[seq |-> p.seq, len |-> p.len] : p \in C}
BY DEF Cuts

\* When nothing is pending, nothing is left behind the head of the queue.
LEMMA NoOpsTail ==
  ASSUME NEW c \in Cb, c.ops # << >>
  PROVE  /\ Head(c.ops) \in Nat /\ Tail(c.ops) \in Seq(Nat)
         /\ NoOps(c) => /\ Head(c.ops) = 0
                        /\ \A i \in 1 .. Len(Tail(c.ops)) : Tail(c.ops)[i] = 0
<1>1. c.ops \in Seq(Nat)
  BY DEF Cb
<1>2. /\ Head(c.ops) \in Nat /\ Tail(c.ops) \in Seq(Nat) /\ Len(Tail(c.ops)) = Len(c.ops) - 1
      /\ Head(c.ops) = c.ops[1] /\ \A i \in 1 .. Len(Tail(c.ops)) : Tail(c.ops)[i] = c.ops[i + 1]
      /\ Len(c.ops) \in Nat
  BY <1>1, HeadTailProperties, LenProperties
<1>3. Len(c.ops) # 0
  BY <1>1, EmptySeq
<1> QED BY <1>2, <1>3 DEF NoOps

\* consume_pending_data, one operation: its packets begin behind the last one.
LEMMA ConsumeOneGlides ==
  ASSUME NEW P \in Peers, NEW T \in Sources, NEW K \in Sinks, NEW c, Good(c, P), Data(c, T, K)
  PROVE  Glides(c, ConsumeOne(c), T, K)
<1> DEFINE d == ConsumeOne(c)
<1>1. c \in Cb /\ d \in Cb
  BY ConsumeOneKeeps DEF Good, Kept
<1>2. CASE c.ops = << >> \/ Head(c.ops) > SndHiWat - SumLen(c.sb)
  <2>1. d = c
    BY <1>2 DEF ConsumeOne
  <2> QED BY <1>1, <2>1, GlidesTrans
<1>3. CASE ~(c.ops = << >> \/ Head(c.ops) > SndHiWat - SumLen(c.sb))
  <2> DEFINE n == Head(c.ops)
             C == Cut(c.sbseq, n)
             L == {[seq |-> p.seq, len |-> p.len] : p \in C}
             S == Source(c)
             U == Source(d)
  <2>1. d = [c EXCEPT !.sb = @ \cup C, !.sbseq = @ + n, !.ops = Tail(@)]
    BY <1>3 DEF ConsumeOne
  <2>2. /\ n \in Nat /\ Tail(c.ops) \in Seq(Nat) /\ c.sbseq \in Nat
        /\ NoOps(c) => n = 0 /\ \A i \in 1 .. Len(Tail(c.ops)) : Tail(c.ops)[i] = 0
    BY <1>1, <1>3, CbNumbers, NoOpsTail
  <2>3. /\ C \in SUBSET Pkt
        /\ \A p \in C : p.seq >= c.sbseq /\ p.seq + p.len <= c.sbseq + n
        /\ \A p, o \in C : p = o \/ p.seq + p.len <= o.seq \/ o.seq + o.len <= p.seq
        /\ \A b \in c.sbseq .. c.sbseq + n - 1 : \E p \in C : Holds(p, b)
    BY <2>2, CutFacts
  <2> HIDE DEF n, C, d
  <2>4. d.sb = c.sb \cup C /\ d.sbseq = c.sbseq + n /\ d.ops = Tail(c.ops)
    BY <1>1, <2>1 DEF Cb
  <2>5. /\ d.max = c.max /\ d.st = c.st /\ d.err = c.err
        /\ d.flags = c.flags /\ d.up = c.up /\ d.r = c.r /\ d.out = c.out /\ d.told = c.told
    BY ZenonT(60), <1>1, <2>1 DEF Cb
  <2>6. c.sbseq >= 1 /\ (c.told \/ c.st = "CLOSED" => n = 0)
    BY <1>3, <2>2 DEF Data, Stage
  <2>7. /\ S \in Sources /\ U \in Sources /\ U.seq = S.seq + n /\ U.told = S.told
        /\ S.seq = c.sbseq /\ S.told = c.told /\ U.cuts = Cuts(d) /\ S.cuts = Cuts(c)
    BY <1>1, <2>4, <2>5, PartTypes
  <2>8. U.cuts = S.cuts \cup L
    BY <2>4, <2>7, CutsUnion
  <2>9. ASSUME NEW s \in L
        PROVE  s \in Slices /\ \E p \in C : s.seq = p.seq /\ s.len = p.len
    <3>1. PICK p \in C : s = [seq |-> p.seq, len |-> p.len]
      BY <2>9
    <3>2. p.seq \in Nat /\ p.len \in 1 .. MaxSeg
      BY <2>3, <3>1 DEF Pkt
    <3> QED BY <3>1, <3>2 DEF Slices
  <2>10. \A b \in c.sbseq .. c.sbseq + n - 1 : Held(L, b)
    <3> TAKE b \in c.sbseq .. c.sbseq + n - 1
    <3>1. PICK p \in C : Holds(p, b)
      BY <2>3
    <3>2. [seq |-> p.seq, len |-> p.len] \in L
      BY <3>1
    <3> QED BY <3>1, <3>2 DEF Held, Holds
  <2> HIDE DEF L
  <2>11. L \in SUBSET Slices /\ \A p \in L : p.seq >= S.seq /\ p.seq + p.len <= U.seq
    BY <2>3, <2>7, <2>9
  <2>12. \A p, o \in L : Apart(p, o)
    BY <2>3, <2>9 DEF Apart
  <2> HIDE DEF S, U
  <2>13. Flow(U, K) /\ SrcGrows(S, U)
    <3>1. Flow(S, K)
      BY DEF Data, S
    <3>2. S.seq >= 1 /\ (S.told => n = 0) /\ U.seq - 1 = c.sbseq + n - 1
      BY <2>2, <2>6, <2>7
    <3>3. \A b \in S.seq .. U.seq - 1 : Held(L, b)
      BY <2>7, <2>10, <3>2
    <3> QED BY <2>2, <2>7, <2>8, <2>11, <2>12, <3>1, <3>2, <3>3, CutFlow
  <2>14. Sink(d) = Sink(c) /\ Arrived(d) = Arrived(c) /\ Sink(c) \in Sinks
    BY <1>1, <2>5, PartTypes DEF Sink, Arrived
  <2>15. Flow(T, Sink(d)) /\ Ordered(d)
    BY <2>5, <2>14 DEF Data, Ordered
  <2>17. Stage(d)
    <3>1. NoOps(c) => NoOps(d)
      BY <2>2, <2>4 DEF NoOps
    <3>2. d.sbseq \in Nat /\ d.sbseq >= 1 /\ c.max \in Nat /\ d.sbseq >= c.sbseq
      BY <1>1, <2>2, <2>4, <2>6, CbNumbers
    <3>3. /\ d.st \notin {"LISTEN", "SYN_SENT", "SYN_RECEIVED"}
          /\ ~(d.st = "CLOSED" /\ d.err = "none")
      BY <2>5, <2>6 DEF Data, Stage
    <3>4. "SENTFIN" \in d.flags => d.told /\ d.max = d.sbseq + 1
      BY <2>2, <2>4, <2>5, <2>6 DEF Data, Stage
    <3>5. d.max <= d.sbseq + (IF "SENTFIN" \in d.flags THEN 1 ELSE 0)
      BY <2>2, <2>5, <2>6, <3>2 DEF Data, Stage
    <3>6. Whole(d)
      <4> SUFFICES ASSUME NEW s \in Cuts(d), s.seq < d.max
                   PROVE  s.seq + s.len <= d.max
        BY DEF Whole
      <4>1. CASE s \in Cuts(c)
        BY <2>5, <4>1 DEF Data, Stage, Whole
      <4>2. CASE s \in L
        <5>1. s.seq \in Nat /\ s.len \in Nat /\ s.len >= 1
          BY <2>11, <4>2 DEF Slices
        <5>2. s.seq >= c.sbseq /\ s.seq + s.len <= c.sbseq + n
          BY <2>7, <2>11, <4>2
        <5>3. s.seq < c.max
          BY <2>5
        <5>4. "SENTFIN" \in c.flags
          BY <2>2, <2>6, <3>2, <5>1, <5>2, <5>3 DEF Data, Stage
        <5>5. n = 0
          BY <2>6, <5>4 DEF Data, Stage
        <5> QED BY <2>2, <5>1, <5>2, <5>5
      <4> QED BY <2>7, <2>8, <4>1, <4>2
    <3> QED BY <2>5, <3>1, <3>2, <3>3, <3>4, <3>5, <3>6 DEF Data, Stage
  <2>18. Ended(d, T, K)
    <3>1. Full(S, K) => Full(U, K)
      BY <2>2, <2>6, <2>7 DEF Full
    <3> QED BY <2>5, <2>14, <3>1 DEF Data, Ended, S, U
  <2>19. Says(d, T)
    <3> SUFFICES ASSUME NEW i \in 1 .. Len(c.out)
                 PROVE  Carries(c.out[i], U, Sink(c), T)
      BY <2>5, <2>14 DEF Says, U
    <3>1. c.out[i] \in Datagram /\ Carries(c.out[i], S, Sink(c), T) /\ Flow(T, Sink(c))
      BY <1>1, CbNumbers, ElementOfSeq DEF Data, Says, S
    <3>2. SrcGrows(T, T) /\ SnkGrows(Sink(c), Sink(c))
      BY <2>14, GrowsTrans
    <3> QED BY <2>7, <2>13, <2>14, <3>1, <3>2, CarriesGrows
  <2>20. Calm(c, d)
    BY <2>5, <2>14 DEF Calm
  <2>21. Adds(c, d)
    <3>1. Len(c.r.got) <= Len(d.r.got)
      <4>1. Len(c.r.got) \in Nat
        BY <1>1, LenProperties DEF Cb, Half
      <4> QED BY <2>5, <4>1
    <3>2. Dead(c) => d.sbseq = c.sbseq /\ d.told = c.told
      BY <2>2, <2>4, <2>5, <2>6 DEF Dead
    <3> QED BY <1>1, <2>13, <2>20, <3>1, <3>2, CalmAdds DEF S, U
  <2> QED BY <1>1, <2>13, <2>15, <2>17, <2>18, <2>19, <2>20, <2>21 DEF Glides, Moves, Data, U, d
<1> QED BY <1>2, <1>3

\* consume_pending_data: the send operations one by one.
LEMMA ConsumeGlides ==
  ASSUME NEW P \in Peers, NEW T \in Sources, NEW K \in Sinks, NEW c, Good(c, P), Data(c, T, K)
  PROVE  Glides(c, ConsumePendingData(c), T, K)
<1> DEFINE N == Len(c.ops)
           step(f, k) == IF k = 0 THEN c ELSE ConsumeOne(f[k - 1])
           Fits(n) == \E f : f = [k \in 0 .. n |-> step(f, k)]
           W == {n \in 0 .. N : Fits(n)}
           after == CHOOSE f : f = [k \in 0 .. N |-> step(f, k)]
           Fine(d) == Good(d, P) /\ Glides(c, d, T, K)
<1>1. c \in Cb /\ N \in Nat
  BY LenProperties DEF Good, Kept, Cb
<1>2. Fits(N)
  <2>1. Fits(0)
    <3> DEFINE f == [k \in 0 .. 0 |-> c]
    <3>1. f = [k \in 0 .. 0 |-> step(f, k)]
      OBVIOUS
    <3> QED BY <3>1
  <2>2. ASSUME NEW n \in 1 .. N, Fits(n - 1)
        PROVE  Fits(n)
    <3>1. PICK f : f = [k \in 0 .. n - 1 |-> step(f, k)]
      BY <2>2
    <3> DEFINE g == [k \in 0 .. n |-> step(f, k)]
    <3>2. \A k \in 0 .. n - 1 : g[k] = f[k]
      BY <3>1
    <3>3. \A k \in 0 .. n : k # 0 => k - 1 \in 0 .. n - 1
      OBVIOUS
    <3> HIDE DEF g
    <3>4. \A k \in 0 .. n : step(f, k) = step(g, k)
      BY <3>2, <3>3
    <3>5. g = [k \in 0 .. n |-> step(g, k)]
      BY <3>4 DEF g
    <3> QED BY <3>5
  <2> HIDE DEF Fits
  <2>3. W \in SUBSET (0 .. N) /\ 0 \in W /\ \A k \in 1 .. N : k - 1 \in W => k \in W
    BY <1>1, <2>1, <2>2
  <2>4. N \in W
    BY <1>1, <2>3, ChainKeeps
  <2> QED BY <2>4
<1>3. after = [k \in 0 .. N |-> step(after, k)]
  BY <1>2
<1>4. ConsumePendingData(c) = after[N]
  BY DEF ConsumePendingData
<1> DEFINE V == {k \in 0 .. N : Fine(after[k])}
<1> HIDE DEF after
<1>5. 0 \in V
  <2>1. after[0] = c
    BY <1>1, <1>3
  <2>2. Fine(c)
    BY <1>1, GlidesTrans
  <2>3. Fine(after[0])
    BY <2>1, <2>2
  <2> HIDE DEF Fine
  <2> QED BY <1>1, <2>3
<1>6. ASSUME NEW k \in 1 .. N, k - 1 \in V
      PROVE  k \in V
  <2> DEFINE b == after[k - 1]
             d == after[k]
  <2>1. d = ConsumeOne(b)
    BY <1>3
  <2>2. Good(b, P) /\ Glides(c, b, T, K)
    BY <1>6
  <2> HIDE DEF b, d
  <2>3. b \in Cb /\ Data(b, T, K)
    BY <2>2 DEF Glides, Moves
  <2>4. Good(d, P)
    BY <2>1, <2>2, ConsumeOneKeeps
  <2>5. Glides(b, d, T, K)
    BY <2>1, <2>2, <2>3, ConsumeOneGlides
  <2>6. Glides(c, d, T, K)
    BY <1>1, <2>2, <2>3, <2>5, GlidesTrans
  <2> QED BY <2>4, <2>6 DEF d
<1>7. N \in V
  BY <1>1, <1>5, <1>6, ChainKeeps
<1> QED BY <1>4, <1>7

----------------------------------------------------------------------------
(* Sending. *)

\* The end of a stream is told: nothing else changes.
LEMMA ToldFlow ==
  ASSUME NEW S \in Sources, NEW U \in Sources, NEW K \in Sinks, Flow(S, K),
         U.seq = S.seq, U.cuts = S.cuts, S.told => U.told, U.told => U.seq >= 1
  PROVE  Flow(U, K) /\ SrcGrows(S, U) /\ (Full(S, K) => Full(U, K))
<1>1. Full(S, K) => Full(U, K)
  BY DEF Full
<1>2. \A m : Aligned(S, m) <=> Aligned(U, m)
  BY DEF Aligned
<1>3. \A h \in K.reasm : PieceOf(U, h)
  BY <1>2 DEF Flow, PieceOf
<1>4. SrcGrows(S, U)
  BY DEF SrcGrows, Sources
<1> QED BY <1>1, <1>2, <1>3, <1>4 DEF Flow

\* Every byte of a SACK block is in the reassembly queue.
LEMMA SackBlocksHeld ==
  ASSUME NEW R \in SUBSET Packet, NEW B \in Nat, \A p \in R : p.seq + p.len <= B
  PROVE  \A b \in SackBlocks(R) : \A x \in b[1] .. b[2] - 1 : Held(R, x)
<1> SUFFICES ASSUME NEW b \in SackBlocks(R), NEW x \in b[1] .. b[2] - 1
             PROVE  Held(R, x)
  OBVIOUS
<1>1. PICK p \in R : b = <<p.seq, Frontier(R, p.seq)>>
  BY DEF SackBlocks
<1>2. p.seq \in Nat
  BY <1>1 DEF Packet
<1>3. \A y \in p.seq .. Frontier(R, p.seq) - 1 : \E h \in R : Holds(h, y)
  BY <1>2, FrontierFacts
<1>4. x \in p.seq .. Frontier(R, p.seq) - 1
  BY <1>1
<1> QED BY <1>3, <1>4 DEF Held

\* s_tcp_outflags: every segment of an open connection acknowledges.
LEMMA FlagsForAck ==
  ASSUME NEW c \in Cb, NEW len \in Nat, c.st \notin {"CLOSED", "LISTEN", "SYN_SENT"}
  PROVE  "ACK" \in FlagsFor(c, len)
<1>1. c.st \in States
  BY CbNumbers
<1>2. "ACK" \in OutFlags[c.st]
  BY <1>1 DEF OutFlags, States, Opening
<1> QED BY <1>2 DEF FlagsFor

\* Where a segment starts: data at snd_nxt, a FIN behind the last byte.
LEMMA SegmentStart ==
  ASSUME NEW T \in Sources, NEW K \in Sinks, NEW c \in Cb, Data(c, T, K), NEW flags,
         Fitting(c, flags), NEW len \in Nat, len = 0 => c.nxt <= c.max,
         len > 0 => [seq |-> c.nxt, len |-> len] \in Cuts(c),
         "FIN" \in flags => Pending(c) = 0 /\ c.sbseq <= c.nxt + len
  PROVE  /\ len > 0 /\ "SYN" \notin flags =>
              StartOf(c, flags) = c.nxt /\ c.nxt >= 1 /\ c.nxt + len <= c.sbseq
         /\ "FIN" \in flags => StartOf(c, flags) + len = c.sbseq /\ c.sbseq >= 1 /\ NoOps(c)
         /\ "SYN" \notin flags /\ "FIN" \notin flags => StartOf(c, flags) = c.nxt
<1>1. c.nxt \in Nat /\ c.max \in Nat /\ c.sbseq \in Nat /\ c.ops \in Seq(Nat)
  BY CbNumbers
<1>2. len > 0 => c.nxt >= 1 /\ c.nxt + len <= c.sbseq
  <2>1. len > 0 => Aligned(Source(c), [seq |-> c.nxt, len |-> len])
    BY PartTypes DEF Data, Flow
  <2> QED BY <2>1, PartTypes DEF Aligned
<1>3. "FIN" \in flags => c.st \in Finishing /\ "SYN" \notin flags /\ NoOps(c)
  BY <1>1, PendingFacts DEF Fitting, Finishing, Handshaking
<1>4. "FIN" \in flags => c.sbseq >= 1
  <2>1. c.sbseq = 0 => c.st \in Opening
    BY DEF Data, Stage
  <2> QED BY <1>1, <1>3, <2>1 DEF Finishing, Opening
<1>5. /\ HaveSndFin(c) => c.max = c.sbseq + 1
      /\ ~HaveSndFin(c) /\ c.sbseq >= 1 => c.max <= c.sbseq
  BY <1>1 DEF Data, Stage, HaveSndFin
<1>6. ASSUME "SYN" \notin flags, ~HaveSndFin(c) \/ c.nxt # c.max \/ "FIN" \notin flags
      PROVE  StartOf(c, flags) = c.nxt
  BY <1>6 DEF StartOf
<1>7. ASSUME len > 0, "SYN" \notin flags
      PROVE  StartOf(c, flags) = c.nxt /\ c.nxt >= 1 /\ c.nxt + len <= c.sbseq
  <2>1. HaveSndFin(c) => c.nxt # c.max
    BY <1>1, <1>2, <1>5, <1>7
  <2> QED BY <1>2, <1>6, <1>7, <2>1
<1>8. ASSUME "FIN" \in flags PROVE StartOf(c, flags) + len = c.sbseq
  <2>1. "SYN" \notin flags /\ c.sbseq >= 1 /\ c.sbseq <= c.nxt + len
    BY <1>3, <1>4, <1>8
  <2>2. CASE len > 0
    <3>1. StartOf(c, flags) = c.nxt
      BY <1>7, <2>1, <2>2
    <3>2. c.nxt + len <= c.sbseq /\ c.sbseq <= c.nxt + len
      BY <1>2, <2>1, <2>2
    <3>3. c.nxt + len \in Int /\ c.sbseq \in Int
      BY <1>1
    <3>4. \A i, j \in Int : i <= j /\ j <= i => i = j
      OBVIOUS
    <3>5. c.nxt + len = c.sbseq
      BY ONLY <3>2, <3>3, <3>4
    <3> QED BY <3>1, <3>5
  <2>3. CASE len = 0 /\ HaveSndFin(c) /\ c.nxt = c.max
    <3>1. StartOf(c, flags) = c.nxt - 1
      BY <1>8, <2>1, <2>3 DEF StartOf
    <3> QED BY <1>1, <1>5, <2>3, <3>1
  <2>4. CASE len = 0 /\ ~(HaveSndFin(c) /\ c.nxt = c.max)
    <3>1. StartOf(c, flags) = c.nxt
      BY <1>6, <2>1, <2>4
    <3>2. c.nxt = c.sbseq
      BY <1>1, <1>5, <2>1, <2>4
    <3> QED BY <1>1, <2>4, <3>1, <3>2
  <2> QED BY <2>2, <2>3, <2>4
<1> QED BY <1>3, <1>4, <1>6, <1>7, <1>8

\* The label "send:": what a segment says of both streams is true.
LEMMA SendSegmentGlides ==
  ASSUME NEW P \in Peers, NEW T \in Sources, NEW K \in Sinks, NEW c, Kept(c, P), Data(c, T, K),
         c.st \notin {"CLOSED", "LISTEN"}, NEW u \in Inputs, NEW flags, Fitting(c, flags),
         c.st # "SYN_SENT" => "ACK" \in flags,
         NEW len \in Nat, len = 0 => c.nxt <= c.max,
         len > 0 => c.st \notin Handshaking /\ [seq |-> c.nxt, len |-> len] \in Cuts(c),
         "FIN" \in flags => Pending(c) = 0 /\ c.sbseq <= c.nxt + len,
         NEW raw \in Int, NEW sack \in SUBSET (Nat \X Nat),
         \A b \in sack : \A x \in b[1] .. b[2] - 1 : HasByte(Sink(c), x)
  PROVE  LET d == SendSegment(c, u, flags, len, raw, sack)
         IN  Glides(c, d, T, K) /\ (c.st \in Handshaking => d.nxt = d.max)
<1> DEFINE n == StartOf(c, flags)
           m == SegmentOf(c, flags, len, raw, sack)
           d == SendSegment(c, u, flags, len, raw, sack)
           top == TopOf(c, u, flags, len)
           S == Source(c)
           U == Source(d)
           Fin == "FIN" \in flags
           Syn == "SYN" \in flags
<1>1. /\ c \in Cb /\ c.nxt \in Nat /\ c.max \in Nat /\ c.sbseq \in Nat /\ c.una \in Nat
      /\ c.told \in BOOLEAN /\ c.flags \in SUBSET CbFlags
  BY CbNumbers DEF Kept, Cb
<1>2. /\ d \in Cb /\ Rest(c, d) /\ m \in Datagram
      /\ d.nxt = (IF u.force /\ c.persist THEN n ELSE top)
      /\ d.max = Greatest(c.max, top)
      /\ d.out = Append(c.out, m) /\ d.r.nxt = c.r.nxt
      /\ d.r.q = c.r.q /\ d.r.reasm = c.r.reasm /\ d.r.got = c.r.got /\ d.r.fin = c.r.fin
      /\ d.told = (c.told \/ Fin)
      /\ "SENTFIN" \in d.flags <=>
           "SENTFIN" \in c.flags \/ (~(u.force /\ c.persist) /\ Fin)
      /\ "NOTIFY_DROP" \in d.flags <=> "NOTIFY_DROP" \in c.flags
  BY SendSegmentFields
<1>3. /\ n \in Nat /\ (Syn => n = 0)
      /\ len > 0 /\ ~Syn => n = c.nxt /\ c.nxt >= 1 /\ c.nxt + len <= c.sbseq
      /\ Fin => n + len = c.sbseq /\ c.sbseq >= 1 /\ NoOps(c)
      /\ ~Syn /\ ~Fin => n = c.nxt
  <2>1. n \in Nat /\ (Syn => n = 0)
    BY StartOfFacts
  <2> QED BY <1>1, <2>1, SegmentStart
<1>4. /\ Syn <=> c.st \in Handshaking
      /\ Fin => c.st \in Finishing /\ ~Syn
      /\ Syn => len = 0 /\ ~c.persist /\ c.max <= 1
      /\ flags \in SUBSET {"SYN", "FIN", "ACK"}
  BY DEF Fitting, Kept, Phased, Handshaking, Finishing
<1>5. top = IF u.force /\ c.persist THEN n + len ELSE n + len + (IF Syn \/ Fin THEN 1 ELSE 0)
  BY DEF TopOf
<1> HIDE DEF n, m, d, top
<1>6. /\ d.st = c.st /\ d.err = c.err /\ d.up = c.up /\ d.ops = c.ops
      /\ d.sb = c.sb /\ d.sbseq = c.sbseq
  BY <1>2 DEF Rest
<1>7. /\ S \in Sources /\ U \in Sources /\ U.seq = S.seq /\ U.cuts = S.cuts
      /\ S.seq = c.sbseq /\ S.cuts = Cuts(c) /\ S.told = c.told /\ U.told = d.told
      /\ Sink(c) \in Sinks /\ Sink(d) = Sink(c) /\ Arrived(d) = Arrived(c)
      /\ Sink(c).nxt = c.r.nxt /\ Cuts(d) = Cuts(c)
  <2>1. Cuts(d) = Cuts(c)
    BY <1>6 DEF Cuts
  <2>2. Arrived(d) = Arrived(c)
    BY <1>2 DEF Arrived
  <2>3. Sink(d) = Sink(c)
    BY <1>2, <2>2 DEF Sink
  <2> QED BY <1>1, <1>2, <1>6, <2>1, <2>2, <2>3, PartTypes
<1>8. (S.told => U.told) /\ (Fin => U.told) /\ (U.told => c.told \/ Fin)
  BY <1>2, <1>7
<1> HIDE DEF S, U
<1>9. c.told => c.sbseq >= 1 /\ NoOps(c) /\ c.st \in Ending
  BY <1>1, <1>7 DEF Data, Stage, Flow
<1>10. Flow(U, K) /\ SrcGrows(S, U) /\ (Full(S, K) => Full(U, K))
  <2>1. Flow(S, K)
    BY DEF Data, S
  <2> QED BY <1>3, <1>7, <1>8, <1>9, <2>1, ToldFlow
<1>11. Flow(T, Sink(d)) /\ Ordered(d)
  BY <1>2, <1>7 DEF Data, Ordered
<1>12. d.max \in Nat /\ d.max >= c.max /\ (d.max > c.max => d.max = top)
  BY <1>1, <1>3, <1>5, <1>2 DEF Greatest
<1>13. Stage(d)
  <2>1. /\ c.sbseq = 0 => c.st \in Opening /\ "SENTFIN" \notin c.flags /\ ~c.told
        /\ c.sbseq >= 1 => c.max <= c.sbseq + (IF "SENTFIN" \in c.flags THEN 1 ELSE 0)
        /\ "SENTFIN" \in c.flags => c.told /\ c.max = c.sbseq + 1
        /\ c.st \in Handshaking => c.sbseq = 0
    BY DEF Data, Stage, Handshaking
  <2>2. U.told => d.st \in Ending /\ NoOps(d)
    BY <1>3, <1>4, <1>6, <1>8, <1>9 DEF Ending, Finishing, NoOps
  <2>3. "SENTFIN" \in d.flags => U.told /\ d.max = d.sbseq + 1
    <3>1. CASE "SENTFIN" \in c.flags
      <4>1. top <= c.sbseq + 1
        BY <1>1, <1>3, <1>4, <1>5, <2>1, <3>1
      <4> QED BY <1>1, <1>2, <1>6, <1>7, <1>8, <1>12, <2>1, <3>1, <4>1
    <3>2. CASE "SENTFIN" \notin c.flags /\ "SENTFIN" \in d.flags
      <4>1. Fin /\ top = c.sbseq + 1
        BY <1>2, <1>3, <1>5, <3>2
      <4>2. c.max <= c.sbseq
        BY <1>3, <2>1, <3>2, <4>1
      <4> QED BY <1>1, <1>2, <1>6, <1>8, <4>1, <4>2 DEF Greatest
    <3> QED BY <3>1, <3>2
  <2>4. d.sbseq >= 1 => d.max <= d.sbseq + (IF "SENTFIN" \in d.flags THEN 1 ELSE 0)
    <3>1. CASE "SENTFIN" \in d.flags
      BY <1>1, <1>6, <2>3, <3>1
    <3>2. CASE "SENTFIN" \notin d.flags /\ d.sbseq >= 1
      <4>1. "SENTFIN" \notin c.flags /\ c.max <= c.sbseq /\ ~Syn
        BY <1>1, <1>2, <1>4, <1>6, <2>1, <3>2
      <4>2. top <= c.sbseq
        BY <1>1, <1>2, <1>3, <1>5, <3>2, <4>1
      <4> QED BY <1>1, <1>6, <1>12, <3>2, <4>1, <4>2
    <3> QED BY <3>1, <3>2
  <2>5. d.sbseq = 0 => ~U.told /\ "SENTFIN" \notin d.flags /\ d.st \in Opening
    BY <1>2, <1>3, <1>6, <1>8, <2>1
  <2>6. NoOps(c) <=> NoOps(d)
    BY <1>6 DEF NoOps
  <2>7. /\ Cuts(d) = Cuts(c) /\ d.ops = c.ops /\ d.up = c.up /\ d.st = c.st /\ d.err = c.err
        /\ d.sbseq = c.sbseq /\ (d.told <=> U.told)
    BY <1>6, <1>7
  <2>8. Whole(d)
    <3> SUFFICES ASSUME NEW s \in Cuts(c), s.seq < d.max
                 PROVE  s.seq + s.len <= d.max
      BY <1>7 DEF Whole
    <3>1. /\ s.seq \in Nat /\ s.len \in Nat /\ s.seq + s.len <= c.sbseq
          /\ len > 0 => Apart(s, [seq |-> c.nxt, len |-> len])
      BY <1>7 DEF Data, Flow, Aligned, Sources, Slices, S
    <3>2. CASE d.max = c.max
      BY <3>2 DEF Data, Stage, Whole
    <3>3. CASE d.max = top /\ top > c.max /\ Fin
      <4>1. top >= c.sbseq
        BY <1>1, <1>3, <1>5, <3>3
      <4> QED BY <1>1, <1>12, <3>1, <3>3, <4>1
    <3>4. CASE d.max = top /\ top > c.max /\ ~Fin
      <4>1. ~Syn
        <5>1. Syn => Cuts(c) = {}
          BY <1>4, <2>1 DEF Data, Stage
        <5> QED BY <5>1
      <4>2. n = c.nxt /\ top = c.nxt + len
        BY <1>1, <1>3, <1>5, <3>4, <4>1
      <4>3. len > 0
        BY <1>1, <3>4, <4>2
      <4>4. \/ s.seq + s.len <= c.nxt \/ c.nxt + len <= s.seq
            \/ s.seq = c.nxt /\ s.len = len
        BY <3>1, <4>3 DEF Apart
      <4> QED BY <1>1, <3>1, <3>4, <4>2, <4>4
    <3> QED BY <1>1, <1>12, <3>2, <3>3, <3>4
  <2> QED BY <2>2, <2>3, <2>4, <2>5, <2>6, <2>7, <2>8 DEF Data, Stage
<1>14. Ended(d, T, K)
  <2>1. "SENTFIN" \in c.flags => d.max = c.max /\ "SENTFIN" \in d.flags
    BY <1>2, <1>6, <1>13 DEF Data, Stage
  <2> QED BY <1>6, <1>7, <1>10, <2>1 DEF Data, Ended, S, U
<1>15. Carries(m, U, Sink(c), T)
  <2>1. /\ m.flags = flags /\ m.len = len /\ m.ack = c.r.nxt /\ m.sack = sack
        /\ len > 0 \/ Fin => m.seq = n
    BY DEF m, SegmentOf, SegSeq, n
  <2>2. len > 0 \/ Fin => ~Syn /\ "RST" \notin flags /\ "ACK" \in flags
    BY <1>4 DEF Handshaking, Finishing
  <2>3. len > 0 => Aligned(U, m)
    <3>1. len > 0 => Aligned(U, [seq |-> c.nxt, len |-> len])
      BY <1>7, <1>10 DEF Flow
    <3>2. len > 0 => m.seq = c.nxt /\ m.len = len
      BY <1>3, <2>1, <2>2
    <3> QED BY <3>1, <3>2 DEF Aligned, Apart
  <2>4. Fin => U.told /\ m.seq + m.len = U.seq
    BY <1>3, <1>7, <1>8, <2>1
  <2>5. c.r.nxt <= Sink(c).nxt /\ (c.r.nxt <= Sink(c).n + 1 \/ Full(T, Sink(c)))
    <3>1. Sink(c).nxt \in Nat /\ Sink(c).n \in Nat
      BY <1>7 DEF Sinks
    <3> QED BY <1>7, <3>1 DEF Data, Flow
  <2> QED BY <2>1, <2>2, <2>3, <2>4, <2>5 DEF Carries
<1>16. Says(d, T)
  <2>1. SrcGrows(T, T) /\ SnkGrows(Sink(c), Sink(c)) /\ Flow(T, Sink(c))
    BY <1>7, GrowsTrans DEF Data
  <2>2. \A i \in 1 .. Len(c.out) : Carries(c.out[i], U, Sink(c), T)
    <3> TAKE i \in 1 .. Len(c.out)
    <3>1. c.out[i] \in Datagram /\ Carries(c.out[i], S, Sink(c), T)
      BY <1>1, CbNumbers, ElementOfSeq DEF Data, Says, S
    <3> QED BY <1>7, <1>10, <2>1, <3>1, CarriesGrows
  <2>3. c.out \in Seq(Datagram) /\ m \in Datagram
    BY <1>1, <1>2, CbNumbers
  <2>4. \A i \in 1 .. Len(d.out) : Carries(d.out[i], U, Sink(c), T)
    BY <1>2, <1>15, <2>2, <2>3, AppendProperties
  <2> QED BY <1>7, <2>4 DEF Says, U
<1>17. Calm(c, d)
  BY <1>2, <1>6, <1>7 DEF Calm
<1>18. Adds(c, d)
  <2>1. Len(c.r.got) <= Len(d.r.got)
    <3>1. Len(c.r.got) \in Nat
      BY <1>1, LenProperties DEF Cb, Half
    <3> QED BY <1>2, <3>1
  <2>2. Dead(c) => d.sbseq = c.sbseq /\ d.told = c.told
    BY DEF Dead
  <2> QED BY <1>1, <1>2, <1>10, <1>17, <2>1, <2>2, CalmAdds DEF S, U
<1>19. c.st \in Handshaking => d.nxt = d.max
  BY <1>1, <1>2, <1>3, <1>4, <1>5 DEF Greatest
<1> QED BY <1>2, <1>10, <1>11, <1>13, <1>14, <1>16, <1>17, <1>18, <1>19
     DEF Glides, Moves, Data, U, d

----------------------------------------------------------------------------
(* One call of output(). *)

\* What is alike twice is alike; so is what differs in the send side alone.
LEMMA AlikeTrans ==
  ASSUME NEW c, NEW d, NEW e
  PROVE  /\ Alike(c, d) /\ Alike(d, e) => Alike(c, e)
         /\ Same(c, d) => Alike(c, d) /\ d.sb = c.sb /\ d.nxt = c.nxt
         /\ Steady(c, d) => Alike(c, d)
BY DEF Alike, Same, Steady

\* The same packets with other marks are cut in the same way.
LEMMA CutsMarked ==
  ASSUME NEW c, NEW d, \A p \in c.sb : \E q \in d.sb : q.seq = p.seq /\ q.len = p.len,
         \A q \in d.sb : \E p \in c.sb : q.seq = p.seq /\ q.len = p.len
  PROVE  Cuts(d) = Cuts(c)
<1>1. ASSUME NEW s \in Cuts(c)
      PROVE  s \in Cuts(d)
  <2>1. PICK p \in c.sb : s = [seq |-> p.seq, len |-> p.len]
    BY DEF Cuts
  <2>2. PICK q \in d.sb : q.seq = p.seq /\ q.len = p.len
    BY <2>1
  <2> QED BY <2>1, <2>2 DEF Cuts
<1>2. ASSUME NEW s \in Cuts(d)
      PROVE  s \in Cuts(c)
  <2>1. PICK q \in d.sb : s = [seq |-> q.seq, len |-> q.len]
    BY DEF Cuts
  <2>2. PICK p \in c.sb : q.seq = p.seq /\ q.len = p.len
    BY <2>1
  <2> QED BY <2>1, <2>2 DEF Cuts
<1> QED BY <1>1, <1>2

\* enter_persist leaves the streams alone.
LEMMA EnterPersistAlike ==
  ASSUME NEW c \in Cb, NEW d, d = EnterPersist(c), ~c.rexmt
  PROVE  Alike(c, d) /\ d.sb = c.sb /\ d.nxt = c.nxt
<1> DEFINE x == Assert_(c, "enter_persist", ~c.rexmt)
           k == Least(x.shift + 1, MaxRxtShift)
<1>1. x = c
  BY DEF Assert_
<1>2. d = [x EXCEPT !.persist = TRUE, !.shift = k]
  BY DEF EnterPersist
<1> HIDE DEF x, k
<1>3. d = [c EXCEPT !.persist = TRUE, !.shift = k]
  BY <1>1, <1>2
<1>4. /\ d.st = c.st /\ d.err = c.err /\ d.max = c.max /\ d.up = c.up /\ d.ops = c.ops
      /\ d.sbseq = c.sbseq /\ d.told = c.told /\ d.out = c.out /\ d.r = c.r
      /\ d.flags = c.flags /\ d.sb = c.sb /\ d.nxt = c.nxt
  BY <1>3 DEF Cb
<1> QED BY <1>4 DEF Alike

\* From "again:" on: during the handshake a segment is always sent.
LEMMA OutputLenGlides ==
  ASSUME NEW P \in Peers, NEW T \in Sources, NEW K \in Sinks, NEW c, Kept(c, P), Data(c, T, K),
         c.st \notin {"CLOSED", "LISTEN"}, NEW u \in Inputs, NEW can \in Nat,
         NEW len \in Nat, len = 0 => c.nxt <= c.max,
         len > 0 => c.st \notin Handshaking /\ [seq |-> c.nxt, len |-> len] \in Cuts(c)
  PROVE  LET d == OutputLen(c, u, can, len)
         IN  Glides(c, d.c, T, K) /\ (c.st \in Handshaking => d.c.nxt = d.c.max)
<1> DEFINE flags == FlagsFor(c, len)
           raw == IF len > 0 THEN u.junk ELSE Acc(c.r)
           sack == IF "ACK" \in flags THEN SackBlocks(c.r.reasm) ELSE {}
           d == OutputLen(c, u, can, len)
<1>1. /\ c \in Cb /\ c.r \in Half /\ P.max \in Nat /\ c.nxt \in Nat /\ c.max \in Nat
      /\ c.sbseq \in Nat /\ c.ops \in Seq(Nat) /\ c.st \in States
  BY CbNumbers DEF Kept, Peers
<1>2. Fitting(c, flags)
  BY <1>1, FlagsForFits
<1>3. raw \in Int
  <2>1. u.junk \in Int /\ Len(c.r.q) \in Nat
    BY <1>1, LenProperties DEF Half, Inputs
  <2> QED BY <2>1, RcvBufAssumption DEF Acc
<1>4. /\ sack \in SUBSET (Nat \X Nat)
      /\ \A b \in sack : \A x \in b[1] .. b[2] - 1 : HasByte(Sink(c), x)
  <2>1. c.r.reasm \in SUBSET Packet /\ \A p \in c.r.reasm : p.seq + p.len <= P.max
    BY <1>1 DEF Half, Kept, Heard
  <2>2. SackBlocks(c.r.reasm) \in SUBSET (Nat \X Nat)
    BY <1>1, <2>1, SackBlocksEnd
  <2>3. \A b \in SackBlocks(c.r.reasm) : \A x \in b[1] .. b[2] - 1 : Held(c.r.reasm, x)
    BY <1>1, <2>1, SackBlocksHeld
  <2>4. Sink(c).reasm = c.r.reasm
    BY <1>1, PartTypes
  <2> QED BY <2>2, <2>3, <2>4 DEF HasByte
<1>5. "FIN" \in flags => Pending(c) = 0 /\ c.sbseq <= c.nxt + len
  <2>1. SUFFICES ASSUME "FIN" \in flags
                 PROVE  Pending(c) = 0 /\ c.sbseq <= c.nxt + len
    OBVIOUS
  <2>2. Pending(c) \in Nat /\ (NoOps(c) => Pending(c) = 0)
    BY <1>1, PendingFacts
  <2>3. ~(c.nxt + len < c.sbseq + Pending(c)) /\ c.st \in Finishing
    BY <1>2, <2>1 DEF FlagsFor, Fitting
  <2>4. c.nxt + len <= c.sbseq \/ NoOps(c)
    <3>1. CASE len > 0
      <4>1. Aligned(Source(c), [seq |-> c.nxt, len |-> len])
        BY <1>1, <3>1, PartTypes DEF Data, Flow
      <4> QED BY <1>1, <4>1, PartTypes DEF Aligned
    <3>2. CASE len = 0
      <4>1. c.sbseq >= 1
        BY <1>1, <2>3 DEF Data, Stage, Finishing, Opening
      <4> QED BY <1>1, <3>2, <4>1 DEF Data, Stage
    <3> QED BY <3>1, <3>2
  <2> QED BY <1>1, <2>2, <2>3, <2>4
<1>6. c.st # "SYN_SENT" => "ACK" \in flags
  BY <1>1, FlagsForAck
<1>7. CASE MustSend(c, flags, len)
  <2>1. d.c = SendSegment(c, u, flags, len, raw, sack)
    BY <1>7 DEF OutputLen
  <2> HIDE DEF flags, raw, sack, d
  <2> QED BY <1>2, <1>3, <1>4, <1>5, <1>6, <2>1, SendSegmentGlides DEF d
<1>8. CASE ~MustSend(c, flags, len)
  <2>1. d.c = IF CanPersist(c) THEN EnterPersist([c EXCEPT !.shift = 0]) ELSE c
    BY <1>8 DEF OutputLen
  <2>2. c.st \notin Handshaking
    BY <1>2, <1>8 DEF MustSend, Fitting
  <2>3. d.c \in Cb
    BY OutputLenKeeps DEF Good, Kept
  <2> HIDE DEF d
  <2>4. CASE CanPersist(c)
    <3> DEFINE a == [c EXCEPT !.shift = 0]
    <3>1. a \in Cb /\ Same(c, a)
      <4>1. 0 \in 0 .. MaxRxtShift
        BY CbAssumption
      <4>2. a \in Cb
        BY <1>1, <4>1 DEF Cb
      <4> QED BY <1>1, <4>2 DEF Cb, Same
    <3>2. d.c = EnterPersist(a) /\ ~a.rexmt
      BY <2>1, <2>4, <3>1 DEF CanPersist, Same
    <3> HIDE DEF a
    <3>3. Alike(a, d.c) /\ d.c.sb = a.sb
      BY <3>1, <3>2, EnterPersistAlike
    <3>4. Alike(c, d.c) /\ d.c.sb = c.sb
      BY <3>1, <3>3, AlikeTrans
    <3>5. Cuts(d.c) = Cuts(c)
      BY <3>4 DEF Cuts
    <3> QED BY <1>1, <2>2, <2>3, <3>4, <3>5, AlikeGlides DEF d
  <2>5. CASE ~CanPersist(c)
    BY <1>1, <2>1, <2>2, <2>5, GlidesTrans DEF d
  <2> QED BY <2>4, <2>5
<1> QED BY <1>7, <1>8

\* get_snd_pkt: the packet chosen starts at snd_nxt.
LEMMA ChoosePktGlides ==
  ASSUME NEW P \in Peers, NEW T \in Sources, NEW K \in Sinks, NEW c, Good(c, P), Data(c, T, K),
         NEW u \in Inputs, NEW p \in c.sb, p.seq >= c.nxt, ~p.rx
  PROVE  LET d == ChoosePkt(c, u, p)
         IN  Glides(c, d, T, K) /\ [seq |-> d.nxt, len |-> p.len] \in Cuts(d)
<1> DEFINE b == GetSndPkt(c, p)
           d == ChoosePkt(c, u, p)
           ok == p.seq < c.max => p.seq + p.len <= c.max /\ p.seq # 0
           a == Assert_(c, "get_snd_pkt", ok)
           q == [p EXCEPT !.rx = TRUE]
<1>1. c \in Cb /\ p \in Pkt /\ q.seq = p.seq /\ q.len = p.len /\ c.sb \in SUBSET Pkt
  <2>1. c \in Cb /\ c.sb \in SUBSET Pkt
    BY CbNumbers DEF Good, Kept
  <2> QED BY <2>1 DEF Pkt
<1>2. a \in Cb /\ Same(c, a)
  <2>1. ok \in BOOLEAN /\ "get_snd_pkt" \notin {"enter_persist", "check_rexmt_data"}
    OBVIOUS
  <2>2. a = Assert_(c, "get_snd_pkt", ok) /\ "get_snd_pkt" \in Asserts
    BY DEF Asserts
  <2> HIDE DEF ok, a
  <2> QED BY <1>1, <2>1, <2>2, AssertKeeps
<1>3. Kept(b, P) /\ b \in Cb /\ Kept(d, P) /\ d \in Cb /\ d.nxt = p.seq
  BY GetSndPktKeeps, ChoosePktKeeps DEF Kept
<1>4. b = IF p.seq < c.max
          THEN [a EXCEPT !.nxt = p.seq, !.retrans = @ + p.len, !.sb = (@ \ {p}) \cup {q}]
          ELSE [a EXCEPT !.nxt = p.seq]
  BY DEF GetSndPkt
<1>5. d = IF u.force THEN b ELSE LeavePersist(b)
  BY DEF ChoosePkt
<1> HIDE DEF a, b, d, q
<1>6. Alike(a, b)
  <2>1. /\ b.st = a.st /\ b.err = a.err /\ b.max = a.max /\ b.up = a.up /\ b.ops = a.ops
        /\ b.sbseq = a.sbseq /\ b.told = a.told /\ b.out = a.out /\ b.r = a.r
        /\ b.flags = a.flags
    BY <1>2, <1>4 DEF Cb
  <2> QED BY <2>1 DEF Alike
<1>7. b.sb = a.sb \/ b.sb = (a.sb \ {p}) \cup {q}
  BY <1>2, <1>4 DEF Cb
<1>8. Cuts(b) = Cuts(c)
  <2>1. a.sb = c.sb
    BY <1>2 DEF Same
  <2>2. \A o \in c.sb : \E x \in b.sb : x.seq = o.seq /\ x.len = o.len
    BY <1>1, <1>7, <2>1
  <2>3. \A x \in b.sb : \E o \in c.sb : x.seq = o.seq /\ x.len = o.len
    BY <1>1, <1>7, <2>1
  <2> QED BY <2>2, <2>3, CutsMarked
<1>9. Alike(b, d) /\ d.sb = b.sb
  <2>1. CASE d = b
    BY <2>1 DEF Alike
  <2>2. CASE d # b
    <3>1. d = [b EXCEPT !.persist = FALSE, !.shift = d.shift]
      BY <1>3, <1>5, <2>2, LeavePersistKeeps
    <3>2. /\ d.st = b.st /\ d.err = b.err /\ d.max = b.max /\ d.up = b.up /\ d.ops = b.ops
          /\ d.sbseq = b.sbseq /\ d.told = b.told /\ d.out = b.out /\ d.r = b.r
          /\ d.flags = b.flags /\ d.sb = b.sb
      BY ZenonT(40), <1>3, <3>1 DEF Cb
    <3> QED BY <3>2 DEF Alike
  <2> QED BY <2>1, <2>2
<1>10. Alike(c, d) /\ Cuts(d) = Cuts(c)
  <2>1. Alike(c, a)
    BY <1>2, AlikeTrans
  <2>2. Alike(c, b)
    BY <1>6, <2>1, AlikeTrans
  <2>3. Cuts(d) = Cuts(b)
    BY <1>9 DEF Cuts
  <2> QED BY <1>8, <1>9, <2>2, <2>3, AlikeTrans
<1>11. Glides(c, d, T, K)
  BY <1>1, <1>3, <1>10, AlikeGlides
<1>12. [seq |-> p.seq, len |-> p.len] \in Cuts(c)
  BY DEF Cuts
<1> QED BY <1>3, <1>10, <1>11, <1>12 DEF d

\* One packet, or none.
LEMMA OutputPktGlides ==
  ASSUME NEW P \in Peers, NEW T \in Sources, NEW K \in Sinks, NEW c, Good(c, P), Data(c, T, K),
         c.st \notin {"CLOSED", "LISTEN"}, NEW u \in Inputs, NEW can \in Nat
  PROVE  LET d == OutputPkt(c, u, can)
         IN  Glides(c, d.c, T, K) /\ (c.st \in Handshaking => d.c.nxt = d.c.max)
<1> DEFINE pkts == IF can >= MaxSeg THEN SndPkt(c, can) ELSE {}
           p == CHOOSE x \in pkts : TRUE
           d == OutputPkt(c, u, can)
<1>1. c \in Cb /\ c.sb \in SUBSET Pkt
  BY CbNumbers DEF Good, Kept
<1>2. CASE pkts = {}
  <2> DEFINE b == NoPkt(c, can)
             none == 0
  <2>1. d = OutputLen(b, u, can, none)
    BY <1>2 DEF OutputPkt
  <2>2. Good(b, P) /\ OutFrame(c, b)
    BY NoPktKeeps
  <2>3. Kept(b, P) /\ b.nxt <= b.max /\ b \in Cb
    BY <2>2 DEF Good, Kept
  <2>4. Alike(c, b) /\ b.sb = c.sb
    <3>1. CASE b = c
      BY <3>1 DEF Alike
    <3>2. CASE b # c
      <4>1. b = [c EXCEPT !.nxt = c.una, !.rexmt = FALSE]
        BY <3>2 DEF NoPkt
      <4> HIDE DEF b
      <4>2. /\ b.st = c.st /\ b.err = c.err /\ b.max = c.max /\ b.up = c.up /\ b.ops = c.ops
            /\ b.sbseq = c.sbseq /\ b.told = c.told /\ b.out = c.out /\ b.r = c.r
            /\ b.flags = c.flags /\ b.sb = c.sb
        BY <1>1, <4>1 DEF Cb
      <4> QED BY <4>2 DEF Alike
    <3> QED BY <3>1, <3>2
  <2> HIDE DEF b, d
  <2>5. Glides(c, b, T, K)
    <3>1. Cuts(b) = Cuts(c)
      BY <2>4 DEF Cuts
    <3> QED BY <1>1, <2>3, <2>4, <3>1, AlikeGlides
  <2>6. b.st = c.st /\ Data(b, T, K)
    BY <2>5 DEF Glides, Moves, Calm
  <2>7. /\ none \in Nat /\ (none = 0 => b.nxt <= b.max) /\ b.st \notin {"CLOSED", "LISTEN"}
        /\ none > 0 => b.st \notin Handshaking /\ [seq |-> b.nxt, len |-> none] \in Cuts(b)
    BY <2>3, <2>6
  <2> HIDE DEF none
  <2>8. LET x == OutputLen(b, u, can, none)
        IN  Glides(b, x.c, T, K) /\ (b.st \in Handshaking => x.c.nxt = x.c.max)
    BY <2>3, <2>6, <2>7, OutputLenGlides
  <2> QED BY <1>1, <2>1, <2>3, <2>5, <2>6, <2>8, GlidesTrans DEF d
<1>3. CASE pkts # {}
  <2>1. p \in pkts /\ pkts = SndPkt(c, can)
    BY <1>3
  <2> HIDE DEF p, pkts
  <2>2. p \in c.sb /\ p.seq >= c.nxt /\ ~p.rx
    BY <2>1 DEF SndPkt, FirstOf
  <2>3. p.len \in Nat /\ p.len > 0
    BY <1>1, <2>2, RcvBufAssumption DEF Pkt
  <2>4. c.st \notin Handshaking
    BY <2>2 DEF Good, Kept, Phased
  <2> DEFINE b == ChoosePkt(c, u, p)
             len == p.len
  <2>5. d = OutputLen(b, u, can, len)
    BY <1>3 DEF OutputPkt, p, pkts
  <2>6. Kept(b, P) /\ b \in Cb
    BY <2>2, ChoosePktKeeps DEF Kept
  <2>7. Glides(c, b, T, K) /\ [seq |-> b.nxt, len |-> len] \in Cuts(b)
    BY <2>2, ChoosePktGlides
  <2> HIDE DEF b, d, len
  <2>8. b.st = c.st /\ Data(b, T, K)
    BY <2>7 DEF Glides, Moves, Calm
  <2>9. len \in Nat /\ (len = 0 => b.nxt <= b.max)
    BY <2>3 DEF len
  <2>10. Glides(b, d.c, T, K)
    BY <2>4, <2>5, <2>6, <2>7, <2>8, <2>9, OutputLenGlides
  <2> QED BY <1>1, <2>4, <2>6, <2>7, <2>10, GlidesTrans DEF d
<1> QED BY <1>2, <1>3

\* One round.
LEMMA OutputRoundGlides ==
  ASSUME NEW P \in Peers, NEW T \in Sources, NEW K \in Sinks, NEW c, Good(c, P), Data(c, T, K),
         c.st \notin {"CLOSED", "LISTEN"}, NEW u \in Inputs
  PROVE  LET d == OutputRound(c, u)
         IN  Glides(c, d.c, T, K) /\ (c.st \in Handshaking => d.c.nxt = d.c.max)
<1> DEFINE can == CanSendBytes(c)
           room == c.sbseq < can + c.nxt \/ c.sb = {}
           b == IF Pending(c) > 0 /\ room THEN ConsumePendingData(c) ELSE c
           most == IF u.force THEN Greatest(can, MaxSeg) ELSE can
           d == OutputRound(c, u)
<1>1. c \in Cb
  BY DEF Good, Kept
<1>2. can \in Nat /\ most \in Nat
  <2>1. can \in Nat
    BY <1>1, CbNumbers DEF CanSendBytes, Inflight, Greatest, Least
  <2> HIDE DEF can
  <2> QED BY <2>1, RcvBufAssumption DEF Greatest
<1>3. Good(b, P) /\ Glides(c, b, T, K)
  BY <1>1, ConsumeKeeps, ConsumeGlides, GlidesTrans
<1>4. d = OutputPkt(b, u, most)
  BY DEF OutputRound
<1> HIDE DEF b, most, d
<1>5. b.st = c.st /\ Data(b, T, K) /\ b \in Cb
  BY <1>3 DEF Glides, Moves, Calm
<1>6. Glides(b, d.c, T, K) /\ (b.st \in Handshaking => d.c.nxt = d.c.max)
  BY <1>2, <1>3, <1>4, <1>5, OutputPktGlides
<1> QED BY <1>1, <1>3, <1>5, <1>6, GlidesTrans DEF d

\* The rounds of one call: the first of them sends the SYN of a handshake.
LEMMA OutputRoundsGlides ==
  ASSUME NEW P \in Peers, NEW T \in Sources, NEW K \in Sinks, NEW c, Good(c, P), Data(c, T, K),
         c.st \notin {"CLOSED", "LISTEN"}, NEW u \in Inputs
  PROVE  LET d == OutputRounds(c, u)
         IN  Glides(c, d, T, K) /\ (c.st \in Handshaking => d.nxt = d.max)
<1> DEFINE N == SendClamp
           next(d) == IF d.more THEN OutputRound(d.c, u) ELSE d
           step(f, k) == IF k = 0 THEN [more |-> TRUE, c |-> c] ELSE next(f[k - 1])
           Fits(n) == \E f : f = [k \in 0 .. n |-> step(f, k)]
           W == {n \in 0 .. N : Fits(n)}
           after == CHOOSE f : f = [k \in 0 .. N |-> step(f, k)]
           Fine(d) == Good(d.c, P) /\ Glides(c, d.c, T, K)
           Sure(d) == d.more \/ (c.st \in Handshaking => d.c.nxt = d.c.max)
           Even(d) == c.st \in Handshaking => d.c.nxt = d.c.max
<1>1. c \in Cb /\ N \in Nat \ {0}
  BY CbAssumption DEF Good, Kept
<1>2. Fits(N)
  <2>1. Fits(0)
    <3> DEFINE f == [k \in 0 .. 0 |-> [more |-> TRUE, c |-> c]]
    <3>1. f = [k \in 0 .. 0 |-> step(f, k)]
      OBVIOUS
    <3> QED BY <3>1
  <2>2. ASSUME NEW n \in 1 .. N, Fits(n - 1)
        PROVE  Fits(n)
    <3>1. PICK f : f = [k \in 0 .. n - 1 |-> step(f, k)]
      BY <2>2
    <3> DEFINE g == [k \in 0 .. n |-> step(f, k)]
    <3>2. \A k \in 0 .. n - 1 : g[k] = f[k]
      BY <3>1
    <3>3. \A k \in 0 .. n : k # 0 => k - 1 \in 0 .. n - 1
      OBVIOUS
    <3> HIDE DEF g, next
    <3>4. \A k \in 0 .. n : step(f, k) = step(g, k)
      BY <3>2, <3>3
    <3>5. g = [k \in 0 .. n |-> step(g, k)]
      BY <3>4 DEF g
    <3> QED BY <3>5
  <2> HIDE DEF Fits
  <2>3. W \in SUBSET (0 .. N) /\ 0 \in W /\ \A k \in 1 .. N : k - 1 \in W => k \in W
    BY <1>1, <2>1, <2>2
  <2>4. N \in W
    BY <1>1, <2>3, ChainKeeps
  <2> QED BY <2>4
<1>3. after = [k \in 0 .. N |-> step(after, k)]
  BY <1>2
<1>4. OutputRounds(c, u) = after[N].c
  BY DEF OutputRounds
<1> DEFINE V == {k \in 0 .. N : Fine(after[k]) /\ (k = 0 => after[k].more) /\ (k > 0 => Even(after[k]))}
<1> HIDE DEF after
<1>5. 0 \in V
  <2>1. after[0] = [more |-> TRUE, c |-> c]
    BY <1>1, <1>3
  <2>2. Glides(c, c, T, K)
    BY <1>1, GlidesTrans
  <2>3. Fine(after[0]) /\ after[0].more
    BY <2>1, <2>2
  <2> HIDE DEF Fine, Even
  <2> QED BY <1>1, <2>3
<1>6. ASSUME NEW k \in 1 .. N, k - 1 \in V
      PROVE  k \in V
  <2> DEFINE b == after[k - 1]
             bc == b.c
             d == after[k]
  <2>1. d = IF b.more THEN OutputRound(bc, u) ELSE b
    <3>1. k \in 0 .. N /\ k # 0
      OBVIOUS
    <3>2. after[k] = step(after, k)
      BY <1>3, <3>1
    <3>3. step(after, k) = next(after[k - 1])
      BY <3>1
    <3> QED BY <3>2, <3>3
  <2>2. Good(bc, P) /\ Glides(c, bc, T, K) /\ (~b.more => Even(b))
    BY <1>1, <1>6
  <2> HIDE DEF b, d, bc
  <2>3. Fine(d) /\ Even(d)
    <3>1. CASE b.more
      <4>1. d = OutputRound(bc, u) /\ bc \in Cb /\ bc.st = c.st /\ Data(bc, T, K)
        BY <2>1, <2>2, <3>1 DEF Glides, Moves, Calm
      <4>2. Good(d.c, P)
        BY <2>2, <4>1, OutputRoundKeeps
      <4>3. Glides(bc, d.c, T, K) /\ (c.st \in Handshaking => d.c.nxt = d.c.max)
        BY <2>2, <4>1, OutputRoundGlides
      <4>4. Glides(c, d.c, T, K)
        BY <1>1, <2>2, <4>1, <4>3, GlidesTrans
      <4> QED BY <4>2, <4>3, <4>4
    <3>2. CASE ~b.more
      BY <2>1, <2>2, <3>2 DEF bc
    <3> QED BY <3>1, <3>2
  <2> HIDE DEF Fine, Even
  <2> QED BY <1>1, <2>3 DEF d
<1>7. N \in V
  BY <1>1, <1>5, <1>6, ChainKeeps
<1>8. Fine(after[N]) /\ Even(after[N])
  BY <1>1, <1>7
<1> QED BY <1>4, <1>8

\* During a handshake nothing but the SYN is out: an end never waits with
\* m_snd_nxt behind m_snd_max.
Level(c) == c.st \in Handshaking => c.nxt = c.max

\* output() moves no stream but by cutting what is queued into packets.
LEMMA OutputGlides ==
  ASSUME NEW P \in Peers, NEW T \in Sources, NEW K \in Sinks, NEW c, Good(c, P), Data(c, T, K),
         c.st # "LISTEN", NEW u \in Inputs
  PROVE  LET d == Output(c, u)
         IN  Glides(c, d, T, K) /\ Level(d)
<1> DEFINE b == IF c.max = c.una /\ u.idle THEN SlowStart(c) ELSE c
           ok == u.force => b.una = b.nxt
           a == Assert_(b, "force_output", ok)
           d == Output(c, u)
<1>1. /\ c \in Cb /\ c.max \in Nat /\ c.nxt \in Nat /\ c.fack \in Nat /\ c.retrans \in Int
      /\ MinCwnd \in Nat \ {0}
  BY CbNumbers, MinCwndType DEF Good, Kept
<1>2. b \in Cb /\ Same(c, b)
  <2>1. CASE b = c
    BY <2>1, <1>1 DEF Same
  <2>2. CASE b # c
    <3> DEFINE w == MinCwnd + Inflight(c)
    <3>1. w \in Nat \ {0}
      BY <1>1 DEF Inflight, Greatest
    <3>2. b = [c EXCEPT !.cwnd = w]
      BY <2>2 DEF SlowStart
    <3> HIDE DEF b, w
    <3>3. b \in Cb /\ b.cwnd = w
      BY ZenonT(40), <1>1, <3>1, <3>2 DEF Cb
    <3>4. Same(c, b)
      BY <1>1, <3>2 DEF Cb, Same
    <3> QED BY <3>3, <3>4 DEF b
  <2> QED BY <2>1, <2>2
<1> HIDE DEF b
<1>3. a \in Cb /\ Same(b, a)
  <2>1. ok \in BOOLEAN /\ "force_output" \in Asserts
        /\ "force_output" \notin {"enter_persist", "check_rexmt_data"}
    BY DEF Asserts
  <2>2. a = Assert_(b, "force_output", ok)
    OBVIOUS
  <2> HIDE DEF ok, a
  <2> QED BY <1>2, <2>1, <2>2, AssertKeeps
<1>4. CASE c.st = "CLOSED"
  <2>1. d = c
    BY <1>4 DEF Output
  <2> QED BY <1>1, <1>4, <2>1, GlidesTrans DEF Level, Handshaking
<1>5. CASE c.st # "CLOSED"
  <2>1. d = OutputRounds(a, u)
    BY <1>5 DEF Output, b
  <2> HIDE DEF a, d
  <2>2. Good(b, P) /\ Glides(c, b, T, K)
    BY <1>1, <1>2, SameGood, SameGlides
  <2>3. Data(b, T, K)
    BY <2>2 DEF Glides, Moves
  <2>4. Good(a, P) /\ Glides(b, a, T, K)
    BY <1>2, <1>3, <2>2, <2>3, SameGood, SameGlides
  <2>5. Data(a, T, K) /\ a.st = c.st
    BY <2>2, <2>4 DEF Glides, Moves, Calm
  <2>6. Glides(a, d, T, K) /\ (a.st \in Handshaking => d.nxt = d.max)
    BY <1>5, <2>1, <2>4, <2>5, OutputRoundsGlides
  <2>7. Glides(c, d, T, K)
    BY <1>1, <1>2, <1>3, <2>2, <2>4, <2>6, GlidesTrans
  <2>8. d.st = a.st
    BY <2>6 DEF Glides, Calm
  <2> QED BY <2>6, <2>7, <2>8 DEF Level, d
<1> QED BY <1>4, <1>5

----------------------------------------------------------------------------
(* What has arrived. *)

\* Packets are taken from a queue R that holds the old one: rcv_nxt moves to
\* the first byte that no packet of R has.
LEMMA AbsorbFlow ==
  ASSUME NEW T \in Sources, NEW K \in Sinks, NEW L \in Sinks, Flow(T, K), K.nxt >= 1,
         NEW R \in SUBSET Packet, K.reasm \subseteq R, \A h \in R : PieceOf(T, h),
         NEW e \in Nat, IsFrontier(R, K.nxt, e),
         L.reasm \subseteq R, L.nxt = e, L.n = K.n + (e - K.nxt),
         \A h \in R \ L.reasm : h.seq + h.len <= e,
         L.fin # "none" => L.fin = K.fin \/ \E h \in R : h.fin /\ h.seq + h.len <= e
  PROVE  /\ Flow(T, L) /\ SnkGrows(K, L) /\ (Full(T, K) => Full(T, L))
         /\ e = K.nxt \/ K.nxt = K.n + 1
<1>1. /\ K.n \in Nat /\ K.nxt \in Nat /\ L.n \in Nat /\ T.seq \in Nat
      /\ K.n = 0 \/ K.n < T.seq
      /\ \A h \in R : h.seq \in Nat /\ h.len \in Nat
      /\ \A p \in T.cuts : p.seq \in Nat /\ p.len \in Nat /\ p.len >= 1
  BY RcvBufAssumption DEF Sources, Slices, Sinks, Packet, Flow
<1>2. /\ e >= K.nxt /\ ~ \E h \in R : Holds(h, e)
      /\ \A b \in K.nxt .. e - 1 : \E h \in R : Holds(h, b)
  BY DEF IsFrontier
<1>3. \A h \in R : h.len > 0 => Aligned(T, h) /\ h.seq + h.len <= T.seq
  BY DEF PieceOf, Aligned
<1>4. e = K.nxt \/ (e > K.nxt /\ e <= T.seq)
  <2>1. K.nxt \in Nat /\ e >= K.nxt
    BY <1>1, <1>2
  <2>2. ASSUME e > K.nxt
        PROVE  e <= T.seq
    <3>1. e - 1 \in K.nxt .. e - 1
      BY <2>1, <2>2
    <3>2. PICK h \in R : Holds(h, e - 1)
      BY <1>2, <3>1
    <3> QED BY <1>1, <1>3, <3>2 DEF Holds
  <2> QED BY <2>1, <2>2
<1>5. K.nxt = K.n + 1 \/ (Full(T, K) /\ K.nxt > K.n + 1 /\ K.n + 1 = T.seq)
  BY DEF Flow, Full
<1>6. K.nxt > K.n + 1 => e = K.nxt
  BY <1>1, <1>4, <1>5
<1>7. /\ L.n >= K.n /\ (L.n = 0 \/ L.n < T.seq)
      /\ K.nxt = K.n + 1 => e = L.n + 1
      /\ Full(T, K) => L.n = K.n
  BY <1>1, <1>4, <1>5, <1>6 DEF Full
<1>8. Full(T, K) => Full(T, L)
  BY <1>7 DEF Full
<1>9. SnkGrows(K, L)
  <2>1. ASSUME NEW b \in Nat, Held(K.reasm, b)
        PROVE  HasByte(L, b)
    <3>1. PICK h \in R : Holds(h, b) /\ (h \in L.reasm \/ h.seq + h.len <= e)
      BY <2>1 DEF Held
    <3>2. CASE h \in L.reasm
      BY <3>1, <3>2 DEF HasByte, Held
    <3>3. CASE h.seq + h.len <= e
      <4>1. b < e /\ b < T.seq /\ h.len > 0
        BY <1>1, <1>3, <3>1, <3>3 DEF Holds
      <4>2. b <= L.n
        BY <1>1, <1>5, <1>7, <4>1
      <4> QED BY <4>2 DEF HasByte
    <3> QED BY <3>1, <3>2, <3>3
  <2>2. \A b \in Nat : HasByte(K, b) => HasByte(L, b)
    BY <1>7, <2>1, HasByteGrows
  <2> QED BY <1>1, <1>2, <1>7, <2>2 DEF SnkGrows
<1>10. \A b \in 1 .. T.seq - 1 : Held(T.cuts, b) \/ HasByte(L, b)
  <2> TAKE b \in 1 .. T.seq - 1
  <2>1. b \in Nat /\ (Held(T.cuts, b) \/ HasByte(K, b))
    BY <1>1 DEF Flow
  <2> QED BY <1>9, <2>1 DEF SnkGrows
<1>11. ASSUME NEW p \in T.cuts, p.seq <= L.n
       PROVE  p.seq + p.len <= L.n + 1
  <2>1. CASE p.seq <= K.n
    BY <1>1, <1>7, <2>1 DEF Flow
  <2>2. CASE p.seq > K.n
    <3>1. K.nxt = K.n + 1 /\ e = L.n + 1
      BY <1>1, <1>5, <1>7, <1>11, <2>2
    <3>2. p.seq \in K.nxt .. e - 1
      BY <1>1, <1>11, <2>2, <3>1
    <3>3. PICK h \in R : Holds(h, p.seq)
      BY <1>2, <3>2
    <3>4. h.len > 0 /\ h.seq \in Nat /\ h.len \in Nat
      BY <1>1, <3>3 DEF Holds
    <3>5. Apart(p, h)
      BY <1>3, <3>4 DEF Aligned
    <3>6. p.seq = h.seq /\ p.len = h.len
      BY <1>1, <3>3, <3>4, <3>5 DEF Apart, Holds
    <3>7. ~Holds(h, e)
      BY <1>2
    <3> QED BY <1>1, <1>11, <3>1, <3>4, <3>6, <3>7 DEF Holds
  <2> QED BY <1>1, <2>1, <2>2
<1>12. L.fin # "none" => Full(T, L)
  <2>1. CASE L.fin = K.fin
    BY <1>8, <2>1 DEF Flow
  <2>2. ASSUME NEW h \in R, h.fin, h.seq + h.len <= e
        PROVE  Full(T, L)
    <3>1. T.told /\ h.seq + h.len = T.seq /\ T.seq >= 1
      BY <2>2 DEF PieceOf, Flow
    <3>2. T.seq <= e
      BY <2>2, <3>1
    <3>3. CASE Full(T, K)
      BY <1>8, <3>3
    <3>4. CASE ~Full(T, K)
      <4>1. K.nxt = K.n + 1
        BY <1>5, <3>4
      <4>2. e = L.n + 1 /\ (L.n = 0 \/ L.n < T.seq) /\ L.n \in Nat /\ T.seq \in Nat
        BY <1>1, <1>7, <4>1
      <4>3. L.n + 1 = T.seq
        BY <3>1, <3>2, <4>2
      <4> QED BY <3>1, <4>3 DEF Full
    <3> QED BY <3>3, <3>4
  <2> QED BY <2>1, <2>2
<1>13. /\ L.nxt = 0 => L.n = 0
       /\ L.nxt >= 1 => L.nxt = L.n + 1 \/ (Full(T, L) /\ L.nxt > L.n + 1)
  BY <1>1, <1>2, <1>5, <1>6, <1>7, <1>8
<1>14. \A h \in L.reasm : PieceOf(T, h)
  OBVIOUS
<1>15. /\ T.told => T.seq >= 1
       /\ \A p \in T.cuts : Aligned(T, p)
  BY DEF Flow
<1>16. Flow(T, L)
  BY <1>7, <1>10, <1>11, <1>12, <1>13, <1>14, <1>15 DEF Flow
<1> QED BY <1>1, <1>5, <1>6, <1>8, <1>9, <1>16

\* The sink and the bytes of a receive half.
Got(r) == Len(r.got) + Len(r.q)
SinkOf(r) == [n |-> Got(r), nxt |-> r.nxt, reasm |-> r.reasm, fin |-> r.fin]
InOrder(r) == r.got \o r.q = Bytes(1, Got(r))

\* A step of the receive half of an end that receives T.
Takes(r, d, T) ==
  /\ d \in Half /\ d.got = r.got /\ Flow(T, SinkOf(d)) /\ InOrder(d)
  /\ SnkGrows(SinkOf(r), SinkOf(d)) /\ (Full(T, SinkOf(r)) => Full(T, SinkOf(d)))

\* The sink of an end is that of its receive half.
LEMMA SinkOfFacts ==
  /\ \A c : Sink(c) = SinkOf(c.r) /\ Arrived(c) = Got(c.r) /\ (Ordered(c) <=> InOrder(c.r))
  /\ \A r \in Half : /\ SinkOf(r) \in Sinks /\ Got(r) \in Nat
                     /\ Len(r.got) \in Nat /\ Len(r.q) \in Nat
                     /\ SinkOf(r).n = Got(r) /\ SinkOf(r).nxt = r.nxt
                     /\ SinkOf(r).reasm = r.reasm /\ SinkOf(r).fin = r.fin
<1>1. \A c : Sink(c) = SinkOf(c.r) /\ Arrived(c) = Got(c.r) /\ (Ordered(c) <=> InOrder(c.r))
  BY DEF Sink, SinkOf, Arrived, Got, Ordered, InOrder
<1>2. ASSUME NEW r \in Half
      PROVE  /\ SinkOf(r) \in Sinks /\ Got(r) \in Nat
             /\ Len(r.got) \in Nat /\ Len(r.q) \in Nat
  <2>1. /\ r.nxt \in Nat /\ r.reasm \in SUBSET Packet /\ r.fin \in {"none", "bare", "data"}
        /\ r.got \in Seq(Nat) /\ r.q \in Seq(Nat)
    BY DEF Half
  <2>2. Len(r.got) \in Nat /\ Len(r.q) \in Nat
    BY <2>1, LenProperties
  <2>3. \A i, j \in Nat : i + j \in Nat
    OBVIOUS
  <2>4. Got(r) \in Nat
    BY ONLY <2>2, <2>3 DEF Got
  <2> QED BY <2>1, <2>2, <2>4 DEF SinkOf, Sinks
<1> QED BY <1>1, <1>2 DEF SinkOf

\* The next k bytes are appended to what has arrived in order.
LEMMA AppendBytes ==
  ASSUME NEW r \in Half, NEW d, InOrder(r), NEW k \in Nat, k = 0 \/ r.nxt = Got(r) + 1,
         d.got = r.got, d.q = r.q \o Bytes(r.nxt, k)
  PROVE  InOrder(d) /\ Got(d) = Got(r) + k
<1> DEFINE a == r.got
           b == r.q
           t == Bytes(r.nxt, k)
           n == Got(r)
<1>1. a \in Seq(Nat) /\ b \in Seq(Nat) /\ r.nxt \in Nat
  BY DEF Half
<1>2. t \in Seq(Nat) /\ Len(t) = k
  BY <1>1, BytesType
<1>3. n \in Nat /\ n = Len(a) + Len(b) /\ Len(a) \in Nat /\ Len(b) \in Nat
  BY SinkOfFacts DEF Got
<1>4. a \o b = Bytes(1, n) /\ d.got = a /\ d.q = b \o t
  BY DEF InOrder
<1>5. Bytes(1, n) \o t = Bytes(1, n + k)
  <2>1. CASE r.nxt = n + 1
    <3>1. Bytes(1, n) \o Bytes(1 + n, k) = Bytes(1, n + k)
      <4> HIDE DEF n
      <4>1. 1 \in Nat
        OBVIOUS
      <4> QED BY <1>3, <4>1, BytesConcat
    <3>2. 1 + n = r.nxt
      <4>1. \A i \in Nat : 1 + i = i + 1
        OBVIOUS
      <4> QED BY ONLY <1>3, <2>1, <4>1
    <3> HIDE DEF n
    <3> QED BY <3>1, <3>2
  <2>2. CASE k = 0
    <3>1. Bytes(1, n) \o Bytes(1 + n, 0) = Bytes(1, n + 0)
      <4> DEFINE one == 1
                 zero == 0
      <4>1. one \in Nat /\ zero \in Nat /\ n \in Nat
        BY <1>3
      <4> HIDE DEF n, one, zero
      <4>2. Bytes(one, n) \o Bytes(one + n, zero) = Bytes(one, n + zero)
        BY ONLY <4>1, BytesConcat
      <4> QED BY <4>2 DEF one, zero
    <3>2. Bytes(1 + n, 0) = Bytes(r.nxt, 0)
      BY DEF Bytes
    <3> QED BY <1>3, <2>2, <3>1, <3>2
  <2> QED BY <2>1, <2>2
<1> HIDE DEF a, b, t, n
<1>6. a \o (b \o t) = Bytes(1, n + k)
  <2>1. (a \o b) \o t = a \o (b \o t)
    BY SMTT(60), <1>1, <1>2, ConcatAssociative
  <2> QED BY <1>4, <1>5, <2>1
<1>7. Len(b \o t) = Len(b) + k
  BY <1>1, <1>2, ConcatProperties
<1>8. Got(d) = n + k
  <2>1. Got(d) = Len(a) + Len(b \o t)
    BY <1>4 DEF Got
  <2>2. \A i, j, m \in Nat : i + (j + m) = (i + j) + m
    OBVIOUS
  <2> QED BY ONLY <1>3, <1>7, <2>1, <2>2, k \in Nat
<1> QED BY <1>4, <1>6, <1>8 DEF InOrder, n

\* A receive half that is left alone, but for its ghost.
LEMMA TakesSame ==
  ASSUME NEW T \in Sources, NEW r \in Half, Flow(T, SinkOf(r)), InOrder(r), NEW d \in Half,
         d.got = r.got, d.q = r.q, d.nxt = r.nxt, d.reasm = r.reasm, d.fin = r.fin
  PROVE  Takes(r, d, T)
<1>1. SinkOf(d) = SinkOf(r) /\ (InOrder(d) <=> InOrder(r))
  BY DEF SinkOf, Got, InOrder
<1>2. SnkGrows(SinkOf(r), SinkOf(r))
  <2>1. SinkOf(r) \in Sinks
    BY SinkOfFacts
  <2> QED BY <2>1, GrowsTrans
<1> QED BY <1>1, <1>2 DEF Takes

\* A receive half takes packets from R up to the first hole.
LEMMA TakesUpTo ==
  ASSUME NEW T \in Sources, NEW r \in Half, Flow(T, SinkOf(r)), InOrder(r), r.nxt >= 1,
         NEW R \in SUBSET Packet, r.reasm \subseteq R, \A h \in R : PieceOf(T, h),
         NEW e \in Nat, IsFrontier(R, r.nxt, e),
         NEW d \in Half, d.got = r.got, d.q = r.q \o Bytes(r.nxt, e - r.nxt), d.nxt = e,
         d.reasm \subseteq R, \A h \in R \ d.reasm : h.seq + h.len <= e,
         d.fin # "none" => d.fin = r.fin \/ \E h \in R : h.fin /\ h.seq + h.len <= e
  PROVE  Takes(r, d, T)
<1> DEFINE K == SinkOf(r)
           L == SinkOf(d)
           k == e - r.nxt
<1>1. /\ K \in Sinks /\ K.n = Got(r) /\ K.nxt = r.nxt /\ K.reasm = r.reasm /\ K.fin = r.fin
      /\ L \in Sinks /\ L.n = Got(d) /\ L.nxt = d.nxt /\ L.reasm = d.reasm /\ L.fin = d.fin
      /\ Got(r) \in Nat /\ r.nxt \in Nat
  BY SinkOfFacts DEF Half
<1>2. k \in Nat
  BY <1>1 DEF IsFrontier
<1>3. k = 0 \/ r.nxt = Got(r) + 1
  <2>1. SUFFICES ASSUME k # 0
                 PROVE  r.nxt = Got(r) + 1
    OBVIOUS
  <2>2. e - 1 \in r.nxt .. e - 1
    BY <1>1, <1>2, <2>1
  <2>3. PICK h \in R : Holds(h, e - 1)
    BY <2>2 DEF IsFrontier
  <2>4. h.seq \in Nat /\ h.len \in Nat /\ PieceOf(T, h)
    BY DEF Packet
  <2>5. h.seq + h.len <= T.seq
    BY <1>1, <2>3, <2>4 DEF PieceOf, Aligned, Holds
  <2>6. r.nxt <= T.seq - 1 /\ T.seq \in Nat
    BY <1>1, <1>2, <2>1, <2>3, <2>4, <2>5 DEF Holds, Sources
  <2> QED BY <1>1, <2>6 DEF Flow, Full
<1>4. InOrder(d) /\ Got(d) = Got(r) + k
  BY <1>2, <1>3, AppendBytes
<1>5. /\ Flow(T, K) /\ K.nxt >= 1 /\ K.reasm \subseteq R /\ IsFrontier(R, K.nxt, e)
      /\ L.reasm \subseteq R /\ L.nxt = e /\ L.n = K.n + (e - K.nxt)
      /\ \A h \in R \ L.reasm : h.seq + h.len <= e
      /\ L.fin # "none" => L.fin = K.fin \/ \E h \in R : h.fin /\ h.seq + h.len <= e
  BY <1>1, <1>4
<1> HIDE DEF K, L, k
<1>6. Flow(T, L) /\ SnkGrows(K, L) /\ (Full(T, K) => Full(T, L))
  BY <1>1, <1>5, AbsorbFlow
<1> QED BY <1>4, <1>6 DEF Takes, K, L

\* No bytes.
LEMMA NoBytes ==
  ASSUME NEW q \in Seq(Nat), NEW a \in Nat
  PROVE  q \o Bytes(a, 0) = q
<1>1. Bytes(a, 0) \in Seq(Nat) /\ Len(Bytes(a, 0)) = 0
  <2> DEFINE z == 0
  <2>1. z \in Nat
    OBVIOUS
  <2> HIDE DEF z
  <2>2. Bytes(a, z) \in Seq(Nat) /\ Len(Bytes(a, z)) = z
    BY <2>1, BytesType
  <2> QED BY <2>2 DEF z
<1> DEFINE t == Bytes(a, 0)
<1>2. t \in Seq(Nat) /\ Len(t) = 0
  BY <1>1
<1> HIDE DEF t
<1>3. t = << >>
  BY <1>2, EmptySeq
<1> QED BY <1>3, ConcatEmptySeq DEF t

\* udt_buf::append of the packet that was expected.
LEMMA AppendPktTakes ==
  ASSUME NEW T \in Sources, NEW r \in Half, Flow(T, SinkOf(r)), InOrder(r), r.nxt >= 1,
         r.reasm = {}, NEW p \in Packet, p.seq = r.nxt, PieceOf(T, p),
         AppendPkt(r, p) \in Half
  PROVE  Takes(r, AppendPkt(r, p), T)
<1> DEFINE d == AppendPkt(r, p)
<1>0. r.nxt \in Nat /\ p.len \in Nat /\ p.fin \in BOOLEAN /\ r.q \in Seq(Nat)
  BY DEF Half, Packet
<1>1. CASE p.len > Acc(r)
  <2>1. d = [r EXCEPT !.ok = FALSE]
    BY <1>1 DEF AppendPkt
  <2> HIDE DEF d
  <2>2. d.got = r.got /\ d.q = r.q /\ d.nxt = r.nxt /\ d.reasm = r.reasm /\ d.fin = r.fin
    BY <2>1 DEF Half
  <2>3. d \in Half
    BY DEF d
  <2>4. Takes(r, d, T)
    BY <2>2, <2>3, TakesSame
  <2> QED BY <2>4 DEF d
<1>2. CASE ~(p.len > Acc(r))
  <2> DEFINE e == r.nxt + p.len
             R == {p}
             q2 == r.q \o Bytes(p.seq, p.len)
             f2 == FinMark(p)
  <2>1. d = [r EXCEPT !.q = q2, !.nxt = e, !.fin = f2]
    BY <1>2 DEF AppendPkt
  <2>2. e \in Nat /\ e - r.nxt = p.len /\ p.seq + p.len = e
    BY <1>0
  <2>3. IsFrontier(R, r.nxt, e)
    BY <1>0 DEF IsFrontier, Holds
  <2>4. f2 # "none" => p.fin
    BY <1>0 DEF FinMark
  <2>5. q2 = r.q \o Bytes(r.nxt, e - r.nxt)
    BY <2>2
  <2> HIDE DEF d, e, q2, f2
  <2>6. d.got = r.got /\ d.q = q2 /\ d.nxt = e /\ d.reasm = r.reasm /\ d.fin = f2
    BY <2>1 DEF Half
  <2>7. d \in Half
    BY DEF d
  <2>8. R \in SUBSET Packet /\ r.reasm \subseteq R /\ \A h \in R : PieceOf(T, h)
    OBVIOUS
  <2>9. d.reasm \subseteq R /\ \A h \in R \ d.reasm : h.seq + h.len <= e
    BY <2>2, <2>6
  <2>10. d.fin # "none" => d.fin = r.fin \/ \E h \in R : h.fin /\ h.seq + h.len <= e
    BY <2>2, <2>4, <2>6
  <2>11. d.q = r.q \o Bytes(r.nxt, e - r.nxt)
    BY <2>5, <2>6
  <2> HIDE DEF R
  <2>12. Takes(r, d, T)
    BY <2>2, <2>3, <2>6, <2>7, <2>8, <2>9, <2>10, <2>11, TakesUpTo
  <2> QED BY <2>12 DEF d
<1> QED BY <1>1, <1>2

\* tcp_reass and merge_reasm_pkts: what is merged ends at the first hole.
LEMMA InsertReasmTakes ==
  ASSUME NEW T \in Sources, NEW B \in Nat, NEW r, Receives(r, B), Flow(T, SinkOf(r)), InOrder(r),
         r.nxt >= 1, NEW p \in Packet, p.seq + p.len <= B, PieceOf(T, p)
  PROVE  Takes(r, InsertReasm(r, p), T)
<1> DEFINE R == r.reasm \cup {p}
           e == Frontier(R, r.nxt)
           M == Merged(R, e)
           d == InsertReasm(r, p)
<1>1. /\ r \in Half /\ r.nxt \in Nat /\ r.q \in Seq(Nat)
      /\ R \in SUBSET Packet /\ \A o \in R : o.seq + o.len <= B
  BY DEF Receives, Half
<1>2. \A h \in R : PieceOf(T, h)
  BY <1>1, SinkOfFacts DEF Flow
<1>3. r.reasm \subseteq R
  OBVIOUS
<1>4. d = r \/ d = MergeReasmPkts(r, R)
  BY DEF InsertReasm
<1>5. d \in Half
  BY InsertReasmHalf DEF Receives
<1> HIDE DEF R, d
<1>6. /\ e \in {r.nxt} \cup {h.seq + h.len : h \in R} /\ e \in Nat /\ e >= r.nxt
      /\ IsFrontier(R, r.nxt, e)
  BY <1>1, FrontierFacts DEF IsFrontier
<1>7. \A h : h \in M <=> h \in R /\ h.seq + h.len <= e
  BY DEF Merged
<1> HIDE DEF e, M
<1>8. CASE d = r
  <2>1. Takes(r, d, T)
    BY <1>1, <1>5, <1>8, TakesSame
  <2> QED BY <2>1 DEF d
<1>9. CASE d = MergeReasmPkts(r, R) /\ M = {}
  <2>1. d = [r EXCEPT !.reasm = R]
    BY <1>9 DEF MergeReasmPkts, M, e
  <2>2. d.got = r.got /\ d.q = r.q /\ d.nxt = r.nxt /\ d.reasm = R /\ d.fin = r.fin
    BY <1>1, <2>1 DEF Half
  <2>3. e = r.nxt /\ e - r.nxt = 0
    BY <1>1, <1>6, <1>7, <1>9
  <2>4. d.q = r.q \o Bytes(r.nxt, e - r.nxt)
    BY <1>1, <2>2, <2>3, NoBytes
  <2>5. d.reasm \subseteq R /\ \A h \in R \ d.reasm : h.seq + h.len <= e
    BY <2>2
  <2>6. Takes(r, d, T)
    BY <1>1, <1>2, <1>3, <1>5, <1>6, <2>2, <2>3, <2>4, <2>5, TakesUpTo
  <2> QED BY <2>6 DEF d
<1>10. CASE d = MergeReasmPkts(r, R) /\ M # {} /\ e - r.nxt > Acc(r)
  <2>1. d = [r EXCEPT !.ok = FALSE]
    BY <1>10 DEF MergeReasmPkts, M, e
  <2>2. d.got = r.got /\ d.q = r.q /\ d.nxt = r.nxt /\ d.reasm = r.reasm /\ d.fin = r.fin
    BY <1>1, <2>1 DEF Half
  <2>3. Takes(r, d, T)
    BY <1>1, <1>5, <2>2, TakesSame
  <2> QED BY <2>3 DEF d
<1>11. CASE d = MergeReasmPkts(r, R) /\ M # {} /\ ~(e - r.nxt > Acc(r))
  <2> DEFINE q2 == r.q \o Bytes(r.nxt, e - r.nxt)
             f2 == FinMark(LastOf(M))
             R2 == R \ M
  <2>1. d = [r EXCEPT !.q = q2, !.nxt = e, !.fin = f2, !.reasm = R2]
    BY <1>11 DEF MergeReasmPkts, M, e
  <2>2. LastOf(M) \in M
    <3>1. \A h \in M : h.seq \in Nat /\ h.seq <= B
      <4> TAKE h \in M
      <4>1. h \in R
        BY <1>7
      <4>2. h.seq \in Nat /\ h.len \in Nat /\ h.seq + h.len <= B
        BY <1>1, <4>1 DEF Packet
      <4> QED BY <4>2
    <3> QED BY <1>11, <3>1, LastOfExists
  <2>3. LastOf(M) \in R /\ LastOf(M).seq + LastOf(M).len <= e
    BY <1>7, <2>2
  <2>4. f2 # "none" => LastOf(M).fin
    <3>1. LastOf(M).fin \in BOOLEAN
      BY <1>1, <2>3 DEF Packet
    <3> QED BY <3>1 DEF FinMark
  <2> HIDE DEF q2, f2
  <2>5. d.got = r.got /\ d.q = q2 /\ d.nxt = e /\ d.reasm = R2 /\ d.fin = f2
    BY <1>1, <2>1 DEF Half
  <2>6. d.reasm \subseteq R /\ \A h \in R \ d.reasm : h.seq + h.len <= e
    BY <1>7, <2>5
  <2>7. d.fin # "none" => d.fin = r.fin \/ \E h \in R : h.fin /\ h.seq + h.len <= e
    BY <2>3, <2>4, <2>5
  <2>8. d.q = r.q \o Bytes(r.nxt, e - r.nxt)
    BY <2>5 DEF q2
  <2>9. Takes(r, d, T)
    BY <1>1, <1>2, <1>3, <1>5, <1>6, <2>5, <2>6, <2>7, <2>8, TakesUpTo
  <2> QED BY <2>9 DEF d
<1> QED BY <1>4, <1>8, <1>9, <1>10, <1>11

\* TCP_REASS.
LEMMA TcpReassTakes ==
  ASSUME NEW T \in Sources, NEW B \in Nat, NEW r, Receives(r, B), Flow(T, SinkOf(r)), InOrder(r),
         r.nxt >= 1, NEW p \in Packet, p.seq + p.len <= B, PieceOf(T, p)
  PROVE  Takes(r, TcpReass(r, p), T) /\ Receives(TcpReass(r, p), B)
<1>1. CASE InSequence(r, p)
  <2>1. r.reasm = {} /\ p.seq = r.nxt /\ TcpReass(r, p) = AppendPkt(r, p)
    BY <1>1 DEF InSequence, TcpReass
  <2>2. Receives(AppendPkt(r, p), B) /\ r \in Half /\ AppendPkt(r, p) \in Half
    BY AppendPktHalf DEF Receives
  <2> QED BY <2>1, <2>2, AppendPktTakes
<1>2. CASE ~InSequence(r, p)
  <2>1. TcpReass(r, p) = InsertReasm(r, p)
    BY <1>2 DEF TcpReass
  <2>2. Receives(InsertReasm(r, p), B)
    BY InsertReasmHalf
  <2> QED BY <2>1, <2>2, InsertReasmTakes
<1> QED BY <1>1, <1>2

\* Everything but the receive half, the flags that concern neither the FIN nor
\* the drop, and the timers.
Outer(c, d) ==
  /\ d.st = c.st /\ d.err = c.err /\ d.max = c.max /\ d.up = c.up /\ d.ops = c.ops
  /\ d.sbseq = c.sbseq /\ d.told = c.told /\ d.out = c.out /\ d.sb = c.sb
  /\ "SENTFIN" \in d.flags <=> "SENTFIN" \in c.flags

\* What arrives at an end that has not been dropped moves its stream on.
LEMMA TakeMoves ==
  ASSUME NEW T \in Sources, NEW K \in Sinks, NEW c \in Cb, NEW d \in Cb, Data(c, T, K), ~Dead(c),
         Takes(c.r, d.r, T), Outer(c, d)
  PROVE  Moves(c, d, T, K)
<1>1. /\ Source(c) \in Sources /\ Sink(c) \in Sinks /\ Sink(d) \in Sinks
      /\ Sink(c) = SinkOf(c.r) /\ Sink(d) = SinkOf(d.r) /\ Ordered(d)
  BY PartTypes, SinkOfFacts DEF Takes
<1>2. Source(d) = Source(c)
  BY DEF Source, Cuts, Outer
<1>3. /\ Flow(T, Sink(d)) /\ SnkGrows(Sink(c), Sink(d)) /\ (Full(T, Sink(c)) => Full(T, Sink(d)))
      /\ d.r.got = c.r.got
  BY <1>1 DEF Takes
<1>4. Stage(d)
  <2>1. Whole(d)
    BY DEF Data, Stage, Whole, Cuts, Outer
  <2> QED BY <2>1 DEF Data, Stage, NoOps, Cuts, Outer
<1>5. Ended(d, T, K)
  BY <1>2, <1>3 DEF Data, Ended, Outer
<1>6. Says(d, T)
  <2> SUFFICES ASSUME NEW i \in 1 .. Len(c.out)
               PROVE  Carries(c.out[i], Source(c), Sink(d), T)
    BY <1>2 DEF Says, Outer
  <2>1. c.out[i] \in Datagram /\ Carries(c.out[i], Source(c), Sink(c), T) /\ Flow(T, Sink(c))
    BY CbNumbers, ElementOfSeq DEF Data, Says
  <2>2. SrcGrows(T, T) /\ SrcGrows(Source(c), Source(c))
    BY <1>1, GrowsTrans
  <2> QED BY <1>1, <1>3, <2>1, <2>2, CarriesGrows
<1>7. Adds(c, d)
  <2>1. SrcGrows(Source(c), Source(c))
    BY <1>1, GrowsTrans
  <2>2. Len(c.r.got) \in Nat
    BY LenProperties DEF Cb, Half
  <2> QED BY <1>2, <1>3, <2>1, <2>2 DEF Adds, Fatal, Outer
<1> QED BY <1>1, <1>2, <1>3, <1>4, <1>5, <1>6, <1>7 DEF Moves, Data

----------------------------------------------------------------------------
(* One handler: what it does to the streams, and how it leaves the end. *)

\* An end before the handshake is done has received nothing but the SYN; an end
\* with an error that is final is about to be dropped.
Settled(c) ==
  c.st \in {"LISTEN", "SYN_SENT", "SYN_RECEIVED"} /\ "NOTIFY_DROP" \notin c.flags =>
    Arrived(c) = 0 /\ c.r.nxt <= 1 /\ c.r.reasm = {} /\ c.r.fin = "none"
Doomed(c) == Fatal(c) /\ c.st # "CLOSED" => "NOTIFY_DROP" \in c.flags
Tidy(c) == Level(c) /\ Settled(c) /\ Doomed(c)

\* FIN_WAIT_1 is entered by async_shutdown alone.
FinWait == {"FIN_WAIT_1", "FIN_WAIT_2"}
Blank(c) == c.st = "CLOSED" /\ c.err = "none"
Pristine(c) == Blank(c) => Arrived(c) = 0 /\ c.r.reasm = {} /\ c.r.fin = "none"
Does(c, d, P, T, K) ==
  /\ Good(d, P) /\ Moves(c, d, T, K)
  /\ d.st \in FinWait => c.st \in FinWait
  /\ Pristine(c) => Pristine(d)
Quiet(c, d, P, T, K) ==
  Good(d, P) /\ Glides(c, d, T, K) /\ (Level(c) => Level(d))

\* Steps of a handler follow one another.
LEMMA DoesTrans ==
  ASSUME NEW P \in Peers, NEW T \in Sources, NEW K \in Sinks, NEW c, Good(c, P), NEW d, NEW e
  PROVE  /\ Does(c, d, P, T, K) /\ Does(d, e, P, T, K) => Does(c, e, P, T, K)
         /\ Quiet(c, d, P, T, K) /\ Quiet(d, e, P, T, K) => Quiet(c, e, P, T, K)
         /\ Quiet(c, d, P, T, K) => Does(c, d, P, T, K) /\ (Tidy(c) => Tidy(d))
         /\ Data(c, T, K) => Quiet(c, c, P, T, K) /\ Does(c, c, P, T, K)
         /\ Does(c, d, P, T, K) => Good(d, P) /\ Data(d, T, K) /\ d \in Cb
         /\ Quiet(c, d, P, T, K) =>
              /\ Good(d, P) /\ Data(d, T, K) /\ d \in Cb /\ d.st = c.st /\ d.err = c.err
              /\ "NOTIFY_DROP" \in d.flags <=> "NOTIFY_DROP" \in c.flags
              /\ d.r.nxt = c.r.nxt
<1>1. c \in Cb /\ (Good(d, P) => d \in Cb)
  BY DEF Good, Kept
<1>2. Does(c, d, P, T, K) /\ Does(d, e, P, T, K) => Does(c, e, P, T, K)
  BY <1>1, GlidesTrans DEF Does
<1>3. Quiet(c, d, P, T, K) /\ Quiet(d, e, P, T, K) => Quiet(c, e, P, T, K)
  BY <1>1, GlidesTrans DEF Quiet
<1>4. Quiet(c, d, P, T, K) => Does(c, d, P, T, K) /\ (Tidy(c) => Tidy(d))
  BY DEF Quiet, Does, Glides, Calm, Tidy, Settled, Doomed, Fatal, Pristine, Blank
<1>5. Data(c, T, K) => Quiet(c, c, P, T, K) /\ Does(c, c, P, T, K)
  BY <1>1, GlidesTrans DEF Quiet, Does, Glides
<1>6. Does(c, d, P, T, K) => Good(d, P) /\ Data(d, T, K) /\ d \in Cb
  BY DEF Does, Moves
<1>7. Quiet(c, d, P, T, K) =>
        /\ Good(d, P) /\ Data(d, T, K) /\ d \in Cb /\ d.st = c.st /\ d.err = c.err
        /\ "NOTIFY_DROP" \in d.flags <=> "NOTIFY_DROP" \in c.flags
        /\ d.r.nxt = c.r.nxt
  BY DEF Quiet, Glides, Moves, Calm
<1> QED BY <1>2, <1>3, <1>4, <1>5, <1>6, <1>7

\* What is quiet is done too, and touches neither the state nor the error.
LEMMA QuietDoes ==
  ASSUME NEW P \in Peers, NEW T \in Sources, NEW K \in Sinks, NEW c, Good(c, P), NEW d,
         Quiet(c, d, P, T, K)
  PROVE  /\ Does(c, d, P, T, K) /\ (Tidy(c) => Tidy(d))
         /\ Good(d, P) /\ Data(d, T, K) /\ d \in Cb /\ d.st = c.st /\ d.err = c.err
         /\ "NOTIFY_DROP" \in d.flags <=> "NOTIFY_DROP" \in c.flags
         /\ d.r.nxt = c.r.nxt
BY DoesTrans

\* A step of a handler ends in a state of the same kind.
LEMMA DoesGood ==
  ASSUME NEW P \in Peers, NEW T \in Sources, NEW K \in Sinks, NEW c, NEW d,
         Does(c, d, P, T, K)
  PROVE  Good(d, P) /\ Data(d, T, K) /\ d \in Cb
BY DEF Does, Moves, Good, Kept

\* What changes nothing the streams depend on.
LEMMA SameQuiet ==
  ASSUME NEW P \in Peers, NEW T \in Sources, NEW K \in Sinks, NEW c, Good(c, P), Data(c, T, K),
         NEW d \in Cb, Same(c, d)
  PROVE  Quiet(c, d, P, T, K)
<1>1. c \in Cb /\ Good(d, P) /\ Glides(c, d, T, K)
  BY SameGood, SameGlides DEF Good, Kept
<1> QED BY <1>1 DEF Quiet, Same, Level

\* output() changes what the peer is sent and nothing else.
LEMMA OutputQuiet ==
  ASSUME NEW P \in Peers, NEW T \in Sources, NEW K \in Sinks, NEW c, Good(c, P), Data(c, T, K),
         c.st # "LISTEN", NEW u \in Inputs
  PROVE  Quiet(c, Output(c, u), P, T, K) /\ Level(Output(c, u))
<1>1. Good(Output(c, u), P)
  BY OutputKeeps DEF Leads
<1>2. Glides(c, Output(c, u), T, K) /\ Level(Output(c, u))
  BY OutputGlides
<1> QED BY <1>1, <1>2 DEF Quiet

\* Everything a stream depends on but the state and the error.
Streams(c, d) ==
  /\ d.sbseq = c.sbseq /\ d.told = c.told /\ d.sb = c.sb /\ d.out = c.out
  /\ d.r.got = c.r.got /\ d.r.q = c.r.q /\ d.r.nxt = c.r.nxt /\ d.r.reasm = c.r.reasm
  /\ d.r.fin = c.r.fin

\* A change of the state or of the error.
LEMMA StateMoves ==
  ASSUME NEW T \in Sources, NEW K \in Sinks, NEW c \in Cb, NEW d \in Cb, Data(c, T, K),
         Streams(c, d), Stage(d), Ended(d, T, K),
         c.err # "none" => d.err # "none", Fatal(c) => Fatal(d), Dead(c) => d.st = "CLOSED"
  PROVE  Moves(c, d, T, K) /\ Arrived(d) = Arrived(c)
<1>1. Source(d) = Source(c) /\ Sink(d) = Sink(c) /\ Arrived(d) = Arrived(c)
  BY DEF Source, Cuts, Sink, Arrived, Streams
<1>2. Source(c) \in Sources /\ Sink(c) \in Sinks
  BY PartTypes
<1>3. Says(d, T) /\ Ordered(d)
  BY <1>1 DEF Data, Says, Ordered, Streams
<1>4. Adds(c, d)
  <2>1. SrcGrows(Source(c), Source(c)) /\ SnkGrows(Sink(c), Sink(c))
    BY <1>2, GrowsTrans
  <2>2. Len(c.r.got) \in Nat
    BY LenProperties DEF Cb, Half
  <2> QED BY <1>1, <2>1, <2>2 DEF Adds, Streams
<1> QED BY <1>1, <1>3, <1>4 DEF Moves, Data

\* Setting and clearing flags.
LEMMA FlagsFields ==
  ASSUME NEW c \in Cb, NEW fs \in SUBSET CbFlags, NEW d, d = On(c, fs) \/ d = Off(c, fs)
  PROVE  /\ d \in Cb /\ Streams(c, d) /\ d.st = c.st /\ d.err = c.err /\ d.up = c.up
         /\ d.nxt = c.nxt /\ d.max = c.max /\ d.ops = c.ops /\ d.una = c.una /\ d.r = c.r
         /\ d = On(c, fs) => d.flags = c.flags \cup fs
         /\ d = Off(c, fs) => d.flags = c.flags \ fs
<1>1. PICK fl \in SUBSET CbFlags :
        /\ d = [c EXCEPT !.flags = fl]
        /\ d = On(c, fs) => fl = c.flags \cup fs
        /\ d = Off(c, fs) => fl = c.flags \ fs
  <2>1. c.flags \in SUBSET CbFlags
    BY CbNumbers
  <2>2. CASE d = On(c, fs) /\ d # Off(c, fs)
    <3>1. c.flags \cup fs \in SUBSET CbFlags
      BY <2>1
    <3>2. d = [c EXCEPT !.flags = c.flags \cup fs]
      BY <2>2 DEF On
    <3> QED BY <2>2, <3>1, <3>2
  <2>3. CASE d = Off(c, fs) /\ d # On(c, fs)
    <3>1. c.flags \ fs \in SUBSET CbFlags
      BY <2>1
    <3>2. d = [c EXCEPT !.flags = c.flags \ fs]
      BY <2>3 DEF Off
    <3> QED BY <2>3, <3>1, <3>2
  <2>4. CASE d = Off(c, fs) /\ d = On(c, fs)
    <3>1. c.flags \ fs = c.flags \cup fs
      <4>1. d.flags = c.flags \ fs /\ d.flags = c.flags \cup fs
        BY <2>4 DEF On, Off, Cb
      <4> QED BY <4>1
    <3>2. d = [c EXCEPT !.flags = c.flags \ fs]
      BY <2>4 DEF Off
    <3> QED BY <2>1, <2>4, <3>1, <3>2
  <2> QED BY <2>2, <2>3, <2>4
<1>2. d \in Cb
  BY ZenonT(60), <1>1 DEF Cb
<1>3. /\ d.sbseq = c.sbseq /\ d.told = c.told /\ d.sb = c.sb /\ d.out = c.out /\ d.r = c.r
      /\ d.st = c.st /\ d.err = c.err /\ d.up = c.up
      /\ d.nxt = c.nxt /\ d.max = c.max /\ d.ops = c.ops /\ d.una = c.una /\ d.flags = fl
  BY <1>1 DEF Cb
<1>4. Streams(c, d)
  BY <1>3 DEF Streams
<1> QED BY <1>1, <1>2, <1>3, <1>4

\* A stage does not depend on the flags but on TF_SENTFIN.
LEMMA FlagsMove ==
  ASSUME NEW T \in Sources, NEW K \in Sinks, NEW c \in Cb, Data(c, T, K),
         NEW fs \in SUBSET (CbFlags \ {"SENTFIN"}), NEW d, d = On(c, fs) \/ d = Off(c, fs)
  PROVE  /\ Moves(c, d, T, K) /\ d.st = c.st /\ d.err = c.err /\ d.r = c.r /\ d.up = c.up
         /\ d.nxt = c.nxt /\ d.max = c.max /\ d.una = c.una /\ Arrived(d) = Arrived(c)
         /\ d = On(c, fs) => d.flags = c.flags \cup fs
         /\ d = Off(c, fs) => d.flags = c.flags \ fs
         /\ "NOTIFY_DROP" \notin fs => Glides(c, d, T, K)
<1>1. /\ d \in Cb /\ Streams(c, d) /\ d.st = c.st /\ d.err = c.err /\ d.up = c.up
      /\ d.nxt = c.nxt /\ d.max = c.max /\ d.ops = c.ops /\ d.una = c.una /\ d.r = c.r
      /\ d = On(c, fs) => d.flags = c.flags \cup fs
      /\ d = Off(c, fs) => d.flags = c.flags \ fs
  BY FlagsFields
<1>2. "SENTFIN" \in d.flags <=> "SENTFIN" \in c.flags
  BY <1>1
<1>3. Stage(d)
  <2>1. Whole(d)
    BY <1>1 DEF Data, Stage, Whole, Cuts, Streams
  <2> QED BY <1>1, <1>2, <2>1 DEF Data, Stage, Cuts, NoOps, Streams
<1>4. Ended(d, T, K)
  <2>1. Source(d) = Source(c) /\ Sink(d) = Sink(c)
    BY <1>1 DEF Source, Cuts, Sink, Arrived, Streams
  <2> QED BY <1>1, <1>2, <2>1 DEF Data, Ended
<1>5. Moves(c, d, T, K) /\ Arrived(d) = Arrived(c)
  BY <1>1, <1>3, <1>4, StateMoves DEF Fatal, Dead
<1>6. ASSUME "NOTIFY_DROP" \notin fs
      PROVE  Calm(c, d)
  <2>1. "NOTIFY_DROP" \in d.flags <=> "NOTIFY_DROP" \in c.flags
    BY <1>1, <1>6
  <2> QED BY <1>1, <1>5, <2>1 DEF Calm
<1> QED BY <1>1, <1>5, <1>6 DEF Glides

\* Flags that ask for nothing but an output, a reset, a read or a write.
LEMMA FlagsQuiet ==
  ASSUME NEW P \in Peers, NEW T \in Sources, NEW K \in Sinks, NEW c, Good(c, P), Data(c, T, K),
         NEW fs \in SUBSET (CbFlags \ {"SENTFIN", "NOTIFY_DROP"})
  PROVE  /\ Quiet(c, Off(c, fs), P, T, K)
         /\ ~Unopened(c) \/ fs \subseteq {"NEED_RESET"} => Quiet(c, On(c, fs), P, T, K)
<1>1. c \in Cb
  BY DEF Good, Kept
<1>2. Off(c, fs) \in Cb /\ Same(c, Off(c, fs))
  BY <1>1, OnKeeps
<1>3. Quiet(c, Off(c, fs), P, T, K)
  BY <1>2, SameQuiet
<1>4. ASSUME ~Unopened(c) \/ fs \subseteq {"NEED_RESET"}
      PROVE  Quiet(c, On(c, fs), P, T, K)
  <2> DEFINE d == On(c, fs)
  <2>1. fs \in SUBSET (CbFlags \ {"SENTFIN"}) /\ "NOTIFY_DROP" \notin fs
    OBVIOUS
  <2>2. Good(d, P)
    <3>1. ~Unopened(c) \/ fs \subseteq {"NOTIFY_DROP", "NEED_RESET"}
      BY <1>4
    <3> QED BY <2>1, <3>1, OnLeads DEF Leads
  <2>3. Glides(c, d, T, K) /\ d.st = c.st /\ d.nxt = c.nxt /\ d.max = c.max
    BY <1>1, <2>1, FlagsMove
  <2> QED BY <2>2, <2>3 DEF Quiet, Level
<1> QED BY <1>3, <1>4

\* respond(): a reset, or an acknowledgement of what has been received.
LEMMA RespondQuiet ==
  ASSUME NEW P \in Peers, NEW T \in Sources, NEW K \in Sinks, NEW c, Good(c, P), Data(c, T, K),
         NEW seq \in Int, NEW flags,
         \/ flags = {"RST"}
         \/ flags = {"ACK"} /\ c.r.nxt >= 1 /\ P.rcv >= 1
  PROVE  Quiet(c, Respond(c, seq, flags), P, T, K)
<1> DEFINE m == [flags |-> flags, seq |-> seq, ack |-> c.r.nxt, len |-> 0,
                 win |-> Acc(c.r), sack |-> {}, pseq |-> c.pseq]
           d == Respond(c, seq, flags)
<1>1. /\ c \in Cb /\ c.r \in Half /\ c.r.nxt \in Nat /\ c.r.q \in Seq(Nat) /\ c.pseq \in Int
      /\ c.max \in Nat /\ Heard(c, P) /\ c.told \in BOOLEAN /\ c.out \in Seq(Datagram)
  BY DEF Good, Kept, Cb, Half
<1>2. Acc(c.r) \in Nat
  BY SMTT(60), <1>1, LenProperties, RcvBufAssumption DEF Heard, Acc
<1>3. m \in Datagram
  BY <1>1, <1>2 DEF Datagram
<1>4. /\ Good(d, P) /\ Rest(c, d) /\ d.nxt = c.nxt /\ d.max = c.max
      /\ d.flags = c.flags /\ d.r = c.r
  BY RespondKeeps DEF Leads
<1> DEFINE fin == c.told \/ "FIN" \in flags
<1>5. d = Sent(c, fin, m) /\ fin \in BOOLEAN /\ fin = c.told
  BY <1>1 DEF Respond, Segment, Sent
<1>6. m.flags = flags /\ m.len = 0 /\ m.ack = c.r.nxt /\ m.sack = {}
  OBVIOUS
<1> HIDE DEF m, d, fin
<1>7. d \in Cb /\ d.out = Append(c.out, m) /\ d.told = c.told
  BY <1>1, <1>3, <1>5, SegmentFields
<1>8. /\ d.st = c.st /\ d.err = c.err /\ d.up = c.up /\ d.ops = c.ops
      /\ d.sb = c.sb /\ d.sbseq = c.sbseq
  BY <1>4 DEF Rest
<1>9. /\ Source(d) = Source(c) /\ Sink(d) = Sink(c) /\ Cuts(d) = Cuts(c)
      /\ Arrived(d) = Arrived(c)
  BY <1>4, <1>7, <1>8 DEF Source, Cuts, Sink, Arrived
<1>10. Carries(m, Source(c), Sink(c), T)
  <2>1. c.r.nxt <= Sink(c).nxt /\ (c.r.nxt <= Sink(c).n + 1 \/ Full(T, Sink(c)))
    <3>1. Sink(c).nxt \in Nat /\ Sink(c).n \in Nat /\ Sink(c).nxt = c.r.nxt
      BY <1>1, PartTypes DEF Sinks
    <3> QED BY <3>1 DEF Data, Flow
  <2> QED BY <1>6, <2>1 DEF Carries
<1>11. Says(d, T)
  <2>1. \A i \in 1 .. Len(d.out) : Carries(d.out[i], Source(c), Sink(c), T)
    BY <1>1, <1>3, <1>7, <1>10, AppendProperties DEF Data, Says
  <2> QED BY <1>9, <2>1 DEF Says
<1>12. Stage(d)
  <2>1. Whole(d)
    BY <1>4, <1>9 DEF Data, Stage, Whole
  <2> QED BY <1>4, <1>7, <1>8, <1>9, <2>1 DEF Data, Stage, NoOps
<1>13. Ended(d, T, K) /\ Ordered(d)
  BY <1>4, <1>8, <1>9 DEF Data, Ended, Ordered
<1>14. Calm(c, d)
  BY <1>4, <1>8, <1>9 DEF Calm
<1>15. Adds(c, d)
  <2>1. SrcGrows(Source(c), Source(c))
    BY <1>1, PartTypes, GrowsTrans
  <2>2. Len(c.r.got) <= Len(d.r.got)
    <3>1. Len(c.r.got) \in Nat
      BY <1>1, LenProperties DEF Half
    <3> QED BY <1>4, <3>1
  <2> QED BY <1>1, <1>7, <1>8, <1>9, <1>14, <2>1, <2>2, CalmAdds
<1>16. Data(d, T, K)
  BY <1>9, <1>11, <1>12, <1>13 DEF Data
<1> QED BY <1>4, <1>7, <1>8, <1>14, <1>15, <1>16 DEF Quiet, Glides, Moves, Level, d

\* recv_data: bytes that have arrived are copied; the window may be announced.
LEMMA RecvDataQuiet ==
  ASSUME NEW P \in Peers, NEW T \in Sources, NEW K \in Sinks, NEW c, Good(c, P), Data(c, T, K),
         c.st # "LISTEN" \/ c.err # "none", NEW u \in Inputs
  PROVE  Quiet(c, RecvData(c, u), P, T, K)
<1> DEFINE b == [c EXCEPT !.r = Copy(@, c.op), !.op = 0]
           w == [c EXCEPT !.delay = TRUE]
           d == RecvData(c, u)
<1>1. c \in Cb /\ c.op \in Nat
  BY DEF Good, Kept, Cb
<1>2. Quiet(c, b, P, T, K)
  <2>1. Good(b, P)
    BY CopyKeeps DEF Leads
  <2>2. /\ b.r = Copy(c.r, c.op) /\ b.st = c.st /\ b.err = c.err /\ b.max = c.max /\ b.up = c.up
        /\ b.ops = c.ops /\ b.sbseq = c.sbseq /\ b.told = c.told
    BY <1>1 DEF Cb
  <2>3. b.out = c.out /\ b.sb = c.sb /\ b.flags = c.flags /\ b.nxt = c.nxt
    BY <1>1 DEF Cb
  <2>4. b \in Cb
    BY <2>1 DEF Good, Kept
  <2> HIDE DEF b
  <2>5. Glides(c, b, T, K)
    BY <1>1, <2>2, <2>3, <2>4, CopyGlides
  <2> QED BY <2>1, <2>2, <2>3, <2>5 DEF Quiet, Level
<1>3. Quiet(c, w, P, T, K)
  <2>1. w \in Cb /\ Same(c, w)
    BY <1>1 DEF Cb, Same, Unopened
  <2> QED BY <2>1, SameQuiet
<1>4. d = c \/ d = b \/ d = w \/ (c.err = "none" /\ d = Output(b, u))
  BY DEF RecvData
<1> HIDE DEF b, w, d
<1>5. CASE c.err = "none" /\ d = Output(b, u)
  <2>1. Good(b, P) /\ Data(b, T, K) /\ b.st # "LISTEN"
    BY <1>2, <1>5, DoesTrans
  <2>2. Quiet(b, d, P, T, K)
    BY <1>5, <2>1, OutputQuiet
  <2> QED BY <1>2, <2>2, DoesTrans DEF d
<1>6. Quiet(c, c, P, T, K)
  BY DoesTrans
<1> QED BY <1>2, <1>3, <1>4, <1>5, <1>6 DEF d

\* on_writable: what is queued and fits is cut and sent.
LEMMA OnWritableQuiet ==
  ASSUME NEW P \in Peers, NEW T \in Sources, NEW K \in Sinks, NEW c, Good(c, P), Data(c, T, K),
         c.st # "LISTEN", NEW u \in Inputs
  PROVE  Quiet(c, OnWritable(c, u), P, T, K)
<1> DEFINE b == ConsumePendingData(c)
           d == OnWritable(c, u)
<1>1. c \in Cb
  BY DEF Good, Kept
<1>2. Good(b, P) /\ b = [c EXCEPT !.sb = b.sb, !.sbseq = b.sbseq, !.ops = b.ops]
  BY ConsumeKeeps
<1>3. Glides(c, b, T, K)
  BY ConsumeGlides
<1>4. d = b \/ d = Output(b, u)
  BY DEF OnWritable
<1> HIDE DEF b, d
<1>5. b.st = c.st /\ b.nxt = c.nxt /\ b.max = c.max
  BY ZenonT(60), <1>1, <1>2 DEF Cb
<1>6. Quiet(c, b, P, T, K)
  BY <1>2, <1>3, <1>5 DEF Quiet, Level
<1>7. CASE d = Output(b, u)
  <2>1. Data(b, T, K)
    BY <1>6, DoesTrans
  <2>2. Quiet(b, d, P, T, K)
    BY <1>2, <1>5, <1>7, <2>1, OutputQuiet
  <2> QED BY <1>6, <2>2, DoesTrans DEF d
<1> QED BY <1>4, <1>6, <1>7 DEF d

\* An error of its own, or no other than before: the streams stay.
LEMMA ErrDoes ==
  ASSUME NEW P \in Peers, NEW T \in Sources, NEW K \in Sinks, NEW c, Good(c, P), Data(c, T, K),
         NEW e \in Errs, e # "none", e # "eof" \/ e = c.err
  PROVE  LET d == WithErr(c, e)
         IN  Does(c, d, P, T, K) /\ d.err = e /\ d.st = c.st /\ d.r = c.r /\ d.flags = c.flags
<1> DEFINE d == WithErr(c, e)
<1>1. c \in Cb
  BY DEF Good, Kept
<1>2. Good(d, P) /\ d.err = e /\ d.st = c.st /\ d.r = c.r /\ d.flags = c.flags /\ d.max = c.max
      /\ d.up = c.up
  BY ErrKeeps DEF Leads
<1>3. d = [c EXCEPT !.err = e]
  BY DEF WithErr
<1> HIDE DEF d
<1>4. d.sbseq = c.sbseq /\ d.told = c.told /\ d.sb = c.sb /\ d.out = c.out /\ d.ops = c.ops
  BY <1>1, <1>3 DEF Cb
<1>5. Streams(c, d) /\ d \in Cb
  BY <1>2, <1>4 DEF Streams, Good, Kept
<1>6. Stage(d)
  <2>1. Whole(d)
    BY <1>2, <1>4 DEF Data, Stage, Whole, Cuts
  <2> QED BY <1>2, <1>4, <2>1 DEF Data, Stage, Cuts, NoOps
<1>7. Ended(d, T, K)
  <2>1. Source(d) = Source(c) /\ Sink(d) = Sink(c)
    BY <1>5 DEF Source, Cuts, Sink, Arrived, Streams
  <2> QED BY <1>2, <2>1 DEF Data, Ended
<1>8. Moves(c, d, T, K)
  BY <1>1, <1>2, <1>5, <1>6, <1>7, StateMoves DEF Fatal, Dead
<1> QED BY <1>2, <1>8 DEF Does, Pristine, Blank, d

\* drop: the end is closed with the error it has, or with a time-out.
LEMMA DropDoes ==
  ASSUME NEW P \in Peers, NEW T \in Sources, NEW K \in Sinks, NEW c, Good(c, P), Data(c, T, K),
         NEW e \in Errs, e # "none", e \in {c.err, "timed_out"}, NEW u \in Inputs
  PROVE  LET d == Drop(c, e, u)
         IN  /\ Does(c, d, P, T, K) /\ d.st = "CLOSED" /\ d.err # "none"
             /\ "NOTIFY_DROP" \in d.flags <=> "NOTIFY_DROP" \in c.flags
<1> DEFINE a == WithErr(c, e)
           b == RecvData(a, u)
           d == Drop(c, e, u)
<1>1. d = [Cancel(b, u) EXCEPT !.st = "CLOSED"]
  BY DEF Drop, WithErr
<1>2. Does(c, a, P, T, K) /\ a.err = e /\ a.flags = c.flags
  BY ErrDoes
<1> HIDE DEF a
<1>3. Good(a, P) /\ Data(a, T, K)
  BY <1>2, DoesTrans
<1>4. Quiet(a, b, P, T, K)
  BY <1>2, <1>3, RecvDataQuiet
<1> HIDE DEF b, d
<1>5. /\ Good(b, P) /\ Data(b, T, K) /\ b \in Cb /\ b.err = e
      /\ "NOTIFY_DROP" \in b.flags <=> "NOTIFY_DROP" \in a.flags
  BY <1>2, <1>3, <1>4, DoesTrans
<1>6. Good(d, P) /\ d.st = "CLOSED" /\ d.err = b.err /\ d.flags = b.flags
  BY <1>1, <1>5, CancelKeeps DEF Leads
<1> DEFINE x == Cancel(b, u)
<1>7. /\ x.sbseq = b.sbseq /\ x.told = b.told /\ x.sb = b.sb /\ x.out = b.out
      /\ x.ops = << >> /\ x.r = b.r /\ x.up = b.up /\ x.max = b.max
      /\ x = [x EXCEPT !.st = x.st]
  BY ZenonT(40), <1>5 DEF Cancel, Cb
<1> HIDE DEF x
<1>8. /\ d.sbseq = b.sbseq /\ d.told = b.told /\ d.sb = b.sb /\ d.out = b.out
      /\ d.ops = << >> /\ d.r = b.r /\ d.up = b.up /\ d.max = b.max
  BY <1>1, <1>7 DEF x
<1>9. Streams(b, d) /\ d \in Cb
  BY <1>6, <1>8 DEF Streams, Good, Kept
<1>10. Stage(d)
  <2>1. NoOps(d)
    BY <1>8 DEF NoOps
  <2>2. Cuts(d) = Cuts(b)
    BY <1>8 DEF Cuts
  <2>3. b.sbseq = 0 => Cuts(b) = {} /\ ~b.told /\ ~b.up /\ "SENTFIN" \notin b.flags
    BY <1>5 DEF Data, Stage
  <2>4. Whole(d)
    BY <1>5, <1>8, <2>2 DEF Data, Stage, Whole
  <2> QED BY <1>2, <1>5, <1>6, <1>8, <2>1, <2>2, <2>3, <2>4 DEF Data, Stage, Opening, Ending
<1>11. Ended(d, T, K)
  <2>1. Sink(d) = Sink(b)
    BY <1>9 DEF Sink, Arrived, Streams
  <2> QED BY <1>5, <1>6, <2>1 DEF Data, Ended
<1>12. Moves(b, d, T, K)
  BY <1>5, <1>6, <1>9, <1>10, <1>11, StateMoves DEF Fatal
<1>13. Does(b, d, P, T, K)
  BY <1>5, <1>6, <1>12 DEF Does, FinWait, Pristine, Blank
<1> QED BY <1>2, <1>3, <1>4, <1>5, <1>6, <1>13, DoesTrans DEF d

\* commit_notifies: in LISTEN nothing but a drop and a reset is asked for; what
\* is left is as tidy as what was found, and no drop is left to be done.
LEMMA CommitTidies ==
  ASSUME NEW P \in Peers, NEW T \in Sources, NEW K \in Sinks, NEW c, Good(c, P), Data(c, T, K),
         Tidy(c), NEW u \in Inputs
  PROVE  LET d == CommitNotifies(c, u)
         IN  Does(c, d, P, T, K) /\ Tidy(d) /\ "NOTIFY_DROP" \notin d.flags
<1> DEFINE c1 == CommitOutput(c, u)
           c2 == CommitReset(c1)
           c3 == CommitRead(c2, u)
           c4 == CommitWrite(c3, u)
           c5 == CommitDrop(c4, u)
<1>1. \A b : Good(b, P) => (b.st = "LISTEN" => b.flags \subseteq {"NOTIFY_DROP", "NEED_RESET"})
  BY DEF Good, Kept, Phased, Fresh, Unopened
<1>2. CommitNotifies(c, u) = c5
  BY DEF CommitNotifies
<1>3. \A f : {f} \subseteq CbFlags \ {"SENTFIN", "NOTIFY_DROP"} =>
        {f} \in SUBSET (CbFlags \ {"SENTFIN", "NOTIFY_DROP"})
  OBVIOUS
<1>4. {"NEED_RESET", "NOTIFY_READ", "NOTIFY_WRITE"} \subseteq CbFlags \ {"SENTFIN", "NOTIFY_DROP"}
  BY DEF CbFlags
<1>5. Quiet(c, c1, P, T, K)
  <2>1. CASE c.flags \cap {"ACKNOW", "NEED_OUTPUT"} # {}
    <3>1. c1 = Output(c, u) /\ c.st # "LISTEN"
      BY <1>1, <2>1 DEF CommitOutput
    <3> HIDE DEF c1
    <3> QED BY <3>1, OutputQuiet
  <2>2. CASE ~(c.flags \cap {"ACKNOW", "NEED_OUTPUT"} # {})
    <3>1. c1 = c
      BY <2>2 DEF CommitOutput
    <3> QED BY <3>1, DoesTrans
  <2> QED BY <2>1, <2>2
<1> HIDE DEF c1
<1>6. Good(c1, P) /\ Data(c1, T, K) /\ c1.nxt \in Int
  <2>1. Good(c1, P) /\ Data(c1, T, K) /\ c1 \in Cb
    BY <1>5, DoesTrans
  <2> QED BY <2>1, CbNumbers
<1>7. Quiet(c1, c2, P, T, K)
  <2> DEFINE b == Respond(c1, c1.nxt, {"RST"})
  <2>1. CASE "NEED_RESET" \in c1.flags
    <3>1. c2 = Off(b, {"NEED_RESET"})
      BY <2>1 DEF CommitReset
    <3>2. Quiet(c1, b, P, T, K)
      BY <1>6, RespondQuiet
    <3> HIDE DEF b, c2
    <3>3. Good(b, P) /\ Data(b, T, K)
      BY <1>6, <3>2, DoesTrans
    <3>4. Quiet(b, c2, P, T, K)
      BY <1>4, <3>1, <3>3, FlagsQuiet
    <3> QED BY <1>6, <3>2, <3>4, DoesTrans
  <2>2. CASE "NEED_RESET" \notin c1.flags
    <3>1. c2 = c1
      BY <2>2 DEF CommitReset
    <3> QED BY <1>6, <3>1, DoesTrans
  <2> QED BY <2>1, <2>2
<1> HIDE DEF c2
<1>8. Good(c2, P) /\ Data(c2, T, K)
  BY <1>6, <1>7, DoesTrans
<1>9. Quiet(c2, c3, P, T, K)
  <2> DEFINE b == IF c2.r.q # << >> \/ HaveRcvdFin(c2) THEN RecvData(c2, u) ELSE c2
  <2>1. CASE "NOTIFY_READ" \in c2.flags
    <3>1. c3 = Off(b, {"NOTIFY_READ"})
      BY <2>1 DEF CommitRead
    <3>2. c2.st # "LISTEN"
      BY <1>1, <1>8, <2>1
    <3>3. Quiet(c2, b, P, T, K)
      BY <1>8, <3>2, RecvDataQuiet, DoesTrans
    <3> HIDE DEF b, c3
    <3>4. Good(b, P) /\ Data(b, T, K)
      BY <1>8, <3>3, DoesTrans
    <3>5. Quiet(b, c3, P, T, K)
      BY <1>4, <3>1, <3>4, FlagsQuiet
    <3> QED BY <1>8, <3>3, <3>5, DoesTrans
  <2>2. CASE "NOTIFY_READ" \notin c2.flags
    <3>1. c3 = c2
      BY <2>2 DEF CommitRead
    <3> QED BY <1>8, <3>1, DoesTrans
  <2> QED BY <2>1, <2>2
<1> HIDE DEF c3
<1>10. Good(c3, P) /\ Data(c3, T, K)
  BY <1>8, <1>9, DoesTrans
<1>11. Quiet(c3, c4, P, T, K)
  <2> DEFINE b == OnWritable(c3, u)
  <2>1. CASE "NOTIFY_WRITE" \in c3.flags
    <3>1. c4 = Off(b, {"NOTIFY_WRITE"})
      BY <2>1 DEF CommitWrite
    <3>2. c3.st # "LISTEN"
      BY <1>1, <1>10, <2>1
    <3>3. Quiet(c3, b, P, T, K)
      BY <1>10, <3>2, OnWritableQuiet
    <3> HIDE DEF b, c4
    <3>4. Good(b, P) /\ Data(b, T, K)
      BY <1>10, <3>3, DoesTrans
    <3>5. Quiet(b, c4, P, T, K)
      BY <1>4, <3>1, <3>4, FlagsQuiet
    <3> QED BY <1>10, <3>3, <3>5, DoesTrans
  <2>2. CASE "NOTIFY_WRITE" \notin c3.flags
    <3>1. c4 = c3
      BY <2>2 DEF CommitWrite
    <3> QED BY <1>10, <3>1, DoesTrans
  <2> QED BY <2>1, <2>2
<1> HIDE DEF c4
<1>12. Good(c4, P) /\ Data(c4, T, K) /\ c4 \in Cb /\ c4.err \in Errs
  <2>1. Good(c4, P) /\ Data(c4, T, K) /\ c4 \in Cb
    BY <1>10, <1>11, DoesTrans
  <2> QED BY <2>1, CbNumbers
<1>13. Quiet(c, c4, P, T, K)
  <2>1. Quiet(c, c2, P, T, K)
    BY <1>5, <1>7, DoesTrans
  <2>2. Quiet(c, c3, P, T, K)
    BY <1>9, <2>1, DoesTrans
  <2> QED BY <1>11, <2>2, DoesTrans
<1>14. Does(c, c4, P, T, K) /\ Tidy(c4)
  BY <1>13, DoesTrans
<1>15. CASE "NOTIFY_DROP" \in c4.flags
  <2> DEFINE b == Drop(c4, c4.err, u)
  <2>1. c5 = Off(b, {"NOTIFY_DROP"})
    BY <1>15 DEF CommitDrop
  <2>2. c4.err # "none"
    BY <1>12, <1>15 DEF Good, Kept, Phased
  <2>3. Does(c4, b, P, T, K) /\ b.st = "CLOSED" /\ b.err # "none"
    BY <1>12, <2>2, DropDoes
  <2> HIDE DEF b, c5
  <2>4. Good(b, P) /\ Data(b, T, K) /\ b \in Cb
    BY <1>12, <2>3, DoesTrans
  <2>5. {"NOTIFY_DROP"} \in SUBSET (CbFlags \ {"SENTFIN"})
    BY DEF CbFlags
  <2>6. Good(c5, P)
    BY <2>1, <2>4, <2>5, OffLeads DEF Leads
  <2>7. /\ Moves(b, c5, T, K) /\ c5.st = b.st /\ c5.flags = b.flags \ {"NOTIFY_DROP"}
        /\ c5.err = b.err
    BY <2>1, <2>4, <2>5, FlagsMove
  <2>8. Does(b, c5, P, T, K)
    BY <2>3, <2>6, <2>7 DEF Does, Pristine, Blank
  <2>9. Does(c, c5, P, T, K)
    BY <1>12, <1>14, <2>3, <2>8, DoesTrans
  <2>10. Tidy(c5) /\ "NOTIFY_DROP" \notin c5.flags
    BY <2>3, <2>7 DEF Tidy, Level, Settled, Doomed, Handshaking
  <2> QED BY <1>2, <2>9, <2>10
<1>16. CASE "NOTIFY_DROP" \notin c4.flags
  <2>1. c5 = c4
    BY <1>16 DEF CommitDrop
  <2> HIDE DEF c5
  <2> QED BY <1>2, <1>14, <1>16, <2>1
<1> QED BY <1>15, <1>16

============================================================================
