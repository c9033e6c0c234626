---------------------------- MODULE UdtCbProofs ----------------------------
(***************************************************************************)
(* The control block keeps its account, its order and its timers apart:    *)
(* facts about the operators of UdtCb, up to one call of output().         *)
(***************************************************************************)
EXTENDS UdtCb, UdtRcvBufProofs, FiniteSetTheorems

----------------------------------------------------------------------------
(* Types. *)

Errs == {"none", "eof", "timed_out", "connection_reset", "malformed_packet"}
CbFlags == {"ACKNOW", "DELACK", "NEED_OUTPUT", "NEED_RESET", "NOTIFY_READ",
            "NOTIFY_WRITE", "NOTIFY_DROP", "SENTFIN"}
Asserts == {"enter_persist", "check_rexmt_data", "get_snd_pkt", "output",
            "check_sack_option", "force_output", "handle_syn"}
Pkt == [seq : Nat, len : 1 .. MaxSeg, rx : BOOLEAN]
Half == [nxt : Nat, adv : Int, q : Seq(Nat), fin : {"none", "bare", "data"},
         reasm : SUBSET Packet, got : Seq(Nat), ok : BOOLEAN]
Datagram == [flags : SUBSET {"SYN", "FIN", "RST", "ACK"}, seq : Int, ack : Nat, len : Nat,
             win : Nat, sack : SUBSET (Nat \X Nat), pseq : Int]
Cb == [st : States, err : Errs, flags : SUBSET CbFlags,
       una : Nat, nxt : Nat, max : Nat, fack : Nat, retrans : Int,
       sb : SUBSET Pkt, sbseq : Nat, ops : Seq(Nat),
       wnd : Nat, cwnd : Nat \ {0}, dupacks : Nat, incr : BOOLEAN,
       shift : 0 .. MaxRxtShift, rtt : BOOLEAN, rtseq : Int, pseq : Int,
       rexmt : BOOLEAN, persist : BOOLEAN, keep : BOOLEAN, msl : BOOLEAN,
       r : Half, op : Nat, delay : BOOLEAN, handler : BOOLEAN, up : BOOLEAN,
       shut : BOOLEAN, deaf : BOOLEAN, told : BOOLEAN, out : Seq(Datagram), bad : SUBSET Asserts]
Inputs == [junk : Int, loss : BOOLEAN, idle : BOOLEAN, force : BOOLEAN, inp : BOOLEAN]

----------------------------------------------------------------------------
(* Sums over sets of packets. *)

BytesIn(S) == {x \in S \X (1 .. MaxSeg) : x[2] <= x[1].len}

\* A set of packets that start below a bound is finite.
LEMMA PktsFinite ==
  ASSUME NEW S \in SUBSET Pkt, NEW B \in Nat, \A p \in S : p.seq <= B
  PROVE  IsFiniteSet(S)
<1> DEFINE T == ((0 .. B) \X (1 .. MaxSeg)) \X BOOLEAN
           f == [p \in S |-> <<<<p.seq, p.len>>, p.rx>>]
<1>1. IsFiniteSet(T)
  <2>1. IsFiniteSet(0 .. B) /\ IsFiniteSet(1 .. MaxSeg)
    BY FS_Interval, RcvBufAssumption
  <2>2. IsFiniteSet((0 .. B) \X (1 .. MaxSeg))
    BY <2>1, FS_Product
  <2>3. IsFiniteSet({TRUE}) /\ IsFiniteSet({TRUE} \cup {FALSE})
    BY FS_Singleton, FS_AddElement
  <2>4. BOOLEAN = {TRUE} \cup {FALSE}
    OBVIOUS
  <2> QED BY <2>2, <2>3, <2>4, FS_Product
<1>2. \A p \in S : /\ p.seq \in 0 .. B /\ p.len \in 1 .. MaxSeg /\ p.rx \in BOOLEAN
                   /\ p = [seq |-> p.seq, len |-> p.len, rx |-> p.rx]
  BY DEF Pkt
<1>3. f \in [S -> T]
  BY <1>2
<1>4. \A p, o \in S : f[p] = f[o] => p = o
  <2> TAKE p, o \in S
  <2>1. f[p] = f[o] => p.seq = o.seq /\ p.len = o.len /\ p.rx = o.rx
    OBVIOUS
  <2> QED BY <1>2, <2>1
<1>5. f \in Injection(S, T)
  BY <1>3, <1>4 DEF Injection, IsInjective
<1> QED BY <1>1, <1>5, FS_Injection

\* The size of a finite set of packets is a number, and adds up.
LEMMA SumLenType ==
  ASSUME NEW S, IsFiniteSet(S)
  PROVE  IsFiniteSet(BytesIn(S)) /\ SumLen(S) = Cardinality(BytesIn(S)) /\ SumLen(S) \in Nat
<1>1. IsFiniteSet(S \X (1 .. MaxSeg))
  <2>1. IsFiniteSet(1 .. MaxSeg)
    BY FS_Interval, RcvBufAssumption
  <2> QED BY <2>1, FS_Product
<1>2. BytesIn(S) \in SUBSET (S \X (1 .. MaxSeg))
  BY DEF BytesIn
<1>3. IsFiniteSet(BytesIn(S))
  BY <1>1, <1>2, FS_Subset
<1> QED BY <1>3, FS_CardinalityType DEF SumLen, BytesIn

(* An empty send buffer holds no bytes. *)
LEMMA SumLenEmpty == SumLen({}) = 0
<1>1. BytesIn({}) = {}
  BY DEF BytesIn
<1> QED BY <1>1, FS_EmptySet DEF SumLen, BytesIn

(* The bytes of two sets of packets without a common one add up. *)
LEMMA SumLenUnion ==
  ASSUME NEW S, NEW T, IsFiniteSet(S), IsFiniteSet(T), S \cap T = {}
  PROVE  SumLen(S \cup T) = SumLen(S) + SumLen(T)
<1>1. /\ IsFiniteSet(BytesIn(S)) /\ SumLen(S) = Cardinality(BytesIn(S)) /\ SumLen(S) \in Nat
      /\ IsFiniteSet(BytesIn(T)) /\ SumLen(T) = Cardinality(BytesIn(T)) /\ SumLen(T) \in Nat
  BY SumLenType
<1>2. BytesIn(S \cup T) = BytesIn(S) \cup BytesIn(T)
  BY DEF BytesIn
<1>3. BytesIn(S) \cap BytesIn(T) = {}
  BY DEF BytesIn
<1>4. Cardinality(BytesIn(S) \cup BytesIn(T)) = SumLen(S) + SumLen(T)
  BY <1>1, <1>3, FS_Union, FS_EmptySet
<1>5. SumLen(S \cup T) = Cardinality(BytesIn(S \cup T))
  BY DEF SumLen, BytesIn
<1> QED BY <1>2, <1>4, <1>5

(* One packet has as many bytes as its length. *)
LEMMA SumLenOne ==
  ASSUME NEW p \in Pkt
  PROVE  SumLen({p}) = p.len
<1> DEFINE f == [k \in 1 .. p.len |-> <<p, k>>]
<1>1. p.len \in 1 .. MaxSeg /\ p.len \in Nat
  BY RcvBufAssumption DEF Pkt
<1>2. BytesIn({p}) = {<<p, k>> : k \in 1 .. p.len}
  <2>1. \A x \in {p} \X (1 .. MaxSeg) : x = <<p, x[2]>> /\ x[2] \in 1 .. MaxSeg /\ x[1] = p
    OBVIOUS
  <2>2. BytesIn({p}) \subseteq {<<p, k>> : k \in 1 .. p.len}
    <3> SUFFICES ASSUME NEW x \in BytesIn({p}) PROVE x \in {<<p, k>> : k \in 1 .. p.len}
      OBVIOUS
    <3>1. x \in {p} \X (1 .. MaxSeg) /\ x[2] <= x[1].len
      BY DEF BytesIn
    <3>2. x = <<p, x[2]>> /\ x[2] \in 1 .. p.len
      BY <1>1, <2>1, <3>1, RcvBufAssumption
    <3> QED BY <3>2
  <2>3. \A k \in 1 .. p.len : k \in 1 .. MaxSeg /\ k <= p.len
    BY <1>1, RcvBufAssumption
  <2>4. {<<p, k>> : k \in 1 .. p.len} \subseteq BytesIn({p})
    BY <2>3 DEF BytesIn
  <2> QED BY <2>2, <2>4
<1>3. f \in Surjection(1 .. p.len, BytesIn({p})) /\ f \in Injection(1 .. p.len, BytesIn({p}))
  <2>1. f \in [1 .. p.len -> BytesIn({p})]
    BY <1>2
  <2>2. \A t \in BytesIn({p}) : \E k \in 1 .. p.len : f[k] = t
    BY <1>2
  <2>3. \A a, b \in 1 .. p.len : f[a] = f[b] => a = b
    OBVIOUS
  <2> QED BY <2>1, <2>2, <2>3 DEF Surjection, Injection, IsInjective
<1>4. IsFiniteSet(1 .. p.len) /\ Cardinality(1 .. p.len) = p.len
  BY <1>1, FS_Interval
<1>5. Cardinality(BytesIn({p})) = p.len
  BY <1>3, <1>4, FS_Surjection
<1> QED BY <1>5 DEF SumLen, BytesIn

----------------------------------------------------------------------------
(* The invariant of one control block.                                      *)

\* What the invariant of one end says of the other: its m_snd_max and m_rcv_nxt.
Peers == [max : Nat, rcv : Nat]
View(c) == [max |-> c.max, rcv |-> c.r.nxt]

\* No application has been told of a connection, nothing has been sent or heard.
Unopened(c) == c.st = "LISTEN" \/ (c.st = "CLOSED" /\ c.err = "none")
Fresh(c) ==
  /\ c.una = 0 /\ c.nxt = 0 /\ c.max = 0 /\ c.fack = 0 /\ c.r.nxt = 0
  /\ c.sb = {} /\ c.ops = << >> /\ ~c.rexmt /\ ~c.persist
  /\ ~c.up /\ c.flags \subseteq {"NOTIFY_DROP", "NEED_RESET"}

Handshaking == {"SYN_SENT", "SYN_RECEIVED"}
Finishing == {"FIN_WAIT_1", "CLOSING", "LAST_ACK"}

\* What the state implies about this end.
Phased(c) ==
  /\ Unopened(c) => Fresh(c)
  /\ c.st \in Handshaking => c.max <= 1 /\ c.sb = {} /\ c.ops = << >> /\ ~c.persist /\ ~c.up
  /\ "SENTFIN" \in c.flags => c.st \in Finishing \cup {"FIN_WAIT_2", "TIME_WAIT", "CLOSED"}
  /\ "SENTFIN" \in c.flags /\ c.st \in Finishing => c.una < c.max
  /\ c.st \in {"CLOSE_WAIT", "CLOSING", "LAST_ACK", "TIME_WAIT"} => c.err # "none"
  /\ "NOTIFY_DROP" \in c.flags => c.err # "none"

\* What the state implies about the peer.
Opened(c, P) ==
  /\ c.st = "SYN_SENT" => c.r.nxt = 0
  /\ c.st \notin {"CLOSED", "LISTEN", "SYN_SENT"} => c.r.nxt >= 1
  /\ c.r.nxt >= 1 => P.max >= 1
  /\ c.up \/ c.st \notin Opening => c.r.nxt >= 1 /\ P.rcv >= 1

\* The packets of the send buffer, and how many bytes of it are marked.
Buffered(c) ==
  /\ \A p \in c.sb : p.seq + p.len <= c.sbseq /\ (p.rx => p.seq < c.max)
  /\ \A p, o \in c.sb : p.seq = o.seq => p = o
  /\ c.retrans = SumLen(Marked(c.sb))

\* A datagram takes no sequence number its sender s has not counted in
\* m_snd_max, and its SACK blocks end within what its receiver r has sent; only a
\* SYN or a reset goes to an end that has not counted the SYN of the sender, and
\* what acknowledges comes from an end that has counted one.
Sound(m, s, r) ==
  /\ m.len > 0 \/ "SYN" \in m.flags \/ "FIN" \in m.flags =>
       m.seq \in Nat /\ m.seq + m.len + (IF "SYN" \in m.flags THEN 1 ELSE 0) <= s.max
  /\ \A b \in m.sack : b[2] <= r.max
  /\ "RST" \notin m.flags =>
       /\ "SYN" \in m.flags => m.seq = 0 /\ m.len = 0
       /\ "SYN" \notin m.flags => r.rcv >= 1
       /\ "ACK" \in m.flags => m.ack >= 1 /\ s.rcv >= 1

\* What has come from the peer and goes to it.
Heard(c, P) ==
  /\ \A p \in c.r.reasm : p.seq + p.len <= P.max
  /\ \A i \in 1 .. Len(c.out) : Sound(c.out[i], View(c), P)
  /\ Len(c.r.q) <= RcvHiWat

\* Between the choice of a packet and its segment snd_nxt may be ahead of
\* snd_max; everywhere else it is not.
Kept(c, P) ==
  /\ c \in Cb
  /\ c.una <= c.nxt /\ c.una <= c.fack /\ c.fack <= c.max
  /\ ~(c.rexmt /\ c.persist)
  /\ Phased(c) /\ Opened(c, P) /\ Buffered(c) /\ Heard(c, P)
  /\ "enter_persist" \notin c.bad /\ "check_rexmt_data" \notin c.bad
Good(c, P) == Kept(c, P) /\ c.nxt <= c.max

\* In the middle of handle_ack these two may not hold.
Wide(c) == c.cwnd >= MinCwnd
Acked(c) == c.up \/ c.st \notin Opening => c.una >= 1

\* What an operator that turns c into d has to show.
Leads(c, d, P) ==
  /\ Good(d, P)
  /\ c.max <= d.max /\ (c.r.nxt >= 1 => d.r.nxt >= 1)
  /\ Wide(c) => Wide(d)
  /\ Acked(c) => Acked(d)

\* What one round of output() leaves alone.
OutFrame(c, d) ==
  /\ d.st = c.st /\ d.err = c.err /\ d.una = c.una /\ d.up = c.up /\ d.cwnd = c.cwnd
  /\ d.r.nxt = c.r.nxt /\ c.max <= d.max

\* c and d agree on what the invariant is about.
Same(c, d) ==
  /\ c.st = d.st /\ c.err = d.err /\ c.una = d.una /\ c.nxt = d.nxt /\ c.max = d.max
  /\ c.fack = d.fack /\ c.retrans = d.retrans /\ c.sb = d.sb /\ c.sbseq = d.sbseq
  /\ c.ops = d.ops /\ c.rexmt = d.rexmt /\ c.persist = d.persist /\ c.up = d.up
  /\ c.r.nxt = d.r.nxt /\ c.r.reasm = d.r.reasm /\ c.r.q = d.r.q /\ c.out = d.out
  /\ c.r.got = d.r.got /\ c.r.fin = d.r.fin /\ c.told = d.told
  /\ "SENTFIN" \in c.flags <=> "SENTFIN" \in d.flags
  /\ "NOTIFY_DROP" \in c.flags <=> "NOTIFY_DROP" \in d.flags
  /\ Unopened(c) => d.flags \subseteq c.flags \cup {"NEED_RESET"}
  /\ "enter_persist" \in c.bad <=> "enter_persist" \in d.bad
  /\ "check_rexmt_data" \in c.bad <=> "check_rexmt_data" \in d.bad

(* A step that leaves alone what the invariant reads keeps it. *)
LEMMA SameGood ==
  ASSUME NEW P \in Peers, NEW c, NEW d \in Cb, Same(c, d)
  PROVE  /\ Kept(c, P) => Kept(d, P)
         /\ Good(c, P) => Good(d, P)
         /\ Good(c, P) /\ d.cwnd = c.cwnd => Leads(c, d, P)
<1>1. Phased(c) => Phased(d)
  <2>1. Unopened(d) => Unopened(c)
    BY DEF Unopened, Same
  <2>2. Unopened(c) /\ Fresh(c) => Fresh(d)
    BY DEF Fresh, Same
  <2> QED BY <2>1, <2>2 DEF Phased, Same
<1>2. Buffered(c) => Buffered(d)
  BY DEF Buffered, Same
<1>3. Heard(c, P) => Heard(d, P)
  BY DEF Heard, Same, View
<1>4. Opened(c, P) => Opened(d, P)
  BY DEF Opened, Same
<1>5. (Kept(c, P) => Kept(d, P)) /\ (Good(c, P) => Good(d, P))
  BY <1>1, <1>2, <1>3, <1>4 DEF Kept, Good, Same
<1>6. d.cwnd = c.cwnd => (Wide(c) => Wide(d)) /\ (Acked(c) => Acked(d))
  BY DEF Wide, Acked, Same
<1>7. Good(c, P) => c.max \in Nat
  BY DEF Good, Kept, Cb
<1> QED BY <1>5, <1>6, <1>7 DEF Leads, Same

\* A send buffer that stays, while snd_max grows; what was heard likewise.
LEMMA BufferedGrows ==
  ASSUME NEW c \in Cb, NEW d \in Cb, Buffered(c), c.max <= d.max,
         d.sb = c.sb, d.sbseq = c.sbseq, d.retrans = c.retrans
  PROVE  Buffered(d)
<1>1. c.sb \in SUBSET Pkt /\ c.max \in Nat /\ d.max \in Nat
  BY DEF Cb
<1>2. \A p \in c.sb : p.seq \in Nat
  BY <1>1 DEF Pkt
<1>3. \A p \in d.sb : p.seq + p.len <= d.sbseq /\ (p.rx => p.seq < d.max)
  BY <1>1, <1>2 DEF Buffered
<1> QED BY <1>3 DEF Buffered

(* A datagram stays sound while its sender sends more. *)
LEMMA SoundGrows ==
  ASSUME NEW m \in Datagram, NEW s \in Peers, NEW r \in Peers, NEW t \in Peers, NEW q \in Peers,
         Sound(m, s, r), s.max <= t.max, r.max <= q.max,
         s.rcv >= 1 => t.rcv >= 1, r.rcv >= 1 => q.rcv >= 1
  PROVE  Sound(m, t, q)
<1>1. m.len \in Nat /\ s.max \in Nat /\ t.max \in Nat /\ r.max \in Nat /\ q.max \in Nat
  BY DEF Datagram, Peers
<1>2. m.sack \in SUBSET (Nat \X Nat)
  BY DEF Datagram
<1>3. \A b \in m.sack : b[2] \in Nat
  BY <1>2
<1>4. \A b \in m.sack : b[2] <= q.max
  BY <1>1, <1>3 DEF Sound
<1>5. m.len > 0 \/ "SYN" \in m.flags \/ "FIN" \in m.flags =>
        m.seq \in Nat /\ m.seq + m.len + (IF "SYN" \in m.flags THEN 1 ELSE 0) <= t.max
  BY <1>1 DEF Sound
<1> QED BY <1>4, <1>5 DEF Sound

(* What an end has heard of its peer stays sent while the peer sends more. *)
LEMMA HeardGrows ==
  ASSUME NEW P \in Peers, NEW c \in Cb, NEW d \in Cb, Heard(c, P), c.max <= d.max,
         c.r.nxt >= 1 => d.r.nxt >= 1,
         d.r.reasm = c.r.reasm, d.r.q = c.r.q, d.out = c.out
  PROVE  Heard(d, P)
<1>1. View(c) \in Peers /\ View(d) \in Peers
  BY DEF Cb, Half, View, Peers
<1>2. \A i \in 1 .. Len(c.out) : c.out[i] \in Datagram
  <2>1. c.out \in Seq(Datagram)
    BY DEF Cb
  <2> QED BY <2>1, ElementOfSeq
<1>3. View(c).max = c.max /\ View(d).max = d.max /\ View(c).rcv = c.r.nxt /\ View(d).rcv = d.r.nxt
  BY DEF View
<1>4. P.max <= P.max
  BY DEF Peers
<1>5. \A i \in 1 .. Len(d.out) : Sound(d.out[i], View(d), P)
  BY <1>1, <1>2, <1>3, <1>4, SoundGrows DEF Heard
<1> QED BY <1>5 DEF Heard

\* The numbers of a control block.
LEMMA CbNumbers ==
  ASSUME NEW c \in Cb
  PROVE  /\ c.una \in Nat /\ c.nxt \in Nat /\ c.max \in Nat /\ c.fack \in Nat
         /\ c.retrans \in Int /\ c.sbseq \in Nat /\ c.wnd \in Nat /\ c.cwnd \in Nat \ {0}
         /\ c.sb \in SUBSET Pkt /\ c.ops \in Seq(Nat) /\ c.out \in Seq(Datagram)
         /\ c.r \in Half /\ c.flags \in SUBSET CbFlags /\ c.st \in States /\ c.err \in Errs
         /\ c.rexmt \in BOOLEAN /\ c.persist \in BOOLEAN /\ c.up \in BOOLEAN
         /\ c.shift \in 0 .. MaxRxtShift /\ c.bad \in SUBSET Asserts
  BY DEF Cb

\* Packets of a send buffer are finitely many.
LEMMA BufferFinite ==
  ASSUME NEW P \in Peers, NEW c, Kept(c, P), NEW S \in SUBSET c.sb
  PROVE  IsFiniteSet(S)
<1>1. c.sb \in SUBSET Pkt /\ c.sbseq \in Nat
  BY CbNumbers DEF Kept
<1>2. \A p \in S : p.seq <= c.sbseq
  <2> TAKE p \in S
  <2>1. p \in Pkt /\ p.seq \in Nat /\ p.len \in Nat /\ p.seq + p.len <= c.sbseq
    BY <1>1, RcvBufAssumption DEF Kept, Buffered, Pkt
  <2> QED BY <1>1, <2>1
<1> QED BY <1>1, <1>2, PktsFinite

----------------------------------------------------------------------------
(* Small operators. *)

\* pending_data() is zero exactly when every queued operation is empty.
NoOps(c) == \A i \in 1 .. Len(c.ops) : c.ops[i] = 0
(* pending_data() sums the queued operations: it is zero when each of them is. *)
LEMMA PendingFacts ==
  ASSUME NEW c, c.ops \in Seq(Nat)
  PROVE  /\ Pending(c) \in Nat
         /\ Pending(c) = 0 <=> NoOps(c)
         /\ c.ops = << >> => Pending(c) = 0
<1> DEFINE N == 1 .. Len(c.ops)
           E(i) == {i} \X (1 .. c.ops[i])
           F == [i \in N |-> E(i)]
           S == {E(i) : i \in N}
<1>1. Len(c.ops) \in Nat /\ DOMAIN c.ops = N /\ \A i \in N : c.ops[i] \in Nat
  BY ElementOfSeq, LenProperties
<1>2. IsFiniteSet(S)
  <2>1. IsFiniteSet(N)
    BY <1>1, FS_Interval
  <2>2. F \in Surjection(N, S)
    BY DEF Surjection
  <2> QED BY <2>1, <2>2, FS_Surjection
<1>3. \A T \in S : IsFiniteSet(T)
  <2> TAKE T \in S
  <2>1. PICK i \in N : T = E(i)
    OBVIOUS
  <2>2. IsFiniteSet(1 .. c.ops[i])
    <3>1. c.ops[i] \in Int /\ 1 \in Int
      BY <1>1
    <3> QED BY <3>1, FS_Interval
  <2>3. IsFiniteSet({i})
    BY FS_Singleton
  <2> QED BY <2>1, <2>2, <2>3, FS_Product
<1>4. IsFiniteSet(UNION S)
  BY <1>2, <1>3, FS_UNION
<1>5. Pending(c) = Cardinality(UNION S)
  BY <1>1 DEF Pending
<1>6. Pending(c) \in Nat /\ (Pending(c) = 0 <=> UNION S = {})
  BY <1>4, <1>5, FS_CardinalityType, FS_EmptySet
<1>7. ASSUME UNION S = {}
      PROVE  NoOps(c)
  <2>1. SUFFICES ASSUME NEW i \in N, c.ops[i] # 0
                 PROVE  FALSE
    BY DEF NoOps
  <2>2. 1 \in 1 .. c.ops[i]
    BY <1>1, <2>1
  <2>3. <<i, 1>> \in E(i)
    BY <2>2
  <2> QED BY <1>7, <2>3
<1>8. ASSUME NoOps(c)
      PROVE  UNION S = {}
  <2>1. SUFFICES ASSUME NEW i \in N
                 PROVE  E(i) = {}
    OBVIOUS
  <2>2. 1 .. c.ops[i] = {}
    BY <1>8 DEF NoOps
  <2> QED BY <2>2
<1>9. c.ops = << >> => NoOps(c)
  BY EmptySeq DEF NoOps
<1> QED BY <1>6, <1>7, <1>8, <1>9

\* Flags other than the two the invariant reads do not matter.
LEMMA OnKeeps ==
  ASSUME NEW c \in Cb, NEW fs \in SUBSET (CbFlags \ {"SENTFIN", "NOTIFY_DROP"})
  PROVE  /\ On(c, fs) \in Cb /\ On(c, fs) = [c EXCEPT !.flags = @ \cup fs]
         /\ ~Unopened(c) \/ fs = {"NEED_RESET"} => Same(c, On(c, fs))
         /\ Off(c, fs) \in Cb /\ Same(c, Off(c, fs)) /\ Off(c, fs) = [c EXCEPT !.flags = @ \ fs]
<1> DEFINE d == On(c, fs)
           e == Off(c, fs)
<1>1. d \in Cb /\ e \in Cb
  BY ZenonT(40) DEF Cb, On, Off
<1>2. d = [c EXCEPT !.flags = c.flags \cup fs] /\ e = [c EXCEPT !.flags = c.flags \ fs]
  BY DEF On, Off
<1>3. /\ d.flags = c.flags \cup fs /\ e.flags = c.flags \ fs
      /\ "SENTFIN" \notin fs /\ "NOTIFY_DROP" \notin fs
  BY <1>1, <1>2 DEF Cb
<1> HIDE DEF d, e
<1>4. ~Unopened(c) \/ fs = {"NEED_RESET"} => Same(c, d)
  BY <1>2, <1>3 DEF Same, Cb
<1>5. Same(c, e)
  BY <1>2, <1>3 DEF Same, Cb
<1> QED BY <1>1, <1>2, <1>4, <1>5 DEF d, e

(* An assertion other than the two that are proved may fail, and is only noted. *)
LEMMA AssertKeeps ==
  ASSUME NEW c \in Cb, NEW name \in Asserts, NEW b \in BOOLEAN,
         b \/ name \notin {"enter_persist", "check_rexmt_data"}
  PROVE  LET d == Assert_(c, name, b)
         IN  d \in Cb /\ Same(c, d) /\ d = [c EXCEPT !.bad = d.bad]
<1> DEFINE d == [c EXCEPT !.bad = @ \cup {name}]
<1>1. c.bad \cup {name} \in SUBSET Asserts
  BY DEF Cb
<1>2. d \in Cb
  BY ZenonT(40), <1>1 DEF Cb
<1>3. CASE b
  <2>1. Assert_(c, name, b) = c
    BY <1>3 DEF Assert_
  <2> QED BY <2>1 DEF Same, Cb
<1>4. CASE ~b
  <2>1. Assert_(c, name, b) = d
    BY <1>4 DEF Assert_
  <2>2. Same(c, d)
    BY <1>4 DEF Same, Cb
  <2>3. d = [c EXCEPT !.bad = d.bad]
    BY DEF Cb
  <2> QED BY <1>2, <2>1, <2>2, <2>3
<1> QED BY <1>3, <1>4

\* leave_persist stops the one timer.
LEMMA LeavePersistKeeps ==
  ASSUME NEW P \in Peers, NEW c, Kept(c, P)
  PROVE  LET d == LeavePersist(c)
         IN  /\ Kept(d, P) /\ (Good(c, P) => Good(d, P))
             /\ d = [c EXCEPT !.persist = FALSE, !.shift = d.shift]
<1> DEFINE d == LeavePersist(c)
<1>1. c \in Cb
  BY DEF Kept
<1>2. d \in Cb /\ d = [c EXCEPT !.persist = FALSE, !.shift = d.shift]
  <2>1. CASE c.persist
    <3>1. d = [c EXCEPT !.persist = FALSE, !.shift = 0] /\ 0 \in 0 .. MaxRxtShift
      BY <2>1, CbAssumption DEF LeavePersist
    <3> HIDE DEF d
    <3>2. d \in Cb /\ d.shift = 0
      BY ZenonT(60), <1>1, <3>1 DEF Cb
    <3> QED BY <3>1, <3>2
  <2>2. CASE ~c.persist
    <3>1. d = c /\ c.persist = FALSE
      BY <1>1, <2>2, CbNumbers DEF LeavePersist
    <3>2. c = [c EXCEPT !.persist = FALSE, !.shift = c.shift]
      BY <1>1, <3>1 DEF Cb
    <3> QED BY <1>1, <3>1, <3>2
  <2> QED BY <2>1, <2>2
<1> HIDE DEF d
<1>3. /\ d.st = c.st /\ d.err = c.err /\ d.flags = c.flags /\ d.up = c.up /\ d.r = c.r
      /\ d.una = c.una /\ d.nxt = c.nxt /\ d.fack = c.fack /\ d.max = c.max
      /\ d.sb = c.sb /\ d.sbseq = c.sbseq /\ d.retrans = c.retrans /\ d.ops = c.ops
      /\ d.out = c.out /\ d.bad = c.bad /\ d.rexmt = c.rexmt /\ d.persist = FALSE
  BY ZenonT(60), <1>1, <1>2 DEF Cb
<1>4. Phased(c) => Phased(d)
  BY <1>3 DEF Phased, Fresh, Unopened
<1>5. Buffered(c) => Buffered(d)
  BY <1>3 DEF Buffered
<1>6. Heard(c, P) => Heard(d, P)
  BY <1>3 DEF Heard, View
<1>7. Opened(c, P) => Opened(d, P)
  BY <1>3 DEF Opened
<1> QED BY <1>2, <1>3, <1>4, <1>5, <1>6, <1>7 DEF Kept, Good, d

\* enter_persist, when the retransmit timer does not run and there is something
\* to send.
LEMMA EnterPersistKeeps ==
  ASSUME NEW P \in Peers, NEW c, Good(c, P), ~c.rexmt,
         c.st \notin Handshaking, ~Unopened(c)
  PROVE  LET d == EnterPersist(c)
         IN  Good(d, P) /\ d = [c EXCEPT !.persist = TRUE, !.shift = d.shift]
<1> DEFINE d == EnterPersist(c)
<1>1. c \in Cb
  BY DEF Kept, Good
<1>2. Least(c.shift + 1, MaxRxtShift) \in 0 .. MaxRxtShift
  BY <1>1, CbNumbers, CbAssumption DEF Least
<1>3. d = [c EXCEPT !.persist = TRUE, !.shift = Least(c.shift + 1, MaxRxtShift)]
  BY DEF EnterPersist, Assert_
<1> HIDE DEF d
<1>4. d \in Cb /\ d.shift = Least(c.shift + 1, MaxRxtShift)
  BY ZenonT(60), <1>1, <1>2, <1>3 DEF Cb
<1>5. d = [c EXCEPT !.persist = TRUE, !.shift = d.shift]
  BY <1>3, <1>4
<1>6. /\ d.st = c.st /\ d.err = c.err /\ d.flags = c.flags /\ d.up = c.up /\ d.r = c.r
      /\ d.una = c.una /\ d.nxt = c.nxt /\ d.fack = c.fack /\ d.max = c.max
      /\ d.sb = c.sb /\ d.sbseq = c.sbseq /\ d.retrans = c.retrans /\ d.ops = c.ops
      /\ d.out = c.out /\ d.bad = c.bad /\ d.rexmt = FALSE
  BY ZenonT(60), <1>1, <1>5 DEF Cb
<1>7. Phased(d)
  BY <1>6 DEF Phased, Unopened, Good, Kept
<1>8. Buffered(d)
  BY <1>6 DEF Buffered, Good, Kept
<1>9. Heard(d, P)
  BY <1>6 DEF Heard, View, Good, Kept
<1>10. Opened(d, P)
  BY <1>6 DEF Opened, Good, Kept
<1> QED BY <1>4, <1>5, <1>6, <1>7, <1>8, <1>9, <1>10 DEF Kept, Good, d

----------------------------------------------------------------------------
(* The send buffer. *)

\* A chain of steps that each keep a property keeps it: the loops of
\* consume_pending_data and output are such chains.
LEMMA ChainKeeps ==
  ASSUME NEW n \in Nat, NEW T \in SUBSET (0 .. n), 0 \in T,
         \A k \in 1 .. n : k - 1 \in T => k \in T
  PROVE  n \in T
<1> DEFINE U == (0 .. n) \ T
<1>1. SUFFICES ASSUME n \notin T PROVE FALSE
  OBVIOUS
<1>2. U \in SUBSET Nat /\ U # {}
  BY <1>1
<1>3. PICK m \in U : \A k \in U : m <= k
  BY <1>2, LeastExists
<1>4. m \in 1 .. n /\ m - 1 \in 0 .. n /\ m - 1 \notin U
  BY <1>3
<1> QED BY <1>3, <1>4

(* Multiples of a positive number: the last one that is not above x, and the distance *)
(* of two of them.  append cuts the data at the multiples of m_maxseg.                *)
LEMMA Multiples ==
  ASSUME NEW M \in Nat \ {0}
  PROVE  /\ \A k \in Nat : k * M \in Nat /\ k <= k * M
         /\ \A k, j \in Nat : k < j => k * M + M <= j * M
         /\ \A x \in Nat : \E k \in 0 .. x : k * M <= x /\ x < k * M + M
<1>1. \A k \in Nat : k * M \in Nat /\ k <= k * M
  <2> TAKE k \in Nat
  <2>1. k * M = k + k * (M - 1) /\ k * (M - 1) >= 0
    <3>1. \A y \in Nat, z \in Nat : y * z >= 0
      BY SMTT(30)
    <3>2. M - 1 \in Nat
      OBVIOUS
    <3> QED BY <3>1, <3>2
  <2> QED BY <2>1
<1>2. \A k, j \in Nat : k < j => k * M + M <= j * M
  <2> TAKE k, j \in Nat
  <2> HAVE k < j
  <2>1. j - k - 1 \in Nat
    OBVIOUS
  <2>2. (j - k - 1) * M \in Nat
    BY <1>1, <2>1
  <2>3. (j - k - 1) * M = j * M - k * M - M
    OBVIOUS
  <2>4. j * M \in Nat /\ k * M \in Nat
    BY <1>1
  <2> QED BY <2>2, <2>3, <2>4
<1>3. ASSUME NEW x \in Nat
      PROVE  \E k \in 0 .. x : k * M <= x /\ x < k * M + M
  <2> DEFINE U == {j \in 1 .. x + 1 : x < j * M}
  <2>1. x + 1 \in U
    BY <1>1
  <2>2. PICK j \in U : \A i \in U : j <= i
    <3>1. U \subseteq Nat /\ U # {}
      <4>1. \A j \in 1 .. x + 1 : j \in Nat
        OBVIOUS
      <4> QED BY <2>1, <4>1
    <3> HIDE DEF U
    <3> QED BY <3>1, LeastExists
  <2>3. j \in 1 .. x + 1 /\ x < j * M /\ j - 1 \in 0 .. x
    BY <2>2
  <2>4. (j - 1) * M <= x
    <3>1. CASE j = 1
      BY <3>1
    <3>2. CASE j # 1
      <4>1. j - 1 \in 1 .. x + 1 /\ j - 1 \notin U
        BY <2>2, <2>3, <3>2
      <4>2. (j - 1) * M \in Nat
        BY <1>1, <4>1
      <4> QED BY <4>1, <4>2
    <3> QED BY <3>1, <3>2
  <2>5. (j - 1) * M + M = j * M
    <3>1. \A y \in Int, z \in Int : (y - 1) * z + z = y * z
      BY SMTT(30)
    <3>2. j \in Int /\ M \in Int
      BY <2>3
    <3> QED BY <3>1, <3>2
  <2> QED BY <2>3, <2>4, <2>5
<1> QED BY <1>1, <1>2, <1>3

\* append cuts new data into packets that hold every byte of it once.
LEMMA CutFacts ==
  ASSUME NEW seq \in Nat, NEW n \in Nat
  PROVE  /\ Cut(seq, n) \in SUBSET Pkt
         /\ \A p \in Cut(seq, n) : p.seq >= seq /\ p.seq + p.len <= seq + n /\ ~p.rx
         /\ \A p, o \in Cut(seq, n) : p.seq = o.seq => p = o
         /\ \A p, o \in Cut(seq, n) :
              p = o \/ p.seq + p.len <= o.seq \/ o.seq + o.len <= p.seq
         /\ \A b \in seq .. seq + n - 1 : \E p \in Cut(seq, n) : Holds(p, b)
<1> DEFINE M == MaxSeg
           X == {j \in 0 .. n : j * M < n}
           pkt(k) == [seq |-> seq + k * M, len |-> Least(M, n - k * M), rx |-> FALSE]
<1>1. Cut(seq, n) = {pkt(k) : k \in X}
  BY DEF Cut
<1>2. M \in Nat \ {0}
  BY RcvBufAssumption
<1>3. ASSUME NEW k \in X
      PROVE  /\ pkt(k) \in Pkt /\ pkt(k).seq = seq + k * M /\ ~pkt(k).rx /\ k * M \in Nat
             /\ pkt(k).len <= M /\ pkt(k).len <= n - k * M
             /\ pkt(k).len = M \/ pkt(k).len = n - k * M
  <2>1. k \in Nat /\ k * M \in Nat /\ k * M < n
    BY <1>2, Multiples
  <2>2. /\ Least(M, n - k * M) \in 1 .. M /\ Least(M, n - k * M) <= n - k * M
        /\ Least(M, n - k * M) = M \/ Least(M, n - k * M) = n - k * M
    BY <1>2, <2>1 DEF Least
  <2> QED BY <2>1, <2>2 DEF Pkt
<1>4. ASSUME NEW k \in X, NEW j \in X
      PROVE  k = j \/ pkt(k).seq + pkt(k).len <= pkt(j).seq \/ pkt(j).seq + pkt(j).len <= pkt(k).seq
  <2>1. k \in Nat /\ j \in Nat /\ (k < j => k * M + M <= j * M) /\ (j < k => j * M + M <= k * M)
    BY <1>2, Multiples
  <2>2. /\ pkt(k).seq = seq + k * M /\ pkt(k).len \in Nat /\ pkt(k).len <= M /\ k * M \in Nat
        /\ pkt(j).seq = seq + j * M /\ pkt(j).len \in Nat /\ pkt(j).len <= M /\ j * M \in Nat
    BY <1>3 DEF Pkt
  <2> HIDE DEF X, pkt
  <2>3. k = j \/ k < j \/ j < k
    BY <2>1
  <2> QED BY <1>2, <2>1, <2>2, <2>3
<1>5. ASSUME NEW b \in seq .. seq + n - 1
      PROVE  \E k \in X : Holds(pkt(k), b)
  <2>1. b - seq \in Nat /\ b - seq < n
    OBVIOUS
  <2>2. PICK k \in 0 .. b - seq : k * M <= b - seq /\ b - seq < k * M + M
    BY <1>2, <2>1, Multiples
  <2>3. k \in Nat /\ k * M \in Nat
    BY <1>2, <2>1, <2>2, Multiples
  <2>4. k \in X
    BY <2>1, <2>2, <2>3
  <2>5. pkt(k).seq = seq + k * M /\ (pkt(k).len = M \/ pkt(k).len = n - k * M)
    BY <1>3, <2>4
  <2> HIDE DEF pkt, X
  <2>6. Holds(pkt(k), b)
    BY <1>2, <2>1, <2>2, <2>3, <2>5 DEF Holds
  <2> QED BY <2>4, <2>6
<1> HIDE DEF pkt, X, M
<1>6. \A p \in Cut(seq, n) : p \in Pkt /\ p.seq >= seq /\ p.seq + p.len <= seq + n /\ ~p.rx
  <2> TAKE p \in Cut(seq, n)
  <2>1. PICK k \in X : p = pkt(k)
    BY <1>1
  <2>2. /\ p \in Pkt /\ p.seq = seq + k * M /\ ~p.rx /\ k * M \in Nat /\ p.len <= n - k * M
        /\ p.len \in Nat
    BY <1>3, <2>1 DEF Pkt
  <2> QED BY <2>2
<1>7. \A p, o \in Cut(seq, n) :
         p = o \/ p.seq + p.len <= o.seq \/ o.seq + o.len <= p.seq
  BY <1>1, <1>4
<1>8. \A p, o \in Cut(seq, n) : p.seq = o.seq => p = o
  BY <1>6, <1>7 DEF Pkt
<1>9. \A b \in seq .. seq + n - 1 : \E p \in Cut(seq, n) : Holds(p, b)
  BY <1>1, <1>5
<1> QED BY <1>6, <1>7, <1>8, <1>9

\* One send operation: its packets start where the buffer ended.
LEMMA ConsumeOneKeeps ==
  ASSUME NEW P \in Peers, NEW c, Good(c, P)
  PROVE  LET d == ConsumeOne(c)
         IN  /\ Good(d, P)
             /\ d = [c EXCEPT !.sb = d.sb, !.sbseq = d.sbseq, !.ops = d.ops]
<1> DEFINE d == ConsumeOne(c)
<1>1. c \in Cb
  BY DEF Good, Kept
<1>2. CASE c.ops = << >> \/ Head(c.ops) > SndHiWat - SumLen(c.sb)
  <2>1. d = c
    BY <1>2 DEF ConsumeOne
  <2> QED BY <1>1, <2>1 DEF Cb
<1>3. CASE ~(c.ops = << >> \/ Head(c.ops) > SndHiWat - SumLen(c.sb))
  <2> DEFINE n == Head(c.ops)
             C == Cut(c.sbseq, n)
  <2>1. d = [c EXCEPT !.sb = @ \cup C, !.sbseq = @ + n, !.ops = Tail(@)]
    BY <1>3 DEF ConsumeOne
  <2>2. n \in Nat /\ Tail(c.ops) \in Seq(Nat) /\ c.sbseq \in Nat
    BY <1>1, <1>3, CbNumbers, HeadTailProperties
  <2>3. /\ C \in SUBSET Pkt
        /\ \A p \in C : p.seq >= c.sbseq /\ p.seq + p.len <= c.sbseq + n /\ ~p.rx
        /\ \A p, o \in C : p.seq = o.seq => p = o
    BY <2>2, CutFacts
  <2> HIDE DEF n, C, d
  <2>4. d \in Cb
    <3>1. c.sb \cup C \in SUBSET Pkt /\ c.sbseq + n \in Nat
      BY <1>1, <2>2, <2>3, CbNumbers
    <3> QED BY ZenonT(40), <1>1, <2>1, <2>2, <3>1 DEF Cb
  <2>5. /\ d.sb = c.sb \cup C /\ d.sbseq = c.sbseq + n /\ d.ops = Tail(c.ops)
        /\ d = [c EXCEPT !.sb = d.sb, !.sbseq = d.sbseq, !.ops = d.ops]
    BY <1>1, <2>1 DEF Cb
  <2>6. /\ d.una = c.una /\ d.nxt = c.nxt /\ d.fack = c.fack /\ d.max = c.max
        /\ d.rexmt = c.rexmt /\ d.persist = c.persist /\ d.st = c.st /\ d.err = c.err
        /\ d.flags = c.flags /\ d.up = c.up /\ d.r = c.r /\ d.out = c.out /\ d.bad = c.bad
        /\ d.retrans = c.retrans
    BY ZenonT(60), <1>1, <2>5 DEF Cb
  <2>7. Heard(d, P) /\ Opened(d, P)
    BY <2>6 DEF Heard, Opened, View, Good, Kept
  <2>8. Phased(d)
    BY <1>3, <2>6 DEF Phased, Fresh, Unopened, Good, Kept
  <2>9. Buffered(d)
    <3>1. \A p \in c.sb : p.seq \in Nat /\ p.len \in Nat /\ p.len >= 1 /\ p.seq + p.len <= c.sbseq
      BY <1>1, CbNumbers, RcvBufAssumption DEF Good, Kept, Buffered, Pkt
    <3>2. \A p \in C : p.seq \in Nat /\ p.len \in Nat
      BY <2>3, RcvBufAssumption DEF Pkt
    <3>3. \A p \in d.sb : p.seq + p.len <= d.sbseq /\ (p.rx => p.seq < d.max)
      BY <2>2, <2>3, <2>5, <2>6, <3>1, <3>2 DEF Good, Kept, Buffered
    <3>4. ASSUME NEW p \in d.sb, NEW o \in d.sb, p.seq = o.seq
          PROVE  p = o
      <4>1. CASE p \in c.sb /\ o \in c.sb
        BY <3>4, <4>1 DEF Good, Kept, Buffered
      <4>2. CASE p \in C /\ o \in C
        BY <2>3, <3>4, <4>2
      <4>3. CASE p \in c.sb /\ o \in C
        BY <2>2, <2>3, <3>1, <3>2, <3>4, <4>3
      <4>4. CASE p \in C /\ o \in c.sb
        BY <2>2, <2>3, <3>1, <3>2, <3>4, <4>4
      <4> QED BY <2>5, <4>1, <4>2, <4>3, <4>4
    <3>5. Marked(d.sb) = Marked(c.sb)
      BY <2>3, <2>5 DEF Marked
    <3> QED BY <2>6, <3>3, <3>4, <3>5 DEF Good, Kept, Buffered
  <2> QED BY <2>4, <2>5, <2>6, <2>7, <2>8, <2>9 DEF Good, Kept, d
<1> QED BY <1>2, <1>3

(* consume_pending_data: the send operations one by one. *)
LEMMA ConsumeKeeps ==
  ASSUME NEW P \in Peers, NEW c, Good(c, P)
  PROVE  LET d == ConsumePendingData(c)
         IN  /\ Good(d, P)
             /\ d = [c EXCEPT !.sb = d.sb, !.sbseq = d.sbseq, !.ops = d.ops]
<1> DEFINE N == Len(c.ops)
           step(f, k) == IF k = 0 THEN c ELSE ConsumeOne(f[k - 1])
           Fits(n) == \E f : f = [k \in 0 .. n |-> step(f, k)]
           T == {n \in 0 .. N : Fits(n)}
           after == CHOOSE f : f = [k \in 0 .. N |-> step(f, k)]
           Fine(d) == /\ Good(d, P)
                      /\ d = [c EXCEPT !.sb = d.sb, !.sbseq = d.sbseq, !.ops = d.ops]
<1>1. c \in Cb /\ N \in Nat
  BY LenProperties DEF Good, Kept, Cb
<1>2. Fits(N)
  <2>1. Fits(0)
    <3> DEFINE f == [k \in 0 .. 0 |-> c]
    <3>1. f = [k \in 0 .. 0 |-> step(f, k)]
      OBVIOUS
    <3> QED BY <3>1
  <2>2. ASSUME NEW n \in 1 .. N, Fits(n - 1)
        PROVE  Fits(n)
    <3>1. PICK f : f = [k \in 0 .. n - 1 |-> step(f, k)]
      BY <2>2
    <3> DEFINE g == [k \in 0 .. n |-> step(f, k)]
    <3>2. \A k \in 0 .. n - 1 : g[k] = f[k]
      BY <3>1
    <3>3. \A k \in 0 .. n : k # 0 => k - 1 \in 0 .. n - 1
      OBVIOUS
    <3> HIDE DEF g
    <3>4. \A k \in 0 .. n : step(f, k) = step(g, k)
      BY <3>2, <3>3
    <3>5. g = [k \in 0 .. n |-> step(g, k)]
      BY <3>4 DEF g
    <3> QED BY <3>5
  <2> HIDE DEF Fits
  <2>3. T \in SUBSET (0 .. N) /\ 0 \in T /\ \A k \in 1 .. N : k - 1 \in T => k \in T
    BY <1>1, <2>1, <2>2
  <2>4. N \in T
    BY <1>1, <2>3, ChainKeeps
  <2> QED BY <2>4
<1>3. after = [k \in 0 .. N |-> step(after, k)]
  BY <1>2
<1>4. ConsumePendingData(c) = after[N]
  BY DEF ConsumePendingData
<1> DEFINE V == {k \in 0 .. N : Fine(after[k])}
<1> HIDE DEF after
<1>5. 0 \in V
  <2>1. after[0] = c
    BY <1>1, <1>3
  <2>2. c = [c EXCEPT !.sb = c.sb, !.sbseq = c.sbseq, !.ops = c.ops]
    BY <1>1 DEF Cb
  <2>3. Fine(after[0])
    BY <2>1, <2>2
  <2> HIDE DEF Fine
  <2> QED BY <1>1, <2>3
<1>6. ASSUME NEW k \in 1 .. N, k - 1 \in V
      PROVE  k \in V
  <2> DEFINE b == after[k - 1]
             d == after[k]
  <2>1. d = ConsumeOne(b)
    BY <1>3
  <2>2. Fine(b)
    BY <1>6
  <2> HIDE DEF b, d
  <2>3. Good(d, P) /\ d = [b EXCEPT !.sb = d.sb, !.sbseq = d.sbseq, !.ops = d.ops]
    BY <2>1, <2>2, ConsumeOneKeeps
  <2>4. d = [c EXCEPT !.sb = d.sb, !.sbseq = d.sbseq, !.ops = d.ops]
    BY <1>1, <2>2, <2>3 DEF Cb
  <2> QED BY <2>3, <2>4 DEF d
<1>7. N \in V
  BY <1>1, <1>5, <1>6, ChainKeeps
<1> QED BY <1>4, <1>7

----------------------------------------------------------------------------
(* Marking packets. *)

\* A packet of the send buffer, and the sums that one packet more or less makes.
LEMMA MarkedSplit ==
  ASSUME NEW P \in Peers, NEW c, Kept(c, P), NEW S \in SUBSET c.sb, NEW T \in SUBSET c.sb,
         S \cap T = {}
  PROVE  /\ SumLen(S \cup T) = SumLen(S) + SumLen(T)
         /\ SumLen(S) \in Nat /\ SumLen(T) \in Nat /\ SumLen(S \cup T) \in Nat
<1>1. IsFiniteSet(S) /\ IsFiniteSet(T) /\ IsFiniteSet(S \cup T)
  <2>1. S \cup T \in SUBSET c.sb
    OBVIOUS
  <2> QED BY <2>1, BufferFinite
<1> QED BY <1>1, SumLenUnion, SumLenType

\* get_snd_pkt on a packet at or behind snd_nxt that is not marked: it is
\* counted in m_retrans_data exactly if it has been sent before.
LEMMA GetSndPktKeeps ==
  ASSUME NEW P \in Peers, NEW c, Good(c, P), NEW p \in c.sb, p.seq >= c.nxt, ~p.rx
  PROVE  LET d == GetSndPkt(c, p)
         IN  Kept(d, P) /\ d.nxt = p.seq /\ OutFrame(c, d)
<1> DEFINE ok == p.seq < c.max => p.seq + p.len <= c.max /\ p.seq # 0
           a == Assert_(c, "get_snd_pkt", ok)
           d == GetSndPkt(c, p)
<1>1. c \in Cb /\ p \in Pkt /\ p.seq \in Nat /\ p.len \in 1 .. MaxSeg /\ p.len \in Nat
  <2>1. c \in Cb /\ c.sb \in SUBSET Pkt
    BY CbNumbers DEF Good, Kept
  <2> QED BY <2>1, RcvBufAssumption DEF Pkt
<1>2. a \in Cb /\ Same(c, a) /\ a = [c EXCEPT !.bad = a.bad]
  <2>1. ok \in BOOLEAN /\ "get_snd_pkt" \notin {"enter_persist", "check_rexmt_data"}
    OBVIOUS
  <2>2. a = Assert_(c, "get_snd_pkt", ok) /\ "get_snd_pkt" \in Asserts
    BY DEF Asserts
  <2> HIDE DEF ok, a
  <2> QED BY <1>1, <2>1, <2>2, AssertKeeps
<1>3. Good(a, P)
  BY <1>2, SameGood
<1> HIDE DEF a
<1>4. CASE ~(p.seq < c.max)
  <2>1. d = [a EXCEPT !.nxt = p.seq]
    BY <1>4 DEF GetSndPkt, a
  <2> HIDE DEF d
  <2>2. d \in Cb /\ d.nxt = p.seq
    BY ZenonT(60), <1>1, <1>2, <2>1 DEF Cb
  <2>4. /\ d.cwnd = c.cwnd /\ d.st = a.st /\ d.err = a.err /\ d.flags = a.flags /\ d.up = a.up /\ d.r = a.r
        /\ d.una = a.una /\ d.fack = a.fack /\ d.max = a.max
        /\ d.sb = a.sb /\ d.sbseq = a.sbseq /\ d.retrans = a.retrans /\ d.ops = a.ops
        /\ d.out = a.out /\ d.bad = a.bad /\ d.rexmt = a.rexmt /\ d.persist = a.persist
    BY <1>1, <1>2, <2>1 DEF Cb
  <2>3. OutFrame(c, d)
    BY <1>1, <1>2, <2>4, CbNumbers DEF Same, OutFrame
  <2>5. ~Unopened(a)
    <3>1. a.sb # {}
      BY <1>2 DEF Same
    <3> QED BY <1>3, <3>1 DEF Good, Kept, Phased, Fresh
  <2>6. Phased(d)
    BY <1>3, <2>4, <2>5 DEF Phased, Unopened, Good, Kept
  <2>7. Buffered(d) /\ Heard(d, P) /\ Opened(d, P)
    BY <1>3, <2>4 DEF Buffered, Heard, Opened, View, Good, Kept
  <2>8. d.una <= d.nxt
    <3>1. c.una <= c.nxt /\ c.una \in Nat /\ c.nxt \in Nat /\ d.una = c.una
      BY <1>1, <1>2, <2>4, CbNumbers DEF Good, Kept, Same
    <3> QED BY <1>1, <2>2, <3>1
  <2> QED BY <1>3, <2>2, <2>3, <2>4, <2>6, <2>7, <2>8 DEF Good, Kept, d
<1>5. CASE p.seq < c.max
  <2> DEFINE q == [p EXCEPT !.rx = TRUE]
             S == c.sb \ {p}
  <2>1. d = [a EXCEPT !.nxt = p.seq, !.retrans = @ + p.len, !.sb = (@ \ {p}) \cup {q}]
    BY <1>5 DEF GetSndPkt, a
  <2> HIDE DEF d
  <2>2. q \in Pkt /\ q.seq = p.seq /\ q.len = p.len /\ q.rx
    BY <1>1 DEF Pkt
  <2> HIDE DEF q
  <2>3. /\ c.sb \in SUBSET Pkt /\ a.sb = c.sb /\ a.retrans = c.retrans /\ a.una = c.una
        /\ a.max = c.max /\ a.sbseq = c.sbseq /\ c.retrans \in Int /\ c.max \in Nat
        /\ c.una \in Nat /\ c.nxt \in Nat /\ c.una <= c.nxt
    BY <1>1, <1>2, CbNumbers DEF Same, Good, Kept
  <2>4. d \in Cb /\ d.nxt = p.seq /\ d.retrans = c.retrans + p.len /\ d.sb = S \cup {q}
    <3>1. S \cup {q} \in SUBSET Pkt /\ c.retrans + p.len \in Int
      BY <1>1, <2>2, <2>3
    <3>2. d = [a EXCEPT !.nxt = p.seq, !.retrans = c.retrans + p.len, !.sb = S \cup {q}]
      BY <2>1, <2>3
    <3> QED BY ZenonT(60), <1>1, <1>2, <3>1, <3>2 DEF Cb
  <2>6. /\ d.cwnd = c.cwnd /\ d.st = a.st /\ d.err = a.err /\ d.flags = a.flags /\ d.up = a.up /\ d.r = a.r
        /\ d.una = a.una /\ d.fack = a.fack /\ d.max = a.max /\ d.sbseq = a.sbseq
        /\ d.ops = a.ops
        /\ d.out = a.out /\ d.bad = a.bad /\ d.rexmt = a.rexmt /\ d.persist = a.persist
    BY <1>1, <1>2, <2>1 DEF Cb
  <2>5. OutFrame(c, d)
    BY <1>1, <1>2, <2>6, CbNumbers DEF Same, OutFrame
  <2>7. a.sb # {} /\ ~Unopened(a) /\ a.st \notin Handshaking
    BY <1>3, <2>3 DEF Good, Kept, Phased, Fresh
  <2>8. Phased(d)
    BY <1>3, <2>6, <2>7 DEF Phased, Unopened, Good, Kept
  <2>9. Heard(d, P) /\ Opened(d, P)
    BY <1>3, <2>6 DEF Heard, Opened, View, Good, Kept
  <2>10. Buffered(d)
    <3> HIDE DEF S
    <3>1. /\ \A o \in c.sb : o.seq + o.len <= c.sbseq /\ (o.rx => o.seq < c.max)
          /\ \A o, w \in c.sb : o.seq = w.seq => o = w
          /\ c.retrans = SumLen(Marked(c.sb))
      BY DEF Good, Kept, Buffered
    <3>2. \A o \in d.sb : o.seq + o.len <= d.sbseq /\ (o.rx => o.seq < d.max)
      BY <1>5, <2>2, <2>3, <2>4, <2>6, <3>1 DEF S
    <3>3. \A o, w \in d.sb : o.seq = w.seq => o = w
      BY <2>2, <2>4, <3>1 DEF S
    <3>4. Marked(d.sb) = Marked(c.sb) \cup {q} /\ q \notin Marked(c.sb)
      <4>1. p \notin Marked(c.sb)
        BY DEF Marked
      <4>2. Marked(d.sb) = Marked(S) \cup {q}
        BY <2>2, <2>4 DEF Marked
      <4>3. Marked(S) = Marked(c.sb)
        BY <4>1 DEF Marked, S
      <4>4. q \notin c.sb
        BY <2>2, <3>1
      <4> QED BY <4>2, <4>3, <4>4 DEF Marked
    <3>5. SumLen(Marked(d.sb)) = SumLen(Marked(c.sb)) + p.len
      <4>1. IsFiniteSet(Marked(c.sb)) /\ IsFiniteSet({q})
        <5>1. Marked(c.sb) \in SUBSET c.sb
          BY DEF Marked
        <5> QED BY <5>1, BufferFinite, FS_Singleton DEF Good
      <4>2. SumLen({q}) = p.len
        BY <2>2, SumLenOne
      <4>3. Marked(c.sb) \cap {q} = {}
        BY <3>4
      <4> QED BY <3>4, <4>1, <4>2, <4>3, SumLenUnion
    <3> QED BY <2>4, <3>1, <3>2, <3>3, <3>5 DEF Buffered
  <2>11. d.una <= d.nxt
    BY <1>1, <2>3, <2>4, <2>6
  <2> QED BY <1>3, <2>4, <2>5, <2>6, <2>8, <2>9, <2>10, <2>11 DEF Good, Kept, d
<1> QED BY <1>4, <1>5

\* The packet chosen, with the persist timer stopped unless it is a probe.
LEMMA ChoosePktKeeps ==
  ASSUME NEW P \in Peers, NEW c, Good(c, P), NEW u \in Inputs,
         NEW p \in c.sb, p.seq >= c.nxt, ~p.rx
  PROVE  LET d == ChoosePkt(c, u, p)
         IN  Kept(d, P) /\ d.nxt = p.seq /\ OutFrame(c, d)
<1> DEFINE b == GetSndPkt(c, p)
           d == ChoosePkt(c, u, p)
<1>1. Kept(b, P) /\ b.nxt = p.seq /\ OutFrame(c, b)
  BY GetSndPktKeeps
<1>2. b \in Cb /\ d = IF u.force THEN b ELSE LeavePersist(b)
  BY <1>1 DEF ChoosePkt, Kept
<1> HIDE DEF b, d
<1>3. CASE u.force
  BY <1>1, <1>2, <1>3 DEF d
<1>4. CASE ~u.force
  <2>1. d = LeavePersist(b)
    BY <1>2, <1>4
  <2>2. Kept(d, P) /\ d = [b EXCEPT !.persist = FALSE, !.shift = d.shift]
    BY <1>1, <2>1, LeavePersistKeeps
  <2>3. /\ d.nxt = b.nxt /\ d.st = b.st /\ d.err = b.err /\ d.una = b.una /\ d.up = b.up
        /\ d.cwnd = b.cwnd /\ d.r = b.r /\ d.max = b.max
    BY ZenonT(40), <1>2, <2>2 DEF Cb
  <2> QED BY <1>1, <1>2, <2>2, <2>3, CbNumbers DEF OutFrame, d, Good, Kept
<1> QED BY <1>3, <1>4

\* A closed window stops the retransmit timer.
LEMMA NoPktKeeps ==
  ASSUME NEW P \in Peers, NEW c, Good(c, P), NEW can \in Nat
  PROVE  LET d == NoPkt(c, can)
         IN  Good(d, P) /\ OutFrame(c, d)
<1> DEFINE d == NoPkt(c, can)
<1>1. /\ c \in Cb /\ c.una \in Nat /\ c.nxt \in Nat /\ c.fack \in Nat /\ c.max \in Nat
      /\ c.una <= c.nxt /\ c.una <= c.fack /\ c.fack <= c.max
  BY CbNumbers DEF Good, Kept
<1>2. CASE d = c
  BY <1>1, <1>2 DEF OutFrame
<1>3. CASE d # c
  <2>1. d = [c EXCEPT !.nxt = c.una, !.rexmt = FALSE]
    BY <1>3 DEF NoPkt
  <2> HIDE DEF d
  <2>2. d \in Cb /\ d.nxt = c.una /\ d.rexmt = FALSE
    BY ZenonT(60), <1>1, <2>1 DEF Cb
  <2>3. OutFrame(c, d)
    BY <1>1, <2>1 DEF Cb, OutFrame
  <2>4. /\ d.st = c.st /\ d.err = c.err /\ d.flags = c.flags /\ d.up = c.up /\ d.r = c.r
        /\ d.una = c.una /\ d.fack = c.fack /\ d.max = c.max
        /\ d.sb = c.sb /\ d.sbseq = c.sbseq /\ d.retrans = c.retrans /\ d.ops = c.ops
        /\ d.out = c.out /\ d.bad = c.bad /\ d.persist = c.persist
    BY <1>1, <2>1 DEF Cb
  <2>5. Phased(d)
    BY <2>2, <2>4 DEF Phased, Fresh, Unopened, Good, Kept
  <2>6. Buffered(d) /\ Heard(d, P) /\ Opened(d, P)
    BY <2>4 DEF Buffered, Heard, Opened, View, Good, Kept
  <2> QED BY <1>1, <2>2, <2>3, <2>4, <2>5, <2>6 DEF Good, Kept, d
<1> QED BY <1>2, <1>3

----------------------------------------------------------------------------
(* Segments. *)

\* What a segment leaves alone.
Rest(c, d) ==
  /\ d.st = c.st /\ d.err = c.err /\ d.una = c.una /\ d.fack = c.fack /\ d.up = c.up
  /\ d.cwnd = c.cwnd /\ d.retrans = c.retrans /\ d.sb = c.sb /\ d.sbseq = c.sbseq
  /\ d.ops = c.ops

\* What the flags of a segment say about the state it is sent in.
Fitting(c, flags) ==
  /\ flags \in SUBSET {"SYN", "FIN", "ACK"}
  /\ "SYN" \in flags <=> c.st \in Handshaking
  /\ "FIN" \in flags => c.st \in Finishing
  /\ "ACK" \in flags => c.st # "SYN_SENT"

\* A SYN and a FIN never go together: what they add to the sequence numbers.
LEMMA Controls ==
  ASSUME NEW c \in Cb, NEW flags, Fitting(c, flags)
  PROVE  Cardinality(flags \cap {"SYN", "FIN"}) =
           IF "SYN" \in flags \/ "FIN" \in flags THEN 1 ELSE 0
<1>1. ~("SYN" \in flags /\ "FIN" \in flags)
  BY DEF Fitting, Handshaking, Finishing
<1>2. CASE "SYN" \in flags
  <2>1. flags \cap {"SYN", "FIN"} = {"SYN"}
    BY <1>1, <1>2
  <2> QED BY <1>2, <2>1, FS_Singleton
<1>3. CASE "FIN" \in flags
  <2>1. flags \cap {"SYN", "FIN"} = {"FIN"}
    BY <1>1, <1>3
  <2> QED BY <1>3, <2>1, FS_Singleton
<1>4. CASE "SYN" \notin flags /\ "FIN" \notin flags
  <2>1. flags \cap {"SYN", "FIN"} = {}
    BY <1>4
  <2> QED BY <1>4, <2>1, FS_EmptySet
<1> QED BY <1>2, <1>3, <1>4

(* The flags of a segment fit the state: a SYN is sent in the handshake only, and a *)
(* FIN by an end that closes.                                                       *)
LEMMA FlagsForFits ==
  ASSUME NEW c \in Cb, NEW len \in Nat, c.st \notin {"CLOSED", "LISTEN"}
  PROVE  Fitting(c, FlagsFor(c, len))
<1> DEFINE O == OutFlags[c.st]
           f == FlagsFor(c, len)
<1>1. c.st \in States
  BY CbNumbers
<1>2. f \subseteq O /\ ("SYN" \in f <=> "SYN" \in O)
  BY DEF FlagsFor
<1> HIDE DEF f
<1>3. CASE c.st = "SYN_SENT"
  <2>1. O = {"SYN"}
    BY <1>1, <1>3 DEF OutFlags
  <2> QED BY <1>2, <1>3, <2>1 DEF Fitting, Handshaking, Finishing, f
<1>4. CASE c.st = "SYN_RECEIVED"
  <2>1. O = {"SYN", "ACK"}
    BY <1>1, <1>4 DEF OutFlags
  <2> QED BY <1>2, <1>4, <2>1 DEF Fitting, Handshaking, Finishing, f
<1>5. CASE c.st \in Finishing
  <2>1. O = {"FIN", "ACK"}
    BY <1>1, <1>5 DEF OutFlags, Finishing
  <2> QED BY <1>2, <1>5, <2>1 DEF Fitting, Handshaking, Finishing, f
<1>6. CASE c.st \in {"ESTABLISHED", "CLOSE_WAIT", "FIN_WAIT_2", "TIME_WAIT"}
  <2>1. O = {"ACK"}
    BY <1>1, <1>6 DEF OutFlags
  <2> QED BY <1>2, <1>6, <2>1 DEF Fitting, Handshaking, Finishing, f
<1> QED BY <1>1, <1>3, <1>4, <1>5, <1>6 DEF States, Opening, Finishing

\* "Advance snd_nxt": the retransmit timer takes over from the persist timer.
LEMMA AdvanceNxtFields ==
  ASSUME NEW c \in Cb, NEW flags, NEW n \in Int, NEW m \in Nat, ~(c.rexmt /\ c.persist)
  PROVE  LET d == AdvanceNxt(c, flags, n, m)
         IN  /\ d \in Cb /\ Rest(c, d) /\ d.nxt = m /\ d.max = Greatest(c.max, m)
             /\ ~(d.rexmt /\ d.persist) /\ (c.rexmt => d.rexmt) /\ (d.persist => c.persist)
             /\ d.rexmt => c.rexmt \/ m # c.una
             /\ d.flags = c.flags \cup (IF "FIN" \in flags THEN {"SENTFIN"} ELSE {})
             /\ d.r = c.r /\ d.out = c.out /\ d.bad = c.bad /\ d.told = c.told
<1> DEFINE arm == ~c.rexmt /\ m # c.una
           b == IF arm THEN LeavePersist(c) ELSE c
           d == AdvanceNxt(c, flags, n, m)
           fs == IF "FIN" \in flags THEN {"SENTFIN"} ELSE {}
<1>1. /\ c.max \in Nat /\ c.una \in Nat /\ c.rexmt \in BOOLEAN /\ c.persist \in BOOLEAN
      /\ c.flags \in SUBSET CbFlags
  BY CbNumbers
<1>2. /\ b \in Cb /\ Rest(c, b) /\ b.max = c.max /\ b.rexmt = c.rexmt
      /\ b.flags = c.flags /\ b.r = c.r /\ b.out = c.out /\ b.bad = c.bad /\ b.told = c.told
      /\ b.persist = (c.persist /\ ~arm)
  <2>1. CASE arm /\ c.persist
    <3>1. b = [c EXCEPT !.persist = FALSE, !.shift = 0] /\ 0 \in 0 .. MaxRxtShift
      BY <2>1, CbAssumption DEF LeavePersist
    <3> HIDE DEF b
    <3>2. b \in Cb
      BY ZenonT(60), <3>1 DEF Cb
    <3>3. Rest(c, b) /\ b.max = c.max /\ b.rexmt = c.rexmt /\ b.flags = c.flags /\ b.r = c.r
          /\ b.out = c.out /\ b.bad = c.bad /\ b.persist = FALSE /\ b.told = c.told
      BY <3>1 DEF Cb, Rest
    <3> QED BY <2>1, <3>2, <3>3
  <2>2. CASE ~(arm /\ c.persist)
    <3>1. b = c
      BY <2>2 DEF LeavePersist
    <3> QED BY <1>1, <2>2, <3>1 DEF Rest
  <2> QED BY <2>1, <2>2
<1> DEFINE mx == Greatest(b.max, m)
           rx == b.rexmt \/ arm
           rt == b.rtt \/ m > c.max
           rs == IF m > c.max /\ ~c.rtt THEN n ELSE b.rtseq
           fl == b.flags \cup fs
<1>3. d = [b EXCEPT !.nxt = m, !.max = mx, !.rexmt = rx, !.rtt = rt, !.rtseq = rs,
                    !.flags = fl]
  BY DEF AdvanceNxt
<1> HIDE DEF b
<1>4. /\ mx \in Nat /\ rx \in BOOLEAN /\ rt \in BOOLEAN /\ rs \in Int
      /\ fl \in SUBSET CbFlags
  <2>1. b.rtseq \in Int /\ b.max \in Nat /\ fs \in SUBSET CbFlags
    BY <1>2 DEF Cb, CbFlags
  <2> QED BY <1>1, <1>2, <2>1 DEF Greatest
<1> HIDE DEF d, mx, rx, rt, rs, fl
<1>5. d \in Cb
  <2> DEFINE e == [b EXCEPT !.nxt = m, !.max = mx, !.rexmt = rx]
  <2>1. e \in Cb
    BY ZenonT(40), <1>2, <1>4 DEF Cb
  <2>2. d = [e EXCEPT !.rtt = rt, !.rtseq = rs, !.flags = fl]
    BY <1>3
  <2> HIDE DEF e
  <2> QED BY ZenonT(60), <1>4, <2>1, <2>2 DEF Cb
<1>6. /\ Rest(b, d) /\ d.nxt = m /\ d.max = mx /\ d.rexmt = rx
      /\ d.persist = b.persist /\ d.flags = fl
      /\ d.r = b.r /\ d.out = b.out /\ d.bad = b.bad /\ d.told = b.told
  BY <1>2, <1>3 DEF Cb, Rest
<1> USE DEF mx, rx, fl
<1>7. Rest(c, d)
  BY <1>2, <1>6 DEF Rest
<1>8. /\ ~(d.rexmt /\ d.persist) /\ (c.rexmt => d.rexmt) /\ (d.persist => c.persist)
      /\ d.rexmt => c.rexmt \/ m # c.una
  BY <1>1, <1>2, <1>6
<1> QED BY <1>2, <1>5, <1>6, <1>7, <1>8 DEF d

\* "Calculate receive window": a number, whatever rcv_win held; the right edge
\* follows it.
LEMMA AdvertiseHalf ==
  ASSUME NEW r \in Half, NEW raw \in Int
  PROVE  /\ AdvertisedWindow(r, raw) \in Nat
         /\ Advertise(r, raw) \in Half
         /\ Advertise(r, raw) = [r EXCEPT !.adv = Advertise(r, raw).adv]
<1> DEFINE w == AdvertisedWindow(r, raw)
           a == IF w > 0 THEN Greatest(r.adv, r.nxt + w) ELSE r.adv
<1>1. r.adv \in Int /\ r.nxt \in Nat
  BY DEF Half
<1>2. w \in Nat
  BY <1>1, RcvBufAssumption DEF AdvertisedWindow, Least, Greatest
<1>3. a \in Int
  BY <1>1, <1>2 DEF Greatest
<1>4. Advertise(r, raw) = [r EXCEPT !.adv = a]
  BY DEF Advertise
<1> HIDE DEF w, a
<1>5. Advertise(r, raw) \in Half /\ Advertise(r, raw).adv = a
  BY <1>3, <1>4 DEF Half
<1> QED BY <1>2, <1>4, <1>5 DEF w

\* The datagrams sent, and one more.
LEMMA OutAppend ==
  ASSUME NEW P \in Peers, NEW c \in Cb, NEW m \in Datagram, NEW s,
         \A i \in 1 .. Len(c.out) : Sound(c.out[i], s, P), Sound(m, s, P)
  PROVE  /\ Append(c.out, m) \in Seq(Datagram)
         /\ \A i \in 1 .. Len(Append(c.out, m)) : Sound(Append(c.out, m)[i], s, P)
<1>1. c.out \in Seq(Datagram)
  BY CbNumbers
<1>2. /\ Append(c.out, m) \in Seq(Datagram) /\ Len(Append(c.out, m)) = Len(c.out) + 1
      /\ Len(c.out) \in Nat
      /\ \A i \in 1 .. Len(c.out) : Append(c.out, m)[i] = c.out[i]
      /\ Append(c.out, m)[Len(c.out) + 1] = m
  BY <1>1, AppendProperties, LenProperties
<1>3. \A i \in 1 .. Len(c.out) + 1 : i \in 1 .. Len(c.out) \/ i = Len(c.out) + 1
  BY <1>2
<1> QED BY <1>2, <1>3

(* A segment appended to what is sent; x: a FIN has been sent. *)
Sent(c, x, m) == [c EXCEPT !.told = x, !.out = Append(c.out, m)]
(* A segment changes what is sent and nothing else. *)
LEMMA SegmentFields ==
  ASSUME NEW c \in Cb, NEW m \in Datagram, NEW x \in BOOLEAN,
         NEW d, d = Sent(c, x, m)
  PROVE  /\ d \in Cb /\ d.out = Append(c.out, m) /\ Rest(c, d) /\ d.told = x
         /\ d.nxt = c.nxt /\ d.max = c.max /\ d.rexmt = c.rexmt /\ d.persist = c.persist
         /\ d.flags = c.flags /\ d.r = c.r /\ d.bad = c.bad
<1> DEFINE o == Append(c.out, m)
<1>1. c.out \in Seq(Datagram)
  BY DEF Cb
<1>3. d = [c EXCEPT !.told = x, !.out = o]
  BY DEF Sent
<1>4. o \in Seq(Datagram)
  BY <1>1, AppendProperties
<1> HIDE DEF o
<1>5. d \in Cb
  <2> DEFINE b == [c EXCEPT !.told = x]
  <2>1. b \in Cb
    BY ZenonT(40) DEF Cb
  <2>2. d = [b EXCEPT !.out = o]
    BY <1>3
  <2> HIDE DEF b
  <2> QED BY ONLY ZenonT(40), <1>4, <2>1, <2>2 DEF Cb
<1>6. /\ d.out = o /\ Rest(c, d) /\ d.told = x
      /\ d.nxt = c.nxt /\ d.max = c.max /\ d.rexmt = c.rexmt /\ d.persist = c.persist
      /\ d.flags = c.flags /\ d.r = c.r /\ d.bad = c.bad
  BY <1>3 DEF Cb, Rest
<1> QED BY <1>5, <1>6 DEF o

\* A window probe: just set snd_max.
LEMMA ProbeNxtFields ==
  ASSUME NEW c \in Cb, NEW n \in Nat, NEW m \in Nat
  PROVE  LET d == ProbeNxt(c, n, m)
         IN  /\ d \in Cb /\ Rest(c, d) /\ d.nxt = n /\ d.max = Greatest(c.max, m)
             /\ d.rexmt = c.rexmt /\ d.persist = c.persist
             /\ d.flags = c.flags /\ d.r = c.r /\ d.out = c.out /\ d.bad = c.bad /\ d.told = c.told
<1> DEFINE d == ProbeNxt(c, n, m)
           x == Greatest(c.max, m)
<1>1. x \in Nat
  BY CbNumbers DEF Greatest
<1>2. d = [c EXCEPT !.nxt = n, !.max = x]
  BY DEF ProbeNxt
<1> HIDE DEF d, x
<1>3. d \in Cb
  BY ZenonT(60), <1>1, <1>2 DEF Cb
<1>4. /\ Rest(c, d) /\ d.nxt = n /\ d.max = x /\ d.rexmt = c.rexmt /\ d.persist = c.persist
      /\ d.flags = c.flags /\ d.r = c.r /\ d.out = c.out /\ d.bad = c.bad /\ d.told = c.told
  BY <1>2 DEF Cb, Rest
<1> QED BY <1>3, <1>4 DEF d, x

\* Where a segment starts: at or behind snd_una unless it carries a SYN.
LEMMA StartOfFacts ==
  ASSUME NEW P \in Peers, NEW c, Kept(c, P), NEW flags, Fitting(c, flags)
  PROVE  LET n == StartOf(c, flags)
         IN  /\ n \in Nat
             /\ "SYN" \in flags => n = 0
             /\ "SYN" \notin flags => n >= c.una /\ n <= c.nxt
<1>1. /\ c.una \in Nat /\ c.nxt \in Nat /\ c.max \in Nat /\ c.una <= c.nxt
      /\ HaveSndFin(c) /\ c.st \in Finishing => c.una < c.max
  BY CbNumbers DEF Kept, Phased, HaveSndFin
<1> QED BY <1>1 DEF StartOf, Fitting

\* The number a segment carries, the segment, and where snd_nxt goes.
SegSeq(c, flags, len) ==
  IF len > 0 \/ flags \cap {"SYN", "FIN"} # {} \/ c.persist THEN StartOf(c, flags) ELSE c.max
SegmentOf(c, flags, len, raw, sack) ==
  [flags |-> flags, seq |-> SegSeq(c, flags, len), ack |-> c.r.nxt, len |-> len,
   win |-> AdvertisedWindow(c.r, raw), sack |-> sack, pseq |-> c.pseq]
TopOf(c, u, flags, len) ==
  IF u.force /\ c.persist THEN StartOf(c, flags) + len
  ELSE StartOf(c, flags) + len + (IF "SYN" \in flags \/ "FIN" \in flags THEN 1 ELSE 0)

\* The rest of a round, from "send:" on: what it changes.
LEMMA SendSegmentFields ==
  ASSUME NEW P \in Peers, NEW c, Kept(c, P), NEW u \in Inputs, NEW flags, Fitting(c, flags),
         NEW len \in Nat, NEW raw \in Int, NEW sack \in SUBSET (Nat \X Nat)
  PROVE  LET d == SendSegment(c, u, flags, len, raw, sack)
             m == SegmentOf(c, flags, len, raw, sack)
         IN  /\ d \in Cb /\ Rest(c, d) /\ m \in Datagram
             /\ d.nxt = (IF u.force /\ c.persist THEN StartOf(c, flags) ELSE TopOf(c, u, flags, len))
             /\ d.max = Greatest(c.max, TopOf(c, u, flags, len))
             /\ ~(d.rexmt /\ d.persist) /\ (d.persist => c.persist)
             /\ d.r = Advertise(c.r, raw) /\ d.out = Append(c.out, m) /\ d.r.nxt = c.r.nxt
             /\ d.r.q = c.r.q /\ d.r.reasm = c.r.reasm /\ d.r.got = c.r.got /\ d.r.fin = c.r.fin
             /\ d.told = (c.told \/ "FIN" \in flags)
             /\ "enter_persist" \in d.bad <=> "enter_persist" \in c.bad
             /\ "check_rexmt_data" \in d.bad <=> "check_rexmt_data" \in c.bad
             /\ "SENTFIN" \in d.flags <=>
                  "SENTFIN" \in c.flags \/ (~(u.force /\ c.persist) /\ "FIN" \in flags)
             /\ "NOTIFY_DROP" \in d.flags <=> "NOTIFY_DROP" \in c.flags
<1> DEFINE n == StartOf(c, flags)
           seq == IF len > 0 \/ flags \cap {"SYN", "FIN"} # {} \/ c.persist THEN n ELSE c.max
           win == AdvertisedWindow(c.r, raw)
           m == SegmentOf(c, flags, len, raw, sack)
           a == Segment(c, flags, seq, c.r.nxt, len, win, sack)
           ok1 == len > 0 => seq = c.nxt
           ok2 == \A b \in sack : b[1] < b[2]
           b1 == Assert_(a, "output", ok1)
           b2 == Assert_(b1, "check_sack_option", ok2)
           k == Cardinality(flags \cap {"SYN", "FIN"})
           e == IF u.force /\ b2.persist THEN ProbeNxt(b2, n, n + len)
                ELSE AdvanceNxt(b2, flags, n, (n + len) + k)
           f == [e EXCEPT !.r = Advertise(@, raw)]
           fs == {"ACKNOW", "DELACK", "NEED_OUTPUT"}
           d == SendSegment(c, u, flags, len, raw, sack)
<1>1. /\ c \in Cb /\ c.r \in Half /\ c.una \in Nat /\ c.nxt \in Nat /\ c.max \in Nat
      /\ c.fack \in Nat /\ c.r.nxt \in Nat /\ u.force \in BOOLEAN
      /\ c.una <= c.nxt /\ c.una <= c.fack /\ c.fack <= c.max
  BY CbNumbers DEF Kept, Half, Inputs
<1>2. /\ n \in Nat /\ ("SYN" \in flags => n = 0)
      /\ "SYN" \notin flags => n >= c.una /\ n <= c.nxt
  BY StartOfFacts
<1>3. k = IF "SYN" \in flags \/ "FIN" \in flags THEN 1 ELSE 0
  BY <1>1, Controls
<1> HIDE DEF n, k
<1>4. seq \in Int /\ win \in Nat
  <2>1. win \in Nat
    BY <1>1, AdvertiseHalf
  <2> QED BY <1>1, <1>2, <2>1
<1>5. /\ m \in Datagram /\ a \in Cb /\ a.out = Append(c.out, m) /\ Rest(c, a)
      /\ a.nxt = c.nxt /\ a.max = c.max /\ a.rexmt = c.rexmt /\ a.persist = c.persist
      /\ a.flags = c.flags /\ a.r = c.r /\ a.bad = c.bad /\ a.told = (c.told \/ "FIN" \in flags)
  <2>1. flags \in SUBSET {"SYN", "FIN", "RST", "ACK"}
    BY DEF Fitting
  <2> DEFINE fin == c.told \/ "FIN" \in flags
  <2>2. a = Sent(c, fin, m) /\ fin \in BOOLEAN
    BY DEF Segment, Sent, SegmentOf, SegSeq, n
  <2>2a. m = [flags |-> flags, seq |-> seq, ack |-> c.r.nxt, len |-> len,
              win |-> win, sack |-> sack, pseq |-> c.pseq]
    BY DEF SegmentOf, SegSeq, n
  <2> HIDE DEF seq, win, a, fin, m
  <2>3. m \in Datagram
    <3>1. c.pseq \in Int
      BY <1>1 DEF Cb
    <3> QED BY <1>1, <1>4, <2>1, <2>2a, <3>1 DEF Datagram
  <2>4. a.told = fin
    BY <1>1, <2>2, <2>3, SegmentFields
  <2>5. /\ a \in Cb /\ a.out = Append(c.out, m) /\ Rest(c, a)
        /\ a.nxt = c.nxt /\ a.max = c.max /\ a.rexmt = c.rexmt /\ a.persist = c.persist
        /\ a.flags = c.flags /\ a.r = c.r /\ a.bad = c.bad
    BY <1>1, <2>2, <2>3, SegmentFields
  <2> QED BY <2>3, <2>4, <2>5 DEF fin
<1> HIDE DEF a
<1>6. b2 \in Cb /\ Same(a, b2) /\ b2.flags = a.flags /\ b2.r = a.r /\ b2.cwnd = a.cwnd
  <2>1. /\ ok1 \in BOOLEAN /\ ok2 \in BOOLEAN /\ "output" \in Asserts /\ "check_sack_option" \in Asserts
        /\ "output" \notin {"enter_persist", "check_rexmt_data"}
        /\ "check_sack_option" \notin {"enter_persist", "check_rexmt_data"}
    BY DEF Asserts
  <2>2. b1 = Assert_(a, "output", ok1) /\ b2 = Assert_(b1, "check_sack_option", ok2)
    OBVIOUS
  <2> HIDE DEF ok1, ok2, b1, b2
  <2>3. b1 \in Cb /\ Same(a, b1) /\ b1 = [a EXCEPT !.bad = b1.bad]
    BY <1>5, <2>1, <2>2, AssertKeeps
  <2>4. b2 \in Cb /\ Same(b1, b2) /\ b2 = [b1 EXCEPT !.bad = b2.bad]
    BY <2>1, <2>2, <2>3, AssertKeeps
  <2>5. b1.flags = a.flags /\ b1.r = a.r /\ b1.cwnd = a.cwnd
    BY <1>5, <2>3 DEF Cb
  <2>6. b2.flags = b1.flags /\ b2.r = b1.r /\ b2.cwnd = b1.cwnd
    BY <2>3, <2>4 DEF Cb
  <2>7. Same(a, b2)
    BY <2>3, <2>4, <2>5, <2>6 DEF Same
  <2> QED BY <2>4, <2>5, <2>6, <2>7
<1>7. d = Off(f, fs)
  <2>1. b2.persist = c.persist
    BY <1>5, <1>6 DEF Same
  <2> HIDE DEF b2
  <2>2. e = IF u.force /\ c.persist THEN ProbeNxt(b2, n, n + len)
            ELSE AdvanceNxt(b2, flags, n, (n + len) + k)
    BY <2>1
  <2> QED BY ZenonT(40), <2>2 DEF SendSegment, n, k, a, b2
<1> DEFINE probe == u.force /\ b2.persist
           top == IF probe THEN n + len ELSE (n + len) + k
<1> HIDE DEF b2
<1>8. /\ e \in Cb /\ Rest(b2, e)
      /\ e.nxt = (IF probe THEN n ELSE (n + len) + k)
      /\ e.max = Greatest(b2.max, top)
      /\ ~(e.rexmt /\ e.persist) /\ (e.persist => b2.persist)
      /\ e.flags = (IF ~probe /\ "FIN" \in flags THEN b2.flags \cup {"SENTFIN"} ELSE b2.flags)
      /\ e.r = b2.r /\ e.out = b2.out /\ e.bad = b2.bad /\ e.told = b2.told
  <2>1. n + len \in Nat /\ k \in Nat /\ ~(b2.rexmt /\ b2.persist)
    BY <1>2, <1>3, <1>5, <1>6 DEF Same, Kept
  <2>2. CASE probe
    <3> DEFINE x == ProbeNxt(b2, n, n + len)
    <3>1. e = x
      BY <2>2
    <3>2. /\ x \in Cb /\ Rest(b2, x) /\ x.nxt = n /\ x.max = Greatest(b2.max, n + len)
          /\ x.rexmt = b2.rexmt /\ x.persist = b2.persist
          /\ x.flags = b2.flags /\ x.r = b2.r /\ x.out = b2.out /\ x.bad = b2.bad /\ x.told = b2.told
      BY ZenonT(60), <1>2, <1>6, <2>1, ProbeNxtFields
    <3> HIDE DEF x, e
    <3> QED BY <2>1, <2>2, <3>1, <3>2
  <2>3. CASE ~probe
    <3> DEFINE x == AdvanceNxt(b2, flags, n, (n + len) + k)
    <3>1. e = x /\ n \in Int /\ (n + len) + k \in Nat
      BY <1>2, <2>1, <2>3
    <3>2. /\ x \in Cb /\ Rest(b2, x) /\ x.nxt = (n + len) + k
          /\ x.max = Greatest(b2.max, (n + len) + k)
          /\ ~(x.rexmt /\ x.persist) /\ (x.persist => b2.persist)
          /\ x.flags = b2.flags \cup (IF "FIN" \in flags THEN {"SENTFIN"} ELSE {})
          /\ x.r = b2.r /\ x.out = b2.out /\ x.bad = b2.bad /\ x.told = b2.told
      BY <1>6, <2>1, <3>1, AdvanceNxtFields
    <3>3. x.flags = (IF "FIN" \in flags THEN b2.flags \cup {"SENTFIN"} ELSE b2.flags)
      BY <3>2
    <3> HIDE DEF x, e
    <3> QED BY <2>1, <2>3, <3>1, <3>2, <3>3
  <2> HIDE DEF e
  <2> QED BY <2>2, <2>3
<1> HIDE DEF e
<1>9. f \in Cb /\ Rest(e, f) /\ f.r = Advertise(c.r, raw) /\ f.nxt = e.nxt /\ f.max = e.max
      /\ f.rexmt = e.rexmt /\ f.persist = e.persist /\ f.flags = e.flags /\ f.out = e.out
      /\ f.bad = e.bad /\ f.told = e.told
  <2>1. e.r = c.r
    BY <1>5, <1>6, <1>8
  <2>2. Advertise(c.r, raw) \in Half
    BY <1>1, AdvertiseHalf
  <2>3. f = [e EXCEPT !.r = Advertise(c.r, raw)]
    BY <2>1
  <2> HIDE DEF f
  <2>4. f \in Cb
    BY ZenonT(60), <1>8, <2>2, <2>3 DEF Cb
  <2> QED BY ZenonT(60), <1>8, <2>3, <2>4 DEF Cb, Rest
<1> HIDE DEF f
<1>10. d \in Cb /\ Same(f, d) /\ d.flags = f.flags \ fs /\ d.cwnd = f.cwnd /\ d.r = f.r
  <2>1. fs \in SUBSET (CbFlags \ {"SENTFIN", "NOTIFY_DROP"})
    BY DEF CbFlags
  <2> HIDE DEF fs, d
  <2>2. d \in Cb /\ Same(f, d) /\ d = [f EXCEPT !.flags = f.flags \ fs]
    BY <1>7, <1>9, <2>1, OnKeeps
  <2> QED BY <1>9, <2>2 DEF Cb
<1> HIDE DEF d, m, seq, fs
<1>11. Rest(c, d)
  BY <1>5, <1>6, <1>8, <1>9, <1>10 DEF Rest, Same
<1>12. probe = (u.force /\ c.persist) /\ top = TopOf(c, u, flags, len)
  <2>1. b2.persist = c.persist
    BY <1>5, <1>6 DEF Same
  <2> QED BY <1>3, <2>1 DEF TopOf, n
<1>13. /\ d.nxt = (IF probe THEN n ELSE top) /\ d.max = Greatest(c.max, top)
       /\ ~(d.rexmt /\ d.persist) /\ (d.persist => c.persist)
  BY <1>5, <1>6, <1>8, <1>9, <1>10 DEF Same
<1>14. /\ d.r = Advertise(c.r, raw) /\ d.out = Append(c.out, m) /\ d.r.nxt = c.r.nxt
       /\ d.r.q = c.r.q /\ d.r.reasm = c.r.reasm /\ d.r.got = c.r.got /\ d.r.fin = c.r.fin
       /\ "enter_persist" \in d.bad <=> "enter_persist" \in c.bad
       /\ "check_rexmt_data" \in d.bad <=> "check_rexmt_data" \in c.bad
  <2>1. Advertise(c.r, raw) = [c.r EXCEPT !.adv = Advertise(c.r, raw).adv]
    BY <1>1, AdvertiseHalf
  <2>2. d.r = Advertise(c.r, raw)
    BY <1>9, <1>10
  <2>3. /\ d.r.nxt = c.r.nxt /\ d.r.q = c.r.q /\ d.r.reasm = c.r.reasm
        /\ d.r.got = c.r.got /\ d.r.fin = c.r.fin
    BY <1>1, <2>1, <2>2 DEF Half
  <2> QED BY <1>5, <1>6, <1>8, <1>9, <1>10, <2>2, <2>3 DEF Same
<1>15. /\ "SENTFIN" \in d.flags <=> "SENTFIN" \in c.flags \/ (~probe /\ "FIN" \in flags)
       /\ "NOTIFY_DROP" \in d.flags <=> "NOTIFY_DROP" \in c.flags
  BY <1>5, <1>6, <1>8, <1>9, <1>10 DEF Same
<1>16. d.told = (c.told \/ "FIN" \in flags)
  BY <1>5, <1>6, <1>8, <1>9, <1>10 DEF Same
<1> HIDE DEF probe, top
<1> QED BY <1>5, <1>10, <1>11, <1>12, <1>13, <1>14, <1>15, <1>16 DEF d, m, n

\* The rest of a round, from "send:" on: snd_max covers what has been sent.
LEMMA SendSegmentKeeps ==
  ASSUME NEW P \in Peers, NEW c, Kept(c, P), c.st \notin {"CLOSED", "LISTEN"},
         NEW u \in Inputs, NEW flags, Fitting(c, flags),
         NEW len \in Nat, len = 0 => c.nxt <= c.max, len > 0 => c.st \notin Handshaking,
         NEW raw \in Int, NEW sack \in SUBSET (Nat \X Nat), \A b \in sack : b[2] <= P.max
  PROVE  LET d == SendSegment(c, u, flags, len, raw, sack)
         IN  Good(d, P) /\ OutFrame(c, d)
<1> DEFINE n == StartOf(c, flags)
           seq == SegSeq(c, flags, len)
           m == SegmentOf(c, flags, len, raw, sack)
           k == IF "SYN" \in flags \/ "FIN" \in flags THEN 1 ELSE 0
           probe == u.force /\ c.persist
           top == IF probe THEN n + len ELSE (n + len) + k
           d == SendSegment(c, u, flags, len, raw, sack)
<1>1. /\ c \in Cb /\ c.r \in Half /\ c.una \in Nat /\ c.nxt \in Nat /\ c.max \in Nat
      /\ c.fack \in Nat /\ c.r.nxt \in Nat /\ u.force \in BOOLEAN
      /\ c.una <= c.nxt /\ c.una <= c.fack /\ c.fack <= c.max
  BY CbNumbers DEF Kept, Half, Inputs
<1>2. /\ n \in Nat /\ ("SYN" \in flags => n = 0)
      /\ "SYN" \notin flags => n >= c.una /\ n <= c.nxt
  BY StartOfFacts
<1>3. k = IF "SYN" \in flags \/ "FIN" \in flags THEN 1 ELSE 0
  OBVIOUS
<1>4. TopOf(c, u, flags, len) = top
  BY DEF TopOf
<1>5. /\ d \in Cb /\ Rest(c, d) /\ m \in Datagram
      /\ d.nxt = (IF probe THEN n ELSE top) /\ d.max = Greatest(c.max, top)
      /\ ~(d.rexmt /\ d.persist) /\ (d.persist => c.persist)
      /\ d.r = Advertise(c.r, raw) /\ d.out = Append(c.out, m) /\ d.r.nxt = c.r.nxt
      /\ d.r.q = c.r.q /\ d.r.reasm = c.r.reasm
      /\ "enter_persist" \in d.bad <=> "enter_persist" \in c.bad
      /\ "check_rexmt_data" \in d.bad <=> "check_rexmt_data" \in c.bad
      /\ "SENTFIN" \in d.flags <=> "SENTFIN" \in c.flags \/ (~probe /\ "FIN" \in flags)
      /\ "NOTIFY_DROP" \in d.flags <=> "NOTIFY_DROP" \in c.flags
  <2> HIDE DEF m, d, n, top
  <2> QED BY <1>4, SendSegmentFields DEF d, m, n
<1> HIDE DEF d, m, seq, n, k
<1>11. /\ d.st = c.st /\ d.err = c.err /\ d.una = c.una /\ d.fack = c.fack /\ d.up = c.up
       /\ d.cwnd = c.cwnd /\ d.retrans = c.retrans /\ d.sb = c.sb /\ d.sbseq = c.sbseq
       /\ d.ops = c.ops
  BY <1>5 DEF Rest
<1>12. /\ d.nxt = (IF probe THEN n ELSE (n + len) + k) /\ d.max = Greatest(c.max, top)
       /\ ~(d.rexmt /\ d.persist) /\ (d.persist => c.persist) /\ probe = (u.force /\ c.persist)
  BY <1>5
<1> HIDE DEF probe
<1>15. /\ d.max \in Nat /\ c.max <= d.max /\ n + len <= d.max /\ d.nxt <= d.max /\ d.una <= d.nxt
       /\ c.st \in Handshaking => d.max <= 1
       /\ ~probe /\ "FIN" \in flags => c.una < d.max
       /\ "SYN" \in flags => n + len + 1 <= d.max
  <2>1. c.st \in Handshaking <=> "SYN" \in flags
    BY DEF Fitting
  <2>2. c.st \in Handshaking => c.max <= 1 /\ ~c.persist /\ len = 0
    BY DEF Kept, Phased
  <2>3. "FIN" \in flags => "SYN" \notin flags
    BY DEF Fitting, Handshaking, Finishing
  <2>4. "SYN" \in flags => ~probe
    BY <1>12, <2>1, <2>2
  <2> DEFINE S == "SYN" \in flags
             F == "FIN" \in flags
  <2>5. CASE S
    BY <1>1, <1>2, <1>3, <1>11, <1>12, <2>1, <2>2, <2>3, <2>4, <2>5 DEF Greatest
  <2>6. CASE ~S
    <3>1. n >= c.una /\ n + len <= top /\ top \in Nat /\ (~probe /\ F => top = (n + len) + 1)
      BY <1>1, <1>2, <1>3, <2>6
    <3>2. d.nxt = (IF probe THEN n ELSE top)
      BY <1>12
    <3> HIDE DEF top
    <3> QED BY <1>1, <1>2, <1>11, <1>12, <2>1, <2>6, <3>1, <3>2 DEF Greatest
  <2> QED BY <2>5, <2>6
<1>16. Phased(d)
  <2>1. ~Unopened(d)
    BY <1>11 DEF Unopened
  <2>2. d.st \in Handshaking =>
          d.max <= 1 /\ d.sb = {} /\ d.ops = << >> /\ ~d.persist /\ ~d.up
    BY <1>11, <1>12, <1>15 DEF Kept, Phased
  <2>3. "SENTFIN" \in d.flags => d.st \in Finishing \cup {"FIN_WAIT_2", "TIME_WAIT", "CLOSED"}
    BY <1>11, <1>5 DEF Kept, Phased, Fitting
  <2>4. "SENTFIN" \in d.flags /\ d.st \in Finishing => d.una < d.max
    BY <1>1, <1>11, <1>5, <1>15 DEF Kept, Phased
  <2>5. /\ d.st \in {"CLOSE_WAIT", "CLOSING", "LAST_ACK", "TIME_WAIT"} => d.err # "none"
        /\ "NOTIFY_DROP" \in d.flags => d.err # "none"
    BY <1>11, <1>5 DEF Kept, Phased
  <2> QED BY <2>1, <2>2, <2>3, <2>4, <2>5 DEF Phased
<1>17. Opened(d, P)
  BY <1>11, <1>5 DEF Opened, Kept
<1>18. Buffered(d)
  BY <1>1, <1>5, <1>11, <1>15, BufferedGrows DEF Kept
<1>19. Heard(d, P)
  <2>1. View(d) \in Peers /\ View(c) \in Peers /\ View(d).max = d.max /\ View(d).rcv = c.r.nxt
        /\ View(c).max = c.max /\ View(c).rcv = c.r.nxt
    BY <1>1, <1>5, <1>15 DEF View, Peers
  <2>2. /\ m.flags = flags /\ m.seq = seq /\ m.len = len /\ m.ack = c.r.nxt /\ m.sack = sack
    BY DEF m, SegmentOf, seq
  <2>3. Sound(m, View(d), P)
    <3>1. len > 0 \/ "SYN" \in flags \/ "FIN" \in flags => seq = n
      BY DEF seq, SegSeq, n
    <3>2. len > 0 \/ "SYN" \in flags \/ "FIN" \in flags =>
            seq \in Nat /\ seq + len + (IF "SYN" \in flags THEN 1 ELSE 0) <= d.max
      BY <1>2, <1>15, <3>1
    <3>3. "SYN" \in flags => seq = 0 /\ len = 0
      BY <1>2, <3>1 DEF Fitting
    <3>4. "SYN" \notin flags => P.rcv >= 1
      <4>1. c.st \in States
        BY <1>1, CbNumbers
      <4>2. "SYN" \notin flags => c.st \notin Opening
        BY <4>1 DEF Fitting, Handshaking, Opening
      <4> QED BY <4>2 DEF Kept, Opened
    <3>5. "ACK" \in flags => c.r.nxt >= 1
      BY DEF Fitting, Kept, Opened
    <3> QED BY <2>1, <2>2, <3>2, <3>3, <3>4, <3>5 DEF Sound
  <2>4. \A i \in 1 .. Len(c.out) : Sound(c.out[i], View(d), P)
    <3> TAKE i \in 1 .. Len(c.out)
    <3>1. c.out[i] \in Datagram
      BY <1>1, CbNumbers, ElementOfSeq
    <3>2. Sound(c.out[i], View(c), P) /\ P.max <= P.max
      BY DEF Kept, Heard, Peers
    <3> QED BY <1>15, <2>1, <3>1, <3>2, SoundGrows
  <2>5. \A i \in 1 .. Len(d.out) : Sound(d.out[i], View(d), P)
    BY <1>1, <1>5, <1>5, <2>3, <2>4, OutAppend DEF m, seq
  <2>6. \A p \in c.r.reasm : p.seq + p.len <= P.max
    BY DEF Kept, Heard
  <2> QED BY <1>5, <2>5, <2>6 DEF Heard, Kept
<1>20. ~(d.rexmt /\ d.persist) /\ d.una <= d.fack /\ d.fack <= d.max
       /\ "enter_persist" \notin d.bad /\ "check_rexmt_data" \notin d.bad
  BY <1>1, <1>11, <1>12, <1>5, <1>15 DEF Kept
<1> QED BY <1>5, <1>11, <1>5, <1>15, <1>16, <1>17, <1>18, <1>19, <1>20 DEF Good, Kept, OutFrame, d

----------------------------------------------------------------------------
(* One call of output(). *)

\* A SACK block ends where a packet of the reassembly queue ends.
LEMMA SackBlocksEnd ==
  ASSUME NEW R \in SUBSET Packet, NEW B \in Nat, \A p \in R : p.seq + p.len <= B
  PROVE  SackBlocks(R) \in SUBSET (Nat \X Nat) /\ \A b \in SackBlocks(R) : b[2] <= B
<1>1. \A p \in R : p.seq \in Nat /\ p.len \in Nat /\ p.seq <= B
  BY DEF Packet
<1>2. ASSUME NEW p \in R
      PROVE  Frontier(R, p.seq) \in Nat /\ Frontier(R, p.seq) <= B
  <2>1. p.seq \in Nat /\ p.seq <= B
    BY <1>1
  <2>2. /\ Frontier(R, p.seq) \in {p.seq} \cup {o.seq + o.len : o \in R}
        /\ Frontier(R, p.seq) \in Nat
    BY <2>1, FrontierFacts
  <2> QED BY <2>1, <2>2
<1>3. \A b \in SackBlocks(R) : \E p \in R : b = <<p.seq, Frontier(R, p.seq)>>
  BY DEF SackBlocks
<1>4. ASSUME NEW b \in SackBlocks(R)
      PROVE  b \in Nat \X Nat /\ b[2] <= B
  <2>1. PICK p \in R : b = <<p.seq, Frontier(R, p.seq)>>
    BY <1>3
  <2> QED BY <1>1, <1>2, <2>1
<1> QED BY <1>4

\* From "again:" on, once the packet to send is known.
LEMMA OutputLenKeeps ==
  ASSUME NEW P \in Peers, NEW c, Kept(c, P), c.st \notin {"CLOSED", "LISTEN"},
         NEW u \in Inputs, NEW can \in Nat, NEW len \in Nat, len = 0 => c.nxt <= c.max,
         len > 0 => c.st \notin Handshaking
  PROVE  LET d == OutputLen(c, u, can, len)
         IN  d.more \in BOOLEAN /\ Good(d.c, P) /\ OutFrame(c, d.c)
<1> DEFINE flags == FlagsFor(c, len)
           raw == IF len > 0 THEN u.junk ELSE Acc(c.r)
           sack == IF "ACK" \in flags THEN SackBlocks(c.r.reasm) ELSE {}
           d == OutputLen(c, u, can, len)
<1>1. c \in Cb /\ c.r \in Half /\ P.max \in Nat
  BY CbNumbers DEF Kept, Peers
<1>2. Fitting(c, flags)
  BY <1>1, FlagsForFits
<1>3. raw \in Int
  <2>1. u.junk \in Int /\ Len(c.r.q) \in Nat
    BY <1>1, LenProperties DEF Half, Inputs
  <2> QED BY <2>1, RcvBufAssumption DEF Acc
<1>4. sack \in SUBSET (Nat \X Nat) /\ \A b \in sack : b[2] <= P.max
  <2>1. c.r.reasm \in SUBSET Packet /\ \A p \in c.r.reasm : p.seq + p.len <= P.max
    BY <1>1 DEF Half, Kept, Heard
  <2> QED BY <1>1, <2>1, SackBlocksEnd
<1>5. CASE MustSend(c, flags, len)
  <2>1. /\ d.more = (len > 0 /\ ~u.force /\ can > len)
        /\ d.c = SendSegment(c, u, flags, len, raw, sack)
    BY <1>5 DEF OutputLen
  <2> HIDE DEF flags, raw, sack, d
  <2>2. Good(d.c, P) /\ OutFrame(c, d.c)
    BY <1>2, <1>3, <1>4, <2>1, SendSegmentKeeps
  <2> QED BY <2>1, <2>2 DEF d
<1>6. CASE ~MustSend(c, flags, len)
  <2>1. /\ d.more = FALSE
        /\ d.c = IF CanPersist(c) THEN EnterPersist([c EXCEPT !.shift = 0]) ELSE c
    BY <1>6 DEF OutputLen
  <2>2. Good(c, P) /\ c.max \in Nat
    BY <1>1, <1>6, CbNumbers DEF MustSend, Good
  <2> HIDE DEF d
  <2>3. CASE CanPersist(c)
    <3> DEFINE a == [c EXCEPT !.shift = 0]
    <3>1. a \in Cb /\ Same(c, a) /\ a.cwnd = c.cwnd
      <4>1. 0 \in 0 .. MaxRxtShift
        BY CbAssumption
      <4>2. a \in Cb
        BY <1>1, <4>1 DEF Cb
      <4> QED BY <1>1, <4>2 DEF Cb, Same
    <3> HIDE DEF a
    <3>2. Good(a, P)
      BY <2>2, <3>1, SameGood
    <3>3. c.sb # {} \/ c.ops # << >>
      <4>1. SUFFICES ASSUME c.sb = {}, c.ops = << >> PROVE FALSE
        OBVIOUS
      <4>2. Pending(c) = 0 /\ SumLen(c.sb) = 0
        BY <1>1, <4>1, CbNumbers, PendingFacts, SumLenEmpty
      <4> QED BY <2>3, <4>2 DEF CanPersist
    <3>4. ~a.rexmt /\ a.st \notin Handshaking /\ ~Unopened(a)
      BY <2>2, <2>3, <3>1, <3>3 DEF CanPersist, Same, Good, Kept, Phased, Unopened
    <3>5. d.c = EnterPersist(a)
      BY <2>1, <2>3 DEF a
    <3>6. Good(d.c, P) /\ d.c = [a EXCEPT !.persist = TRUE, !.shift = d.c.shift]
      BY <3>2, <3>4, <3>5, EnterPersistKeeps
    <3>7. /\ d.c.st = a.st /\ d.c.err = a.err /\ d.c.una = a.una /\ d.c.up = a.up
          /\ d.c.cwnd = a.cwnd /\ d.c.r = a.r /\ d.c.max = a.max
      BY ZenonT(40), <3>1, <3>6 DEF Cb
    <3>8. OutFrame(c, d.c)
      BY <2>2, <3>1, <3>7 DEF Same, OutFrame
    <3> QED BY <2>1, <3>6, <3>8 DEF d
  <2>4. CASE ~CanPersist(c)
    <3>1. OutFrame(c, c)
      BY <2>2 DEF OutFrame
    <3> QED BY <2>1, <2>2, <2>4, <3>1 DEF d
  <2> QED BY <2>3, <2>4
<1> QED BY <1>5, <1>6

(* Two steps of one output() that each leave the frame alone leave it alone together. *)
LEMMA OutFrameTrans ==
  ASSUME NEW a \in Cb, NEW b \in Cb, NEW c \in Cb, OutFrame(a, b), OutFrame(b, c)
  PROVE  OutFrame(a, c)
BY CbNumbers DEF OutFrame

(* A round of output() once the packet is chosen, with what it does to m_snd_nxt. *)
LEMMA OutputPktKeeps ==
  ASSUME NEW P \in Peers, NEW c, Good(c, P), c.st \notin {"CLOSED", "LISTEN"},
         NEW u \in Inputs, NEW can \in Nat
  PROVE  LET d == OutputPkt(c, u, can)
         IN  d.more \in BOOLEAN /\ Good(d.c, P) /\ OutFrame(c, d.c)
<1> DEFINE pkts == IF can >= MaxSeg THEN SndPkt(c, can) ELSE {}
           p == CHOOSE x \in pkts : TRUE
           d == OutputPkt(c, u, can)
<1>1. c \in Cb /\ c.sb \in SUBSET Pkt
  BY CbNumbers DEF Good, Kept
<1>2. CASE pkts = {}
  <2> DEFINE b == NoPkt(c, can)
  <2>1. d = OutputLen(b, u, can, 0)
    BY <1>2 DEF OutputPkt
  <2>2. Good(b, P) /\ OutFrame(c, b)
    BY NoPktKeeps
  <2> HIDE DEF b, d
  <2>3. Kept(b, P) /\ b.nxt <= b.max /\ b.st \notin {"CLOSED", "LISTEN"} /\ b \in Cb
    BY <2>2 DEF Good, Kept, OutFrame
  <2>4. 0 \in Nat /\ ~(0 > 0)
    OBVIOUS
  <2>5. d.more \in BOOLEAN /\ Good(d.c, P) /\ OutFrame(b, d.c)
    BY <2>1, <2>3, <2>4, OutputLenKeeps
  <2>6. OutFrame(c, d.c)
    BY <1>1, <2>2, <2>3, <2>5, OutFrameTrans DEF Good, Kept
  <2> QED BY <2>5, <2>6 DEF d
<1>3. CASE pkts # {}
  <2>1. p \in pkts /\ pkts = SndPkt(c, can)
    BY <1>3
  <2> HIDE DEF p, pkts
  <2>2. p \in c.sb /\ p.seq >= c.nxt /\ ~p.rx
    BY <2>1 DEF SndPkt, FirstOf
  <2>3. p.len \in Nat /\ p.len > 0 /\ p.seq \in Nat
    BY <1>1, <2>2, RcvBufAssumption DEF Pkt
  <2>4. c.st \notin Handshaking
    BY <2>2 DEF Good, Kept, Phased
  <2> DEFINE b == ChoosePkt(c, u, p)
             len == p.len
  <2>5. d = OutputLen(b, u, can, len)
    BY <1>3 DEF OutputPkt, p, pkts
  <2>6. Kept(b, P) /\ b.nxt = p.seq /\ OutFrame(c, b)
    BY <2>2, ChoosePktKeeps
  <2> HIDE DEF b, d, len
  <2>7. b.st \notin {"CLOSED", "LISTEN"} /\ b.st \notin Handshaking /\ b \in Cb
    BY <2>4, <2>6 DEF Kept, OutFrame
  <2>8. len \in Nat /\ (len = 0 => b.nxt <= b.max)
    BY <2>3 DEF len
  <2>9. d.more \in BOOLEAN /\ Good(d.c, P) /\ OutFrame(b, d.c)
    BY <2>5, <2>6, <2>7, <2>8, OutputLenKeeps
  <2>10. OutFrame(c, d.c)
    BY <1>1, <2>6, <2>7, <2>9, OutFrameTrans DEF Good, Kept
  <2> QED BY <2>9, <2>10 DEF d
<1> QED BY <1>2, <1>3

\* One round.
LEMMA OutputRoundKeeps ==
  ASSUME NEW P \in Peers, NEW c, Good(c, P), c.st \notin {"CLOSED", "LISTEN"}, NEW u \in Inputs
  PROVE  LET d == OutputRound(c, u)
         IN  d.more \in BOOLEAN /\ Good(d.c, P) /\ OutFrame(c, d.c)
<1> DEFINE can == CanSendBytes(c)
           room == c.sbseq < can + c.nxt \/ c.sb = {}
           a == ConsumePendingData(c)
           b == IF Pending(c) > 0 /\ room THEN a ELSE c
           most == IF u.force THEN Greatest(can, MaxSeg) ELSE can
           d == OutputRound(c, u)
<1>1. c \in Cb /\ c.max \in Nat
  BY CbNumbers DEF Good, Kept
<1>2. can \in Nat /\ most \in Nat
  <2>1. can \in Nat
    BY <1>1, CbNumbers DEF CanSendBytes, Inflight, Greatest, Least
  <2> HIDE DEF can
  <2> QED BY <2>1, RcvBufAssumption DEF Greatest
<1>3. Good(b, P) /\ OutFrame(c, b)
  <2>1. OutFrame(c, c)
    BY <1>1 DEF OutFrame
  <2>2. Good(a, P) /\ a = [c EXCEPT !.sb = a.sb, !.sbseq = a.sbseq, !.ops = a.ops]
    BY ConsumeKeeps
  <2> HIDE DEF a
  <2>3. /\ a.st = c.st /\ a.err = c.err /\ a.una = c.una /\ a.up = c.up
        /\ a.cwnd = c.cwnd /\ a.r = c.r /\ a.max = c.max
    BY ZenonT(40), <1>1, <2>2 DEF Cb
  <2>4. OutFrame(c, a)
    BY <1>1, <2>3 DEF OutFrame
  <2> QED BY <2>1, <2>2, <2>4
<1>4. d = OutputPkt(b, u, most)
  BY DEF OutputRound
<1> HIDE DEF b, most, d
<1>5. b.st \notin {"CLOSED", "LISTEN"} /\ b \in Cb
  BY <1>3 DEF OutFrame, Good, Kept
<1>6. d.more \in BOOLEAN /\ Good(d.c, P) /\ OutFrame(b, d.c)
  BY <1>2, <1>3, <1>4, <1>5, OutputPktKeeps
<1>7. OutFrame(c, d.c)
  BY <1>1, <1>3, <1>5, <1>6, OutFrameTrans DEF Good, Kept
<1> QED BY <1>6, <1>7 DEF d

\* The rounds of one call.
LEMMA OutputRoundsKeeps ==
  ASSUME NEW P \in Peers, NEW c, Good(c, P), c.st \notin {"CLOSED", "LISTEN"}, NEW u \in Inputs
  PROVE  LET d == OutputRounds(c, u)
         IN  Good(d, P) /\ OutFrame(c, d)
<1> DEFINE N == SendClamp
           next(d) == IF d.more THEN OutputRound(d.c, u) ELSE d
           step(f, k) == IF k = 0 THEN [more |-> TRUE, c |-> c] ELSE next(f[k - 1])
           Fits(n) == \E f : f = [k \in 0 .. n |-> step(f, k)]
           T == {n \in 0 .. N : Fits(n)}
           after == CHOOSE f : f = [k \in 0 .. N |-> step(f, k)]
           Fine(d) == d.more \in BOOLEAN /\ Good(d.c, P) /\ OutFrame(c, d.c)
<1>1. c \in Cb /\ N \in Nat /\ c.max \in Nat
  BY CbNumbers, CbAssumption DEF Good, Kept
<1>2. Fits(N)
  <2>1. Fits(0)
    <3> DEFINE f == [k \in 0 .. 0 |-> [more |-> TRUE, c |-> c]]
    <3>1. f = [k \in 0 .. 0 |-> step(f, k)]
      OBVIOUS
    <3> QED BY <3>1
  <2>2. ASSUME NEW n \in 1 .. N, Fits(n - 1)
        PROVE  Fits(n)
    <3>1. PICK f : f = [k \in 0 .. n - 1 |-> step(f, k)]
      BY <2>2
    <3> DEFINE g == [k \in 0 .. n |-> step(f, k)]
    <3>2. \A k \in 0 .. n - 1 : g[k] = f[k]
      BY <3>1
    <3>3. \A k \in 0 .. n : k # 0 => k - 1 \in 0 .. n - 1
      OBVIOUS
    <3> HIDE DEF g, next
    <3>4. \A k \in 0 .. n : step(f, k) = step(g, k)
      BY <3>2, <3>3
    <3>5. g = [k \in 0 .. n |-> step(g, k)]
      BY <3>4 DEF g
    <3> QED BY <3>5
  <2> HIDE DEF Fits
  <2>3. T \in SUBSET (0 .. N) /\ 0 \in T /\ \A k \in 1 .. N : k - 1 \in T => k \in T
    BY <1>1, <2>1, <2>2
  <2>4. N \in T
    BY <1>1, <2>3, ChainKeeps
  <2> QED BY <2>4
<1>3. after = [k \in 0 .. N |-> step(after, k)]
  BY <1>2
<1>4. OutputRounds(c, u) = after[N].c
  BY DEF OutputRounds
<1> DEFINE V == {k \in 0 .. N : Fine(after[k])}
<1> HIDE DEF after
<1>5. 0 \in V
  <2>1. after[0] = [more |-> TRUE, c |-> c]
    BY <1>1, <1>3
  <2>2. OutFrame(c, c)
    BY <1>1 DEF OutFrame
  <2>3. Fine(after[0])
    BY <2>1, <2>2
  <2> HIDE DEF Fine
  <2> QED BY <1>1, <2>3
<1>6. ASSUME NEW k \in 1 .. N, k - 1 \in V
      PROVE  k \in V
  <2> DEFINE b == after[k - 1]
             bc == b.c
             d == after[k]
  <2>1. d = IF b.more THEN OutputRound(bc, u) ELSE b
    <3>1. k \in 0 .. N /\ k # 0
      OBVIOUS
    <3>2. after[k] = step(after, k)
      BY <1>3, <3>1
    <3>3. step(after, k) = next(after[k - 1])
      BY <3>1
    <3> QED BY <3>2, <3>3
  <2>2. b.more \in BOOLEAN /\ Good(bc, P) /\ OutFrame(c, bc)
    BY <1>6
  <2> HIDE DEF b, d, bc
  <2>3. Fine(d)
    <3>1. CASE b.more
      <4>1. d = OutputRound(bc, u) /\ bc.st \notin {"CLOSED", "LISTEN"} /\ bc \in Cb
        BY <2>1, <2>2, <3>1 DEF OutFrame, Good, Kept
      <4>2. d.more \in BOOLEAN /\ Good(d.c, P) /\ OutFrame(bc, d.c)
        BY <2>2, <4>1, OutputRoundKeeps
      <4>3. OutFrame(c, d.c)
        BY <1>1, <2>2, <4>1, <4>2, OutFrameTrans DEF Good, Kept
      <4> QED BY <4>2, <4>3
    <3>2. CASE ~b.more
      BY <2>1, <2>2, <3>2 DEF bc
    <3> QED BY <3>1, <3>2
  <2> HIDE DEF Fine
  <2> QED BY <2>3 DEF d
<1>7. N \in V
  BY <1>1, <1>5, <1>6, ChainKeeps
<1> QED BY <1>4, <1>7

\* min_cwnd() is a number.
LEMMA MinCwndType == MinCwnd \in Nat \ {0} /\ MinCwnd <= MaxWin
<1>1. CwndSegs \in Nat \ {0} /\ MaxSeg \in Nat \ {0}
  BY CbAssumption, RcvBufAssumption
<1>2. \A x, y \in Nat \ {0} : x * y \in Nat \ {0}
  OBVIOUS
<1> QED BY <1>1, <1>2, CbAssumption DEF MinCwnd

\* output(): nothing is sent in CLOSED, and an end in LISTEN never gets here.
LEMMA OutputKeeps ==
  ASSUME NEW P \in Peers, NEW c, Good(c, P), c.st # "LISTEN", NEW u \in Inputs
  PROVE  LET d == Output(c, u)
         IN  /\ Leads(c, d, P)
             /\ d.st = c.st /\ d.err = c.err /\ d.una = c.una /\ d.up = c.up /\ d.r.nxt = c.r.nxt
<1> DEFINE b == IF c.max = c.una /\ u.idle THEN SlowStart(c) ELSE c
           ok == u.force => b.una = b.nxt
           a == Assert_(b, "force_output", ok)
           d == Output(c, u)
<1>1. /\ c \in Cb /\ c.max \in Nat /\ c.nxt \in Nat /\ c.fack \in Nat /\ c.retrans \in Int
      /\ MinCwnd \in Nat \ {0}
  BY CbNumbers, MinCwndType DEF Good, Kept
<1>2. b \in Cb /\ Same(c, b) /\ (Wide(c) => Wide(b))
  <2>1. CASE b = c
    BY <2>1, <1>1 DEF Same
  <2>2. CASE b # c
    <3> DEFINE w == MinCwnd + Inflight(c)
    <3>1. w \in Nat \ {0} /\ w >= MinCwnd
      BY <1>1 DEF Inflight, Greatest
    <3>2. b = [c EXCEPT !.cwnd = w]
      BY <2>2 DEF SlowStart
    <3> HIDE DEF b, w
    <3>3. b \in Cb /\ b.cwnd = w
      BY ZenonT(40), <1>1, <3>1, <3>2 DEF Cb
    <3>4. Same(c, b)
      BY <1>1, <3>2 DEF Cb, Same
    <3> QED BY <3>1, <3>3, <3>4 DEF Wide, b
  <2> QED BY <2>1, <2>2
<1> HIDE DEF b
<1>3. a \in Cb /\ Same(b, a) /\ a.cwnd = b.cwnd
  <2>1. ok \in BOOLEAN /\ "force_output" \in Asserts
        /\ "force_output" \notin {"enter_persist", "check_rexmt_data"}
    BY DEF Asserts
  <2>2. a = Assert_(b, "force_output", ok)
    OBVIOUS
  <2> HIDE DEF ok, a
  <2>3. a \in Cb /\ Same(b, a) /\ a = [b EXCEPT !.bad = a.bad]
    BY <1>2, <2>1, <2>2, AssertKeeps
  <2>4. a.cwnd = b.cwnd
    BY <1>2, <2>3 DEF Cb
  <2> QED BY <2>3, <2>4
<1>4. CASE c.st = "CLOSED"
  <2>1. d = c
    BY <1>4 DEF Output
  <2> QED BY <1>1, <2>1 DEF Leads
<1>5. CASE c.st # "CLOSED"
  <2>1. d = OutputRounds(a, u)
    BY <1>5 DEF Output, b
  <2> HIDE DEF a, d
  <2>2. Good(b, P)
    BY <1>2, SameGood
  <2>3. Good(a, P) /\ a.st \notin {"CLOSED", "LISTEN"}
    BY <1>2, <1>3, <1>5, <2>2, SameGood DEF Same
  <2>4. Good(d, P) /\ OutFrame(a, d)
    BY <2>1, <2>3, OutputRoundsKeeps
  <2>5. /\ d.st = c.st /\ d.err = c.err /\ d.una = c.una /\ d.up = c.up /\ d.r.nxt = c.r.nxt
        /\ c.max <= d.max /\ (Wide(c) => Wide(d))
    BY <1>2, <1>3, <2>4 DEF OutFrame, Same, Wide
  <2>6. Acked(c) => Acked(d)
    BY <2>5 DEF Acked
  <2> QED BY <2>4, <2>5, <2>6 DEF Leads, d
<1> QED BY <1>4, <1>5

----------------------------------------------------------------------------
(* What input() and the timers do to the send side. *)

\* c and d differ only in where the send side stands.
Steady(c, d) ==
  /\ d.st = c.st /\ d.err = c.err /\ d.max = c.max /\ d.up = c.up /\ d.ops = c.ops
  /\ d.r = c.r /\ d.out = c.out /\ d.sbseq = c.sbseq /\ d.told = c.told
  /\ "SENTFIN" \in d.flags <=> "SENTFIN" \in c.flags
  /\ "NOTIFY_DROP" \in d.flags <=> "NOTIFY_DROP" \in c.flags
  /\ "enter_persist" \in d.bad <=> "enter_persist" \in c.bad
  /\ "check_rexmt_data" \in d.bad <=> "check_rexmt_data" \in c.bad
  /\ c.una <= d.una /\ (c.sb = {} => d.sb = {}) /\ (d.persist => c.persist)

(* A step that moves neither the sequence numbers nor the state. *)
LEMMA SteadyGood ==
  ASSUME NEW P \in Peers, NEW c, Good(c, P), NEW d \in Cb, ~Unopened(c), Steady(c, d),
         Buffered(d), d.una <= d.nxt, d.nxt <= d.max, d.una <= d.fack, d.fack <= d.max,
         ~(d.rexmt /\ d.persist),
         d.una = c.una \/ ~("SENTFIN" \in c.flags /\ c.st \in Finishing) \/ d.una < d.max
  PROVE  Good(d, P) /\ ((Wide(c) => Wide(d)) => Leads(c, d, P))
<1>1. c \in Cb /\ c.max \in Nat /\ c.una \in Nat /\ d.una \in Nat
  BY CbNumbers DEF Good, Kept
<1>2. Phased(d)
  <2>1. ~Unopened(d)
    BY DEF Steady, Unopened
  <2>2. d.st \in Handshaking =>
          d.max <= 1 /\ d.sb = {} /\ d.ops = << >> /\ ~d.persist /\ ~d.up
    BY DEF Steady, Good, Kept, Phased
  <2>3. "SENTFIN" \in d.flags => d.st \in Finishing \cup {"FIN_WAIT_2", "TIME_WAIT", "CLOSED"}
    BY DEF Steady, Good, Kept, Phased
  <2>4. "SENTFIN" \in d.flags /\ d.st \in Finishing => d.una < d.max
    BY DEF Steady, Good, Kept, Phased
  <2>5. /\ d.st \in {"CLOSE_WAIT", "CLOSING", "LAST_ACK", "TIME_WAIT"} => d.err # "none"
        /\ "NOTIFY_DROP" \in d.flags => d.err # "none"
    BY DEF Steady, Good, Kept, Phased
  <2> QED BY <2>1, <2>2, <2>3, <2>4, <2>5 DEF Phased
<1>3. Opened(d, P)
  BY DEF Steady, Good, Kept, Opened
<1>4. Heard(d, P)
  BY DEF Steady, Good, Kept, Heard, View
<1>5. Good(d, P)
  BY <1>2, <1>3, <1>4 DEF Steady, Good, Kept
<1>6. Acked(c) => Acked(d)
  BY <1>1 DEF Acked, Steady
<1> QED BY <1>1, <1>5, <1>6 DEF Leads, Steady

\* reset_rexmt_timer.
LEMMA ResetRexmtTimerKeeps ==
  ASSUME NEW P \in Peers, NEW c, Good(c, P), ~Unopened(c)
  PROVE  LET d == ResetRexmtTimer(c)
         IN  Leads(c, d, P) /\ Steady(c, d) /\ d.una = c.una /\ d.nxt = c.nxt /\ d.sb = c.sb
<1> DEFINE d == ResetRexmtTimer(c)
<1>1. /\ c \in Cb /\ c.una \in Nat /\ c.flags \in SUBSET CbFlags /\ c.max \in Nat
      /\ c.rexmt \in BOOLEAN /\ c.persist \in BOOLEAN
  BY CbNumbers DEF Good, Kept
<1> DEFINE x == IF c.una = c.max THEN FALSE ELSE c.rexmt \/ ~c.persist
           fl == IF c.una = c.max THEN c.flags \cup {"NEED_OUTPUT"} ELSE c.flags
<1>2. d = [c EXCEPT !.rexmt = x, !.flags = fl]
  <2>1. CASE c.una = c.max
    BY <2>1 DEF ResetRexmtTimer, On
  <2>2. CASE c.una # c.max
    <3>1. d = [c EXCEPT !.rexmt = x]
      BY <2>2 DEF ResetRexmtTimer
    <3> HIDE DEF d
    <3>2. c.flags = fl
      BY <2>2
    <3> QED BY <1>1, <3>1, <3>2 DEF Cb
  <2> QED BY <2>1, <2>2
<1>3. x \in BOOLEAN /\ fl \in SUBSET CbFlags
  BY <1>1 DEF CbFlags
<1>4. /\ "SENTFIN" \in fl <=> "SENTFIN" \in c.flags
      /\ "NOTIFY_DROP" \in fl <=> "NOTIFY_DROP" \in c.flags
      /\ ~(x /\ c.persist)
  BY DEF Good, Kept
<1> HIDE DEF d, x, fl
<1>5. d \in Cb
  BY ZenonT(60), <1>1, <1>2, <1>3 DEF Cb
<1>6. /\ d.st = c.st /\ d.err = c.err /\ d.una = c.una /\ d.nxt = c.nxt /\ d.max = c.max
      /\ d.fack = c.fack /\ d.up = c.up /\ d.cwnd = c.cwnd /\ d.retrans = c.retrans
      /\ d.sb = c.sb /\ d.sbseq = c.sbseq /\ d.ops = c.ops /\ d.r = c.r /\ d.out = c.out
      /\ d.bad = c.bad /\ d.persist = c.persist /\ d.flags = fl /\ d.rexmt = x /\ d.told = c.told
  BY <1>1, <1>2 DEF Cb
<1>7. Steady(c, d)
  BY <1>1, <1>4, <1>6 DEF Steady
<1>8. Buffered(d)
  BY <1>6 DEF Buffered, Good, Kept
<1>9. /\ d.una <= d.nxt /\ d.nxt <= d.max /\ d.una <= d.fack /\ d.fack <= d.max
      /\ ~(d.rexmt /\ d.persist)
  BY <1>4, <1>6 DEF Good, Kept
<1>10. Wide(c) => Wide(d)
  BY <1>6 DEF Wide
<1>11. Leads(c, d, P)
  BY <1>5, <1>6, <1>7, <1>8, <1>9, <1>10, SteadyGood
<1> QED BY <1>6, <1>7, <1>11 DEF d

\* Packets that go take their share of m_retrans_data with them.
LEMMA DropSndPktsFields ==
  ASSUME NEW P \in Peers, NEW c, Good(c, P), NEW gone \in SUBSET c.sb
  PROVE  LET d == DropSndPkts(c, gone)
         IN  /\ d \in Cb /\ d = [c EXCEPT !.sb = d.sb, !.retrans = d.retrans]
             /\ d.sb = c.sb \ gone /\ d.sb \subseteq c.sb /\ Buffered(d)
             /\ d.retrans = SumLen(Marked(d.sb))
<1> DEFINE d == DropSndPkts(c, gone)
           left == c.sb \ gone
           M == Marked(c.sb)
           G == Marked(gone)
           L == Marked(left)
           ret == c.retrans - SumLen(G)
<1>1. /\ c \in Cb /\ c.sb \in SUBSET Pkt /\ c.retrans = SumLen(M)
      /\ \A p \in c.sb : p.seq + p.len <= c.sbseq /\ (p.rx => p.seq < c.max)
      /\ \A p, o \in c.sb : p.seq = o.seq => p = o
  BY CbNumbers DEF Good, Kept, Buffered
<1>2. c.sb \cap gone = gone
  OBVIOUS
<1>3. d = [c EXCEPT !.sb = left, !.retrans = ret]
  BY <1>2 DEF DropSndPkts
<1>4. /\ SumLen(M) = SumLen(L) + SumLen(G) /\ SumLen(L) \in Nat /\ SumLen(G) \in Nat
      /\ SumLen(M) \in Nat
  <2>1. L \in SUBSET c.sb /\ G \in SUBSET c.sb /\ L \cap G = {} /\ L \cup G = M
    BY DEF Marked
  <2>2. Kept(c, P)
    BY DEF Good
  <2> HIDE DEF L, G, M
  <2> QED BY SMTT(60), <2>1, <2>2, MarkedSplit
<1>5. ret = SumLen(L) /\ ret \in Int /\ left \in SUBSET Pkt
  BY <1>1, <1>4
<1> HIDE DEF d, ret, L, G, M
<1>6. d \in Cb /\ d.sb = left /\ d.retrans = ret
  BY ZenonT(40), <1>1, <1>3, <1>5 DEF Cb
<1>7. d = [c EXCEPT !.sb = d.sb, !.retrans = d.retrans]
  BY <1>3, <1>6
<1>8. d.sbseq = c.sbseq /\ d.max = c.max
  BY <1>1, <1>3 DEF Cb
<1>9. d.retrans = SumLen(Marked(d.sb))
  BY <1>5, <1>6 DEF L
<1>10. Buffered(d)
  BY <1>1, <1>6, <1>8, <1>9 DEF Buffered
<1> QED BY <1>6, <1>7, <1>9, <1>10 DEF d

\* drop_acked_data: an acknowledgement of something new.  If it reaches snd_max
\* the state has left FIN_WAIT_1, CLOSING and LAST_ACK before.
LEMMA DropAckedDataKeeps ==
  ASSUME NEW P \in Peers, NEW c, Good(c, P), ~Unopened(c), NEW ack \in Nat,
         c.una < ack, ack <= c.max, ack < c.max \/ ~("SENTFIN" \in c.flags /\ c.st \in Finishing)
  PROVE  LET d == DropAckedData(c, ack)
         IN  /\ Leads(c, d, P) /\ Steady(c, d) /\ d.una = ack
             /\ d.nxt = Greatest(c.nxt, ack) /\ d.flags = c.flags
             /\ d.sb = {p \in c.sb : ~(p.seq < ack)}
<1> DEFINE gone == {p \in c.sb : p.seq < ack}
           b == DropSndPkts(c, gone)
           nn == Greatest(c.nxt, ack)
           ff == Greatest(c.fack, ack)
           d == DropAckedData(c, ack)
<1>1. /\ c \in Cb /\ c.una \in Nat /\ c.nxt \in Nat /\ c.max \in Nat /\ c.fack \in Nat
      /\ c.nxt <= c.max /\ c.fack <= c.max
  BY CbNumbers DEF Good, Kept
<1>2. /\ b \in Cb /\ b = [c EXCEPT !.sb = b.sb, !.retrans = b.retrans]
      /\ b.sb \subseteq c.sb /\ Buffered(b) /\ b.retrans = SumLen(Marked(b.sb))
  BY DropSndPktsFields
<1>15. b.sb = {p \in c.sb : ~(p.seq < ack)}
  <2>1. b.sb = c.sb \ gone
    BY DropSndPktsFields
  <2> QED BY <2>1
<1>3. d = [b EXCEPT !.una = ack, !.nxt = Greatest(b.nxt, ack), !.fack = Greatest(b.fack, ack)]
  BY <1>2 DEF DropAckedData, Assert_
<1> HIDE DEF b, d
<1>4. b.nxt = c.nxt /\ b.fack = c.fack
  BY <1>1, <1>2 DEF Cb
<1>5. d = [b EXCEPT !.una = ack, !.nxt = nn, !.fack = ff]
  BY <1>3, <1>4
<1>6. nn \in Nat /\ ff \in Nat /\ ack <= nn /\ nn <= c.max /\ ack <= ff /\ ff <= c.max
  BY <1>1 DEF Greatest
<1> HIDE DEF nn, ff
<1>7. d \in Cb
  BY ZenonT(60), <1>2, <1>5, <1>6 DEF Cb
<1>8. /\ d.una = ack /\ d.nxt = nn /\ d.fack = ff /\ d.sb = b.sb /\ d.retrans = b.retrans
      /\ d.sbseq = b.sbseq /\ d.max = b.max /\ d.st = b.st /\ d.err = b.err /\ d.up = b.up
      /\ d.ops = b.ops /\ d.r = b.r /\ d.out = b.out /\ d.flags = b.flags /\ d.bad = b.bad
      /\ d.rexmt = b.rexmt /\ d.persist = b.persist /\ d.cwnd = b.cwnd /\ d.told = b.told
  BY <1>2, <1>5 DEF Cb
<1>9. /\ b.sbseq = c.sbseq /\ b.max = c.max /\ b.st = c.st /\ b.err = c.err /\ b.up = c.up
      /\ b.ops = c.ops /\ b.r = c.r /\ b.out = c.out /\ b.flags = c.flags /\ b.bad = c.bad
      /\ b.rexmt = c.rexmt /\ b.persist = c.persist /\ b.cwnd = c.cwnd /\ b.told = c.told
  BY ZenonT(60), <1>1, <1>2 DEF Cb
<1>10. Steady(c, d)
  BY <1>1, <1>2, <1>8, <1>9 DEF Steady
<1>11. Buffered(d)
  BY <1>2, <1>8 DEF Buffered
<1>12. /\ d.una <= d.nxt /\ d.nxt <= d.max /\ d.una <= d.fack /\ d.fack <= d.max
       /\ ~(d.rexmt /\ d.persist)
       /\ ~("SENTFIN" \in c.flags /\ c.st \in Finishing) \/ d.una < d.max
  BY <1>6, <1>8, <1>9 DEF Good, Kept
<1>13. Wide(c) => Wide(d)
  BY <1>8, <1>9 DEF Wide
<1>14. Leads(c, d, P)
  BY <1>7, <1>10, <1>11, <1>12, <1>13, SteadyGood
<1> QED BY <1>8, <1>9, <1>10, <1>14, <1>15 DEF d, nn

\* A bounded set of numbers has a greatest element.
LEMMA MaxExists ==
  ASSUME NEW S \in SUBSET Nat, S # {}, NEW B \in Nat, \A x \in S : x <= B
  PROVE  Max(S) \in S /\ Max(S) \in Nat /\ Max(S) <= B
<1> DEFINE T == {B - x : x \in S}
<1>0. \A x \in S : x \in Nat /\ x <= B /\ B - x \in Nat /\ B - x \in T
  <2> TAKE x \in S
  <2>1. x \in Nat /\ x <= B
    OBVIOUS
  <2>2. B - x \in Nat
    BY <2>1
  <2> QED BY <2>1, <2>2
<1>1. T \in SUBSET Nat /\ T # {}
  BY <1>0
<1>2. PICK m \in T : \A n \in T : m <= n
  <2> HIDE DEF T
  <2> QED BY <1>1, LeastExists
<1>3. PICK x \in S : m = B - x
  OBVIOUS
<1>4. \A y \in S : x >= y
  <2> TAKE y \in S
  <2>1. B - y \in T /\ y \in Nat /\ x \in Nat
    BY <1>0
  <2>2. m <= B - y
    BY <1>2, <2>1
  <2> QED BY <1>3, <2>1, <2>2
<1>5. Max(S) \in S
  BY <1>4 DEF Max
<1> QED BY <1>5

\* handle_option_sack: m_snd_fack moves up to the end of a block, and no further
\* than snd_max.
LEMMA HandleOptionSackKeeps ==
  ASSUME NEW P \in Peers, NEW c, Good(c, P), ~Unopened(c),
         NEW blocks \in SUBSET (Nat \X Nat), \A b \in blocks : b[2] <= c.max
  PROVE  LET d == HandleOptionSack(c, blocks)
         IN  /\ Leads(c, d, P) /\ Steady(c, d) /\ d.una = c.una /\ d.flags = c.flags
             /\ d.nxt = c.nxt /\ d.sb \subseteq c.sb
             /\ \A p \in c.sb \ d.sb : \E b \in blocks : b[1] <= p.seq /\ p.seq + p.len <= b[2]
<1> DEFINE top == Max({b[2] : b \in blocks})
           ff == Greatest(c.fack, top)
           a == [c EXCEPT !.fack = ff]
           gone == {p \in a.sb : \E b \in blocks : b[1] <= p.seq /\ p.seq + p.len <= b[2]}
           d == HandleOptionSack(c, blocks)
<1>1. /\ c \in Cb /\ c.una \in Nat /\ c.nxt \in Nat /\ c.max \in Nat /\ c.fack \in Nat
      /\ c.nxt <= c.max /\ c.una <= c.fack /\ c.fack <= c.max /\ c.una <= c.nxt
  BY CbNumbers DEF Good, Kept
<1>2. CASE blocks = {}
  <2>1. d = c
    BY <1>2 DEF HandleOptionSack
  <2> QED BY <1>1, <2>1 DEF Leads, Steady
<1>3. CASE blocks # {}
  <2>1. top \in Nat /\ top <= c.max
    <3> DEFINE S == {b[2] : b \in blocks}
    <3>1. S \in SUBSET Nat /\ S # {} /\ \A x \in S : x <= c.max
      BY <1>3
    <3> HIDE DEF S
    <3>2. Max(S) \in Nat /\ Max(S) <= c.max
      BY <1>1, <3>1, MaxExists
    <3> QED BY <3>2 DEF S
  <2> HIDE DEF top
  <2>2. ff \in Nat /\ c.una <= ff /\ ff <= c.max
    BY <1>1, <2>1 DEF Greatest
  <2>3. a.sb = c.sb
    BY <1>1 DEF Cb
  <2>4. d = DropSndPkts(a, gone)
    BY <1>3, <2>3 DEF HandleOptionSack, top
  <2> HIDE DEF ff
  <2>5. /\ a \in Cb /\ a.una = c.una /\ a.nxt = c.nxt /\ a.fack = ff /\ a.retrans = c.retrans
        /\ a.sbseq = c.sbseq /\ a.max = c.max /\ a.st = c.st /\ a.err = c.err /\ a.up = c.up
        /\ a.ops = c.ops /\ a.r = c.r /\ a.out = c.out /\ a.flags = c.flags /\ a.bad = c.bad
        /\ a.rexmt = c.rexmt /\ a.persist = c.persist /\ a.cwnd = c.cwnd /\ a.told = c.told
    BY <1>1, <2>2 DEF Cb
  <2> HIDE DEF a
  <2>6. Steady(c, a) /\ Buffered(a)
    BY <1>1, <2>3, <2>5 DEF Steady, Buffered, Good, Kept
  <2>7. /\ a.una <= a.nxt /\ a.nxt <= a.max /\ a.una <= a.fack /\ a.fack <= a.max
        /\ ~(a.rexmt /\ a.persist)
    BY <1>1, <2>2, <2>5 DEF Good, Kept
  <2>8. Good(a, P)
    BY <2>5, <2>6, <2>7, SteadyGood
  <2>9. gone \in SUBSET a.sb
    OBVIOUS
  <2>16. \A p \in gone : \E b \in blocks : b[1] <= p.seq /\ p.seq + p.len <= b[2]
    OBVIOUS
  <2> HIDE DEF gone, d
  <2>10. /\ d \in Cb /\ d = [a EXCEPT !.sb = d.sb, !.retrans = d.retrans]
         /\ d.sb = a.sb \ gone /\ d.sb \subseteq a.sb /\ Buffered(d) /\ d.retrans = SumLen(Marked(d.sb))
    BY <2>4, <2>8, <2>9, DropSndPktsFields
  <2>11. /\ d.una = a.una /\ d.nxt = a.nxt /\ d.fack = a.fack
         /\ d.max = a.max /\ d.st = a.st /\ d.err = a.err /\ d.up = a.up
         /\ d.ops = a.ops /\ d.r = a.r /\ d.out = a.out /\ d.flags = a.flags /\ d.bad = a.bad
         /\ d.rexmt = a.rexmt /\ d.persist = a.persist /\ d.cwnd = a.cwnd /\ d.told = a.told
         /\ d.sbseq = a.sbseq
    BY ZenonT(60), <2>5, <2>10 DEF Cb
  <2>12. Steady(c, d)
    BY <1>1, <2>3, <2>5, <2>10, <2>11 DEF Steady
  <2>13. /\ d.una <= d.nxt /\ d.nxt <= d.max /\ d.una <= d.fack /\ d.fack <= d.max
         /\ ~(d.rexmt /\ d.persist) /\ d.una = c.una
    BY <2>5, <2>7, <2>11
  <2>14. Wide(c) => Wide(d)
    BY <2>5, <2>11 DEF Wide
  <2>15. Leads(c, d, P)
    BY <2>10, <2>12, <2>13, <2>14, SteadyGood
  <2>17. /\ d.nxt = c.nxt /\ d.sb \subseteq c.sb
         /\ \A p \in c.sb \ d.sb : \E b \in blocks : b[1] <= p.seq /\ p.seq + p.len <= b[2]
    BY <2>3, <2>5, <2>10, <2>11, <2>16
  <2> QED BY <2>5, <2>11, <2>12, <2>13, <2>15, <2>17 DEF d
<1> QED BY <1>2, <1>3

\* validate_first_pkt: the first packet is taken for one not being retransmitted.
LEMMA ValidateFirstPktKeeps ==
  ASSUME NEW P \in Peers, NEW c, Good(c, P), ~Unopened(c)
  PROVE  LET d == ValidateFirstPkt(c)
         IN  /\ Leads(c, d, P) /\ Steady(c, d) /\ d.flags = c.flags /\ d.cwnd = c.cwnd
             /\ d.una = c.una /\ d.nxt = c.nxt
             /\ \A p \in c.sb : \E q \in d.sb : q.seq = p.seq /\ q.len = p.len
             /\ \A q \in d.sb : \E p \in c.sb : q.seq = p.seq /\ q.len = p.len
<1> DEFINE first == FirstOf(c.sb)
           clear == {[p EXCEPT !.rx = FALSE] : p \in first}
           sb2 == (c.sb \ first) \cup clear
           rt == c.retrans - SumLen(Marked(first))
           d == ValidateFirstPkt(c)
<1>1. /\ c \in Cb /\ c.sb \in SUBSET Pkt /\ c.retrans \in Int /\ Kept(c, P) /\ Buffered(c)
      /\ c.una \in Nat /\ c.max \in Nat
  BY CbNumbers DEF Good, Kept
<1>2. first \in SUBSET c.sb /\ Marked(first) \in SUBSET c.sb
  BY DEF FirstOf, Marked
<1>3. IsFiniteSet(Marked(first)) /\ SumLen(Marked(first)) \in Nat
  BY <1>1, <1>2, BufferFinite, SumLenType
<1>4. \A p \in first : /\ p \in Pkt /\ [p EXCEPT !.rx = FALSE] \in Pkt
                       /\ [p EXCEPT !.rx = FALSE].seq = p.seq
                       /\ [p EXCEPT !.rx = FALSE].len = p.len
                       /\ [p EXCEPT !.rx = FALSE].rx = FALSE
  BY <1>1, <1>2 DEF Pkt
<1>5. clear \in SUBSET Pkt /\ sb2 \in SUBSET Pkt
  BY <1>1, <1>4
<1>6. rt \in Int
  BY <1>1, <1>3
<1>7. d = [c EXCEPT !.sb = sb2, !.retrans = rt]
  BY DEF ValidateFirstPkt
<1>8. \A p \in clear : \E o \in first : p.seq = o.seq /\ p.len = o.len /\ p.rx = FALSE
  BY <1>4
<1>23. /\ \A p \in c.sb : \E q \in sb2 : q.seq = p.seq /\ q.len = p.len
       /\ \A q \in sb2 : \E p \in c.sb : q.seq = p.seq /\ q.len = p.len
  <2>1. \A p \in first : \E q \in clear : q.seq = p.seq /\ q.len = p.len
    BY <1>4
  <2> QED BY <1>2, <1>8, <2>1
<1>9. \A p, o \in first : p = o
  <2> TAKE p, o \in first
  <2>1. p.seq <= o.seq /\ o.seq <= p.seq /\ p.seq \in Nat /\ o.seq \in Nat
    BY <1>2, <1>4 DEF FirstOf, Pkt
  <2> QED BY <1>1, <1>2, <2>1 DEF Buffered
<1>10. \A p \in sb2 : p.seq + p.len <= c.sbseq /\ (p.rx => p.seq < c.max)
  BY <1>1, <1>2, <1>8 DEF Buffered
<1>11. \A p, o \in sb2 : p.seq = o.seq => p = o
  <2>1. \A p, o \in clear : p = o
    BY <1>9
  <2>2. \A p \in c.sb \ first, o \in clear : p.seq # o.seq
    BY <1>1, <1>2, <1>8 DEF Buffered
  <2>3. \A p, o \in c.sb \ first : p.seq = o.seq => p = o
    BY <1>1 DEF Buffered
  <2> QED BY <2>1, <2>2, <2>3
<1>12. Marked(sb2) = Marked(c.sb) \ Marked(first)
  BY <1>2, <1>8 DEF Marked
<1>13. rt = SumLen(Marked(sb2))
  <2> DEFINE S == Marked(first)
             T == Marked(c.sb) \ Marked(first)
  <2>1. S \in SUBSET c.sb /\ T \in SUBSET c.sb /\ S \cap T = {} /\ S \cup T = Marked(c.sb)
    BY <1>2 DEF Marked
  <2> HIDE DEF S, T
  <2>2. /\ SumLen(S \cup T) = SumLen(S) + SumLen(T) /\ SumLen(S) \in Nat /\ SumLen(T) \in Nat
    BY SMTT(60), <1>1, <2>1, MarkedSplit
  <2>3. c.retrans = SumLen(S) + SumLen(T)
    BY <1>1, <2>1, <2>2 DEF Buffered
  <2>4. c.retrans - SumLen(S) = SumLen(T)
    BY <2>2, <2>3
  <2> QED BY <1>12, <2>4 DEF S, T
<1>14. c.sb = {} => sb2 = {}
  BY <1>2
<1> HIDE DEF d, rt, sb2, clear, first
<1>15. d \in Cb
  BY ZenonT(60), <1>1, <1>5, <1>6, <1>7 DEF Cb
<1>16. /\ d.sb = sb2 /\ d.retrans = rt
       /\ d.st = c.st /\ d.err = c.err /\ d.una = c.una /\ d.nxt = c.nxt /\ d.max = c.max
       /\ d.fack = c.fack /\ d.up = c.up /\ d.cwnd = c.cwnd
  BY <1>1, <1>7 DEF Cb
<1>17. /\ d.sbseq = c.sbseq /\ d.ops = c.ops /\ d.r = c.r /\ d.out = c.out /\ d.flags = c.flags
       /\ d.bad = c.bad /\ d.persist = c.persist /\ d.rexmt = c.rexmt /\ d.told = c.told
  BY <1>1, <1>7 DEF Cb
<1>18. Steady(c, d)
  BY <1>1, <1>14, <1>16, <1>17 DEF Steady
<1>19. Buffered(d)
  BY <1>10, <1>11, <1>13, <1>16, <1>17 DEF Buffered
<1>20. /\ d.una <= d.nxt /\ d.nxt <= d.max /\ d.una <= d.fack /\ d.fack <= d.max
       /\ ~(d.rexmt /\ d.persist)
  BY <1>16, <1>17 DEF Good, Kept
<1>21. Wide(c) => Wide(d)
  BY <1>16 DEF Wide
<1>22. Leads(c, d, P)
  BY <1>15, <1>16, <1>18, <1>19, <1>20, <1>21, SteadyGood
<1> QED BY <1>16, <1>17, <1>18, <1>22, <1>23 DEF d

\* Another congestion window, and nothing else the invariant is about.
LEMMA CwndKeeps ==
  ASSUME NEW P \in Peers, NEW c \in Cb, NEW d \in Cb, NEW w, NEW i,
         d = [c EXCEPT !.cwnd = w, !.incr = i]
  PROVE  /\ Same(c, d) /\ d.cwnd = w
         /\ (Wide(c) => w >= MinCwnd) => (Good(c, P) => Leads(c, d, P))
<1>1. Same(c, d) /\ d.cwnd = w /\ d.una = c.una /\ d.up = c.up /\ d.st = c.st
      /\ d.max = c.max /\ d.r = c.r /\ c.max \in Nat
  BY DEF Cb, Same
<1>2. Good(c, P) => Good(d, P)
  BY <1>1, SameGood
<1> QED BY <1>1, <1>2 DEF Leads, Wide, Acked

\* incr_cwnd: TCP_MAXWIN is not below min_cwnd().
LEMMA IncrCwndKeeps ==
  ASSUME NEW P \in Peers, NEW c, Good(c, P)
  PROVE  LET d == IncrCwnd(c)
         IN  Leads(c, d, P) /\ Same(c, d) /\ d.flags = c.flags
<1> DEFINE seg == IF c.incr THEN Greatest(1, (MaxSeg * MaxSeg) \div c.cwnd) ELSE MaxSeg
           w == Least(c.cwnd + seg, MaxWin)
           d == IncrCwnd(c)
<1>1. /\ c \in Cb /\ c.cwnd \in Nat \ {0} /\ c.incr \in BOOLEAN /\ MaxSeg \in Nat \ {0}
      /\ MaxWin \in Nat \ {0} /\ MinCwnd \in Nat \ {0} /\ MinCwnd <= MaxWin
  BY MinCwndType, RcvBufAssumption DEF Good, Kept, Cb
<1>2. seg \in Nat \ {0}
  <2>1. MaxSeg * MaxSeg \in Nat
    BY <1>1
  <2>2. \A x \in Nat, y \in Nat \ {0} : x \div y \in Int
    OBVIOUS
  <2>3. (MaxSeg * MaxSeg) \div c.cwnd \in Int
    BY <1>1, <2>1, <2>2
  <2> QED BY <1>1, <2>3 DEF Greatest
<1> HIDE DEF seg
<1>3. w \in Nat \ {0} /\ (Wide(c) => w >= MinCwnd)
  BY <1>1, <1>2 DEF Least, Wide
<1>4. d = [c EXCEPT !.cwnd = w]
  BY DEF IncrCwnd, seg
<1> HIDE DEF w, d
<1>5. d \in Cb /\ d = [c EXCEPT !.cwnd = w, !.incr = c.incr] /\ d.flags = c.flags
  BY ZenonT(60), <1>1, <1>3, <1>4 DEF Cb
<1> QED BY <1>1, <1>3, <1>5, CwndKeeps DEF d

\* handle_packet_lost: the window is reduced to min_cwnd() at most.
LEMMA HandlePacketLostKeeps ==
  ASSUME NEW P \in Peers, NEW c, Good(c, P), NEW u \in Inputs
  PROVE  LET d == HandlePacketLost(c, u)
         IN  /\ Leads(c, d, P) /\ Same(c, d) /\ d.flags = c.flags
             /\ d = [c EXCEPT !.incr = u.loss, !.cwnd = d.cwnd]
<1> DEFINE w == IF u.loss THEN Greatest(c.cwnd - c.cwnd \div 4, MinCwnd) ELSE c.cwnd
           d == HandlePacketLost(c, u)
<1>1. /\ c \in Cb /\ c.cwnd \in Nat \ {0} /\ u.loss \in BOOLEAN /\ MinCwnd \in Nat \ {0}
  BY MinCwndType DEF Good, Kept, Cb, Inputs
<1>2. w \in Nat \ {0} /\ (Wide(c) => w >= MinCwnd)
  BY <1>1 DEF Greatest, Wide
<1>3. d = [c EXCEPT !.incr = u.loss, !.cwnd = w]
  BY DEF HandlePacketLost
<1> HIDE DEF w, d
<1>4. d \in Cb
  <2> DEFINE b == [c EXCEPT !.incr = u.loss]
  <2>1. b \in Cb
    BY <1>1 DEF Cb
  <2>2. d = [b EXCEPT !.cwnd = w]
    BY <1>3
  <2> HIDE DEF b
  <2> QED BY ONLY ZenonT(40), <1>2, <2>1, <2>2 DEF Cb
<1>5. /\ d = [c EXCEPT !.cwnd = w, !.incr = u.loss] /\ d.flags = c.flags
      /\ d.cwnd = w
  BY <1>1, <1>3 DEF Cb
<1>6. Leads(c, d, P) /\ Same(c, d)
  BY <1>1, <1>2, <1>4, <1>5, CwndKeeps
<1> QED BY <1>5, <1>6 DEF d

\* update_rtt and xmit_timer: an end of one measurement.
LEMMA UpdateRttKeeps ==
  ASSUME NEW P \in Peers, NEW c, Good(c, P), NEW seq
  PROVE  /\ LET d == UpdateRtt(c, seq)
            IN  Leads(c, d, P) /\ Same(c, d) /\ d.flags = c.flags
         /\ LET d == XmitTimer(c)
            IN  Leads(c, d, P) /\ Same(c, d) /\ d.flags = c.flags
<1> DEFINE x == XmitTimer(c)
           d == UpdateRtt(c, seq)
<1>1. c \in Cb /\ c.max \in Nat
  BY CbNumbers DEF Good, Kept
<1>2. x = [c EXCEPT !.rtt = FALSE, !.shift = 0] /\ 0 \in 0 .. MaxRxtShift
  BY CbAssumption DEF XmitTimer
<1>3. d = x \/ d = c
  BY DEF UpdateRtt
<1> HIDE DEF x, d
<1>4. x \in Cb
  BY ZenonT(60), <1>1, <1>2 DEF Cb
<1>5. Same(c, x) /\ x.cwnd = c.cwnd /\ x.flags = c.flags
  BY <1>1, <1>2 DEF Cb, Same
<1>6. Leads(c, x, P)
  BY <1>4, <1>5, SameGood
<1>7. Leads(c, c, P) /\ Same(c, c)
  BY <1>1 DEF Leads, Same, Unopened
<1> QED BY <1>3, <1>5, <1>6, <1>7 DEF x, d

\* respond: a reset, or an acknowledgement from an end that has counted the SYN
\* of its peer and whose own SYN has been counted.
LEMMA RespondKeeps ==
  ASSUME NEW P \in Peers, NEW c, Good(c, P), NEW seq \in Int, NEW flags,
         \/ flags = {"RST"}
         \/ flags = {"ACK"} /\ c.r.nxt >= 1 /\ P.rcv >= 1
  PROVE  LET d == Respond(c, seq, flags)
         IN  /\ Leads(c, d, P) /\ Rest(c, d) /\ d.nxt = c.nxt /\ d.max = c.max
             /\ d.flags = c.flags /\ d.r = c.r
<1> DEFINE m == [flags |-> flags, seq |-> seq, ack |-> c.r.nxt, len |-> 0,
                 win |-> Acc(c.r), sack |-> {}, pseq |-> c.pseq]
           d == Respond(c, seq, flags)
<1>1. /\ c \in Cb /\ c.r \in Half /\ c.r.nxt \in Nat /\ c.r.q \in Seq(Nat) /\ c.pseq \in Int
      /\ c.max \in Nat /\ Heard(c, P)
  BY DEF Good, Kept, Cb, Half
<1>2. Acc(c.r) \in Nat
  BY SMTT(60), <1>1, LenProperties, RcvBufAssumption DEF Heard, Acc
<1>3. m \in Datagram
  BY <1>1, <1>2 DEF Datagram
<1>4. Sound(m, View(c), P)
  BY <1>1 DEF Sound, View
<1> DEFINE fin == c.told \/ "FIN" \in flags
<1>5. d = Sent(c, fin, m) /\ fin \in BOOLEAN
  BY DEF Respond, Segment, Sent
<1> HIDE DEF m, d, fin
<1>6. /\ d \in Cb /\ d.out = Append(c.out, m) /\ Rest(c, d)
      /\ d.nxt = c.nxt /\ d.max = c.max /\ d.rexmt = c.rexmt /\ d.persist = c.persist
      /\ d.flags = c.flags /\ d.r = c.r /\ d.bad = c.bad
  BY <1>1, <1>3, <1>5, SegmentFields
<1>7. \A i \in 1 .. Len(d.out) : Sound(d.out[i], View(c), P)
  <2>1. \A i \in 1 .. Len(c.out) : Sound(c.out[i], View(c), P)
    BY <1>1 DEF Heard
  <2> QED BY <1>1, <1>3, <1>4, <1>6, <2>1, OutAppend
<1>8. Heard(d, P)
  BY <1>1, <1>6, <1>7 DEF Heard, View
<1>9. Phased(d) /\ Opened(d, P) /\ Buffered(d)
  BY <1>6 DEF Good, Kept, Phased, Unopened, Fresh, Opened, Buffered, Rest
<1>10. Good(d, P)
  BY <1>6, <1>8, <1>9 DEF Good, Kept, Rest
<1> QED BY <1>1, <1>6, <1>10 DEF Leads, Wide, Acked, Rest, d
=============================================================================
