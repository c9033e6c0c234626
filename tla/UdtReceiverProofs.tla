------------------------- MODULE UdtReceiverProofs -------------------------
(***************************************************************************)
(* The safety of the receive path for every stream, buffer size, segment   *)
(* size and read size.  RcvInv is what each operator on the receive half   *)
(* keeps; the handlers are compositions of these operators.                *)
(***************************************************************************)
EXTENDS UdtReceiver, UdtRcvBufProofs

RcvType == [nxt : Nat, adv : Nat, q : Seq(Nat), fin : {"none", "bare", "data"},
            reasm : SUBSET Segs, got : Seq(Nat), ok : BOOLEAN]

\* The fields of a packet of the stream.
LEMMA PacketFields ==
  /\ Segs \subseteq Packet
  /\ \A p \in Segs : /\ p.seq \in Nat /\ p.len \in Nat /\ p.fin \in BOOLEAN
                     /\ p.seq >= 1
                     /\ p.fin => StreamEnd(p.seq + p.len)
BY SegsAssumption DEF Packet

\* output(): promising more window keeps the invariant.
LEMMA AdvertiseKeeps ==
  ASSUME NEW A \in SUBSET Segs, NEW E \in BOOLEAN, NEW x, RcvInv(x, E, A), NEW j \in Int
  PROVE  RcvInv(Advertise(x, j), E, A)
<1> DEFINE y == Advertise(x, j)
           w == AdvertisedWindow(x, j)
<1>1. x \in RcvType
  BY DEF RcvInv, RcvType
<1>2. w \in Int
  BY <1>1, RcvBufAssumption DEF AdvertisedWindow, Least, Greatest, RcvType
<1> HIDE DEF w
<1>3. PICK v \in Nat : v >= x.adv /\ y = [x EXCEPT !.adv = v]
  <2>1. y = [x EXCEPT !.adv = IF w > 0 THEN Greatest(x.adv, x.nxt + w) ELSE x.adv]
    BY Zenon DEF Advertise, w
  <2>2. /\ (IF w > 0 THEN Greatest(x.adv, x.nxt + w) ELSE x.adv) \in Nat
        /\ (IF w > 0 THEN Greatest(x.adv, x.nxt + w) ELSE x.adv) >= x.adv
    BY <1>1, <1>2 DEF Greatest, RcvType
  <2> QED BY <2>1, <2>2
<1> HIDE DEF y
<1>4. /\ y \in RcvType /\ y.adv >= x.adv
      /\ y.nxt = x.nxt /\ y.q = x.q /\ y.fin = x.fin
      /\ y.reasm = x.reasm /\ y.got = x.got /\ y.ok = x.ok
  BY <1>1, <1>3 DEF RcvType
<1>5. \A p \in x.reasm : p.seq + p.len <= Greatest(y.adv, x.nxt + RcvHiWat)
  BY SMTT(60), <1>1, <1>4, PacketFields, RcvBufAssumption DEF RcvInv, RcvType, Greatest
<1>6. RcvInv(y, E, A)
  BY <1>1, <1>4, <1>5 DEF RcvInv, Edge, RcvType
<1> QED BY <1>6 DEF y

\* output(): whatever segment it sends, or none, the invariant stays.
LEMMA AfterOutputKeeps ==
  ASSUME NEW A \in SUBSET Segs, NEW E \in BOOLEAN, NEW x, RcvInv(x, E, A),
         NEW y \in AfterOutput(x)
  PROVE  RcvInv(y, E, A)
<1>1. Acc(x) \in Int
  BY RcvBufAssumption, LenProperties DEF RcvInv, Acc
<1>2. CASE y = x
  BY <1>2
<1>3. CASE y = Advertise(x, Acc(x))
  BY <1>1, <1>3, AdvertiseKeeps
<1>4. CASE \E j \in Junk : y = Advertise(x, j)
  BY <1>4, JunkAssumption, AdvertiseKeeps
<1> QED BY <1>2, <1>3, <1>4 DEF AfterOutput

\* udt_buf::copy: a read moves bytes from the buffer to the application.
LEMMA CopyKeeps ==
  ASSUME NEW A \in SUBSET Segs, NEW E \in BOOLEAN, NEW x, RcvInv(x, E, A), NEW n \in Nat
  PROVE  RcvInv(Copy(x, n), E, A)
<1> DEFINE y == Copy(x, n)
           k == Least(n, Len(x.q))
<1>1. x \in RcvType
  BY DEF RcvInv, RcvType
<1>2. k \in 0 .. Len(x.q)
  BY <1>1 DEF Least, RcvType
<1> HIDE DEF k
<1>3. PICK qq, gg, ff :
        /\ qq = SubSeq(x.q, k + 1, Len(x.q))
        /\ gg = x.got \o SubSeq(x.q, 1, k)
        /\ ff \in {x.fin, "none"}
        /\ y = [x EXCEPT !.q = qq, !.got = gg, !.fin = ff]
  <2> DEFINE f == IF \/ x.fin = "data" /\ k = Len(x.q)
                     \/ x.fin = "bare" /\ n > Len(x.q)
                  THEN "none" ELSE x.fin
  <2>1. y = [x EXCEPT !.q = SubSeq(x.q, k + 1, Len(x.q)),
                      !.got = x.got \o SubSeq(x.q, 1, k),
                      !.fin = f]
    BY <1>1 DEF Copy, k, RcvType
  <2>2. f \in {x.fin, "none"}
    OBVIOUS
  <2> HIDE DEF f
  <2> QED BY <2>1, <2>2, Zenon
<1> HIDE DEF y
<1>4. /\ qq \in Seq(Nat) /\ gg \in Seq(Nat)
      /\ gg \o qq = x.got \o x.q
  BY <1>1, <1>2, <1>3, MovePrefix DEF RcvType
<1>5. /\ y \in RcvType
      /\ y.nxt = x.nxt /\ y.adv = x.adv /\ y.reasm = x.reasm /\ y.ok = x.ok
      /\ y.q = qq /\ y.got = gg /\ y.fin = ff
  BY <1>1, <1>3, <1>4 DEF RcvType
<1>6. RcvInv(y, E, A)
  BY <1>1, <1>3, <1>4, <1>5 DEF RcvInv, Edge, RcvType
<1> QED BY <1>6 DEF y

\* handle_fin: the FIN that is counted ends the stream.
LEMMA CountFinKeeps ==
  ASSUME NEW A \in SUBSET Segs, NEW x, RcvInv(x, FALSE, A), FinAtBack(x)
  PROVE  RcvInv(CountFin(x), TRUE, A)
<1> DEFINE y == CountFin(x)
<1>1. x \in RcvType
  BY DEF RcvInv, RcvType
<1>2. /\ y \in RcvType /\ y.nxt = x.nxt + 1
      /\ y.adv = x.adv /\ y.q = x.q /\ y.fin = x.fin
      /\ y.reasm = x.reasm /\ y.got = x.got /\ y.ok = x.ok
  <2>1. PICK v \in Nat : v = x.nxt + 1
    BY <1>1 DEF RcvType
  <2>2. y = [x EXCEPT !.nxt = v]
    BY <2>1, Zenon DEF CountFin
  <2> HIDE DEF y
  <2> QED BY <1>1, <2>1, <2>2 DEF RcvType
<1> HIDE DEF y
<1>3. StreamEnd(x.nxt)
  BY DEF RcvInv, FinAtBack
<1>4. x.reasm = {}
  BY <1>1, <1>3, PacketFields DEF RcvInv, StreamEnd, RcvType
<1>5. y.nxt - 1 = x.nxt
  BY <1>1, <1>2 DEF RcvType
<1>6. Edge(y, TRUE) = Edge(x, FALSE)
  BY <1>5 DEF Edge
<1>7. RcvInv(y, TRUE, A)
  BY <1>2, <1>3, <1>4, <1>5, <1>6 DEF RcvInv, RcvType
<1> QED BY <1>7 DEF y

----------------------------------------------------------------------------
(* Arriving packets. *)

\* What append() and merge_reasm_pkts() do to the receive half: m_pkts grows
\* by the bytes from m_rcv_nxt to e, and R is left for reassembly.
LEMMA ExtendKeeps ==
  ASSUME NEW A \in SUBSET Segs, NEW x, RcvInv(x, FALSE, A),
         NEW e \in Nat, e >= x.nxt,
         NEW f \in {"none", "bare", "data"}, f # "none" => StreamEnd(e),
         NEW R \in SUBSET A,
         \A p \in R : p.seq > e,
         \A p \in R : p.seq + p.len <= Greatest(x.adv, e + RcvHiWat),
         \A b \in x.nxt .. (e - 1) : \E p \in A : Holds(p, b),
         NEW y, y = [x EXCEPT !.q = x.q \o Bytes(x.nxt, e - x.nxt), !.nxt = e,
                              !.fin = f, !.reasm = R]
  PROVE  RcvInv(y, FALSE, A)
<1>1. x \in RcvType /\ x.nxt >= 1
  BY DEF RcvInv, RcvType, Edge
<1>2. /\ x.nxt \in Nat /\ e - x.nxt \in Nat /\ x.nxt - 1 \in Nat /\ 1 \in Nat
      /\ 1 + (x.nxt - 1) = x.nxt /\ (x.nxt - 1) + (e - x.nxt) = e - 1
      /\ x.q \in Seq(Nat) /\ x.got \in Seq(Nat)
  BY <1>1 DEF RcvType
<1>3. PICK new : new = Bytes(x.nxt, e - x.nxt)
  OBVIOUS
<1>4. new \in Seq(Nat)
  BY <1>2, <1>3, BytesType
<1>5. x.q \o new \in Seq(Nat)
  BY <1>2, <1>4, ConcatProperties
<1>6. x.got \o (x.q \o new) = Bytes(1, e - 1)
  <2>1. x.got \o (x.q \o new) = (x.got \o x.q) \o new
    <3> DEFINE g == x.got
               s == x.q
    <3>1. g \in Seq(Nat) /\ s \in Seq(Nat)
      BY <1>2
    <3> HIDE DEF g, s
    <3>2. (g \o s) \o new = g \o (s \o new)
      BY SMTT(60), <1>4, <3>1, ConcatAssociative
    <3> QED BY <3>2 DEF g, s
  <2>2. x.got \o x.q = Bytes(1, x.nxt - 1)
    BY DEF RcvInv, Edge
  <2>3. Bytes(1, x.nxt - 1) \o Bytes(1 + (x.nxt - 1), e - x.nxt)
          = Bytes(1, (x.nxt - 1) + (e - x.nxt))
    BY <1>2, BytesConcat
  <2> QED BY <1>2, <1>3, <2>1, <2>2, <2>3
<1>7. PICK qq : qq = x.q \o new
  OBVIOUS
<1>8. y = [x EXCEPT !.q = qq, !.nxt = e, !.fin = f, !.reasm = R]
  BY <1>3, <1>7
<1>9. /\ y \in RcvType
      /\ y.q = qq /\ y.nxt = e /\ y.fin = f /\ y.reasm = R
      /\ y.adv = x.adv /\ y.got = x.got
  BY <1>1, <1>5, <1>7, <1>8 DEF RcvType
<1>10. y.got \o y.q = Bytes(1, e - 1)
  BY <1>6, <1>7, <1>9
<1>11. ASSUME NEW b \in 1 .. (e - 1)
       PROVE  \E p \in A : Holds(p, b)
  <2>1. CASE b < x.nxt
    <3>1. b \in 1 .. (x.nxt - 1)
      BY <1>2, <2>1
    <3> QED BY <3>1 DEF RcvInv, Edge
  <2>2. CASE b >= x.nxt
    <3>1. b \in x.nxt .. (e - 1)
      BY <1>2, <2>2
    <3> QED BY <3>1
  <2> QED BY <1>2, <2>1, <2>2
<1>12. e >= 1
  BY <1>1, <1>2
<1> QED BY <1>9, <1>10, <1>11, <1>12 DEF RcvInv, Edge, RcvType

\* A failed append changes nothing but the ghost that remembers it.
LEMMA FailedKeeps ==
  ASSUME NEW A \in SUBSET Segs, NEW x, RcvInv(x, FALSE, A)
  PROVE  RcvInv([x EXCEPT !.ok = FALSE], FALSE, A)
<1> DEFINE y == [x EXCEPT !.ok = FALSE]
<1>1. x \in RcvType
  BY DEF RcvInv, RcvType
<1>2. /\ y \in RcvType
      /\ y.q = x.q /\ y.nxt = x.nxt /\ y.fin = x.fin /\ y.reasm = x.reasm
      /\ y.adv = x.adv /\ y.got = x.got
  BY <1>1 DEF RcvType
<1> HIDE DEF y
<1>3. RcvInv(y, FALSE, A)
  BY <1>2 DEF RcvInv, Edge, RcvType
<1> QED BY <1>3 DEF y

\* udt_buf::append of the packet that is expected next.
LEMMA AppendPktKeeps ==
  ASSUME NEW A \in SUBSET Segs, NEW x, RcvInv(x, FALSE, A),
         NEW p \in A, InSequence(x, p)
  PROVE  RcvInv(AppendPkt(x, p), FALSE, A)
<1> DEFINE y == AppendPkt(x, p)
           e == x.nxt + p.len
<1>1. /\ x \in RcvType /\ p.seq = x.nxt /\ x.reasm = {}
      /\ p \in Segs /\ p.len \in Nat /\ p.fin \in BOOLEAN
  BY PacketFields DEF RcvInv, RcvType, InSequence
<1>2. CASE p.len > Acc(x)
  BY <1>2, FailedKeeps DEF AppendPkt
<1>3. CASE ~(p.len > Acc(x))
  <2>1. /\ e \in Nat /\ e >= x.nxt /\ e - x.nxt = p.len /\ e = p.seq + p.len
    BY <1>1 DEF RcvType
  <2>2. y = [x EXCEPT !.q = x.q \o Bytes(p.seq, p.len), !.nxt = e, !.fin = FinMark(p)]
    BY <1>3 DEF AppendPkt
  <2> HIDE DEF e
  <2>3. PICK qq : qq = x.q \o Bytes(x.nxt, e - x.nxt)
    OBVIOUS
  <2>4. y = [x EXCEPT !.q = qq, !.nxt = e, !.fin = FinMark(p)]
    BY <1>1, <2>1, <2>2, <2>3
  <2> HIDE DEF y
  <2>5. y = [x EXCEPT !.q = qq, !.nxt = e, !.fin = FinMark(p), !.reasm = {}]
    BY <1>1, <2>4 DEF RcvType
  <2>6. y = [x EXCEPT !.q = x.q \o Bytes(x.nxt, e - x.nxt), !.nxt = e,
                      !.fin = FinMark(p), !.reasm = {}]
    BY <2>3, <2>5
  <2>7. /\ FinMark(p) \in {"none", "bare", "data"}
        /\ FinMark(p) # "none" => StreamEnd(e)
    BY <1>1, <2>1, PacketFields DEF FinMark
  <2>8. \A b \in x.nxt .. (e - 1) : \E o \in A : Holds(o, b)
    BY <1>1, <2>1 DEF Holds, RcvType
  <2>9. RcvInv(y, FALSE, A)
    BY <2>1, <2>6, <2>7, <2>8, ExtendKeeps
  <2> QED BY <2>9 DEF y
<1> QED BY <1>2, <1>3

\* merge_reasm_pkts: the packets up to the frontier of the queue go to m_pkts.
LEMMA MergeKeeps ==
  ASSUME NEW A \in SUBSET Segs, NEW x, RcvInv(x, FALSE, A), NEW R \in SUBSET A,
         \A p \in R : p.seq >= x.nxt,
         \A p \in R : p.seq + p.len <= Greatest(x.adv, x.nxt + RcvHiWat)
  PROVE  RcvInv(MergeReasmPkts(x, R), FALSE, A)
<1> DEFINE e == Frontier(R, x.nxt)
           M == Merged(R, e)
           l == LastOf(M)
           B == Greatest(x.adv, x.nxt + RcvHiWat)
<1>1. /\ x \in RcvType /\ x.nxt \in Nat /\ x.adv \in Nat /\ B \in Nat
      /\ \A p \in R : /\ p \in Segs /\ p \in Packet
                      /\ p.seq \in Nat /\ p.len \in Nat /\ p.fin \in BOOLEAN
  BY PacketFields, RcvBufAssumption DEF RcvInv, RcvType, Greatest
<1>2. /\ e \in Nat /\ e >= x.nxt /\ ~ \E p \in R : Holds(p, e)
      /\ \A b \in x.nxt .. (e - 1) : \E p \in R : Holds(p, b)
  <2>1. R \in SUBSET Packet /\ x.nxt \in Nat
    BY <1>1
  <2>2. \A p \in R : p.seq + p.len <= B
    OBVIOUS
  <2> QED BY <1>1, <2>1, <2>2, FrontierFacts, ZenonT(30)
<1> HIDE DEF e
<1>3. \A p \in R \ M : p.seq > e
  BY <1>1, <1>2 DEF Merged, Holds
<1>4. R \ M \in SUBSET A
  OBVIOUS
<1>5. CASE M = {}
  <2> DEFINE y == [x EXCEPT !.reasm = R]
  <2>1. y = MergeReasmPkts(x, R)
    BY <1>5 DEF MergeReasmPkts, e
  <2>2. /\ y \in RcvType /\ y.reasm = R
        /\ y.nxt = x.nxt /\ y.adv = x.adv /\ y.q = x.q /\ y.fin = x.fin
        /\ y.got = x.got
    BY <1>1 DEF RcvType
  <2> HIDE DEF y
  <2>3. \A p \in R : p.seq > x.nxt
    BY <1>1, <1>2, <1>3, <1>5
  <2>4. RcvInv(y, FALSE, A)
    BY <2>2, <2>3 DEF RcvInv, Edge, RcvType
  <2> QED BY <2>1, <2>4
<1>6. CASE M # {} /\ e - x.nxt > Acc(x)
  <2>1. MergeReasmPkts(x, R) = [x EXCEPT !.ok = FALSE]
    BY <1>6 DEF MergeReasmPkts, e
  <2> QED BY <2>1, FailedKeeps
<1>7. CASE M # {} /\ ~(e - x.nxt > Acc(x))
  <2> DEFINE y == MergeReasmPkts(x, R)
             f == FinMark(l)
  <2>1. l \in M
    <3> HIDE DEF M, B
    <3>1. \A p \in M : p.seq \in Nat /\ p.seq <= B
      BY <1>1 DEF M, B, Merged, Greatest
    <3> QED BY <1>1, <1>7, <3>1, LastOfExists, Zenon
  <2>2. l \in R /\ l.seq + l.len <= e
    BY <2>1 DEF Merged
  <2> HIDE DEF l
  <2>3. /\ f \in {"none", "bare", "data"}
        /\ f # "none" => StreamEnd(e)
    <3>1. f \in {"none", "bare", "data"} /\ (f # "none" => l.fin)
      BY <1>1, <2>2 DEF FinMark
    <3>2. l.fin => StreamEnd(e)
      BY <1>1, <1>2, <2>2, PacketFields DEF StreamEnd
    <3> QED BY <3>1, <3>2
  <2>4. y = [x EXCEPT !.q = x.q \o Bytes(x.nxt, e - x.nxt), !.nxt = e,
                      !.fin = f, !.reasm = R \ M]
    <3>1. y = IF M = {} THEN [x EXCEPT !.reasm = R]
              ELSE IF e - x.nxt > Acc(x) THEN [x EXCEPT !.ok = FALSE]
              ELSE [x EXCEPT !.q = x.q \o Bytes(x.nxt, e - x.nxt), !.nxt = e,
                             !.fin = f, !.reasm = R \ M]
      BY Zenon DEF MergeReasmPkts, e, l
    <3> QED BY <1>7, <3>1, Zenon
  <2> HIDE DEF y, f
  <2>5. \A p \in R \ M : p.seq + p.len <= Greatest(x.adv, e + RcvHiWat)
    BY <1>1, <1>2, RcvBufAssumption DEF Greatest
  <2>6. \A b \in x.nxt .. (e - 1) : \E p \in A : Holds(p, b)
    BY <1>2
  <2> HIDE DEF M
  <2>7. RcvInv(y, FALSE, A)
    BY <1>2, <1>3, <1>4, <2>3, <2>4, <2>5, <2>6, ExtendKeeps
  <2> QED BY <2>7 DEF y
<1> QED BY <1>5, <1>6, <1>7

\* A packet more has arrived: what held of the packets before still holds.
LEMMA ArrivalKeeps ==
  ASSUME NEW A \in SUBSET Segs, NEW E \in BOOLEAN, NEW x, RcvInv(x, E, A), NEW p \in Segs
  PROVE  RcvInv(x, E, A \cup {p})
BY DEF RcvInv

\* tcp_reass: a packet inside the window is appended, queued or discarded.
LEMMA TcpReassKeeps ==
  ASSUME NEW A \in SUBSET Segs, NEW x, RcvInv(x, FALSE, A), NEW p \in Segs,
         ~OutOfWindow(x, p.seq, p.len, FALSE)
  PROVE  RcvInv(TcpReass(x, p), FALSE, A \cup {p})
<1> DEFINE C == A \cup {p}
           R == x.reasm \cup {p}
<1>1. C \in SUBSET Segs /\ p \in C /\ RcvInv(x, FALSE, C)
  BY ArrivalKeeps
<1>2. /\ x \in RcvType /\ x.nxt \in Nat /\ x.adv \in Nat
      /\ p.seq \in Nat /\ p.len \in Nat
      /\ Len(x.q) \in Nat
  BY PacketFields, LenProperties DEF RcvInv, RcvType
<1>3. p.seq >= x.nxt
  BY <1>2 DEF OutOfWindow
<1>4. p.seq + p.len <= Greatest(x.adv, x.nxt + RcvHiWat)
  <2> DEFINE a == Acc(x)
  <2>1. a \in Int /\ a <= RcvHiWat
    BY <1>2, RcvBufAssumption DEF Acc
  <2>2. p.seq + p.len <= x.nxt + Greatest(Greatest(a, 0), x.adv - x.nxt)
    <3>1. ~(p.seq + p.len > x.nxt + Greatest(Greatest(a, 0), x.adv - x.nxt))
      BY DEF OutOfWindow
    <3> HIDE DEF a
    <3> QED BY <1>2, <2>1, <3>1 DEF Greatest
  <2> HIDE DEF a
  <2> QED BY SMTT(60), <1>2, <2>1, <2>2, RcvBufAssumption DEF Greatest
<1>5. CASE InSequence(x, p)
  <2>1. RcvInv(AppendPkt(x, p), FALSE, C)
    BY <1>1, <1>5, AppendPktKeeps
  <2> QED BY <1>5, <2>1 DEF TcpReass
<1>6. CASE ~InSequence(x, p) /\ \E o \in x.reasm : o.seq = p.seq
  BY <1>1, <1>6 DEF TcpReass, InsertReasm
<1>7. CASE ~InSequence(x, p) /\ ~ \E o \in x.reasm : o.seq = p.seq
  <2>1. R \in SUBSET C
    BY DEF RcvInv
  <2>2. \A o \in R : o.seq >= x.nxt
    BY <1>2, <1>3, PacketFields DEF RcvInv, RcvType
  <2>3. \A o \in R : o.seq + o.len <= Greatest(x.adv, x.nxt + RcvHiWat)
    BY <1>4 DEF RcvInv
  <2>4. TcpReass(x, p) = MergeReasmPkts(x, R)
    BY <1>7, Zenon DEF TcpReass, InsertReasm
  <2> HIDE DEF R, C
  <2>5. RcvInv(MergeReasmPkts(x, R), FALSE, C)
    BY <1>1, <2>1, <2>2, <2>3, MergeKeeps
  <2> QED BY <2>4, <2>5 DEF C
<1> QED BY <1>5, <1>6, <1>7

\* Once the FIN is counted nothing is inside the window any more.
LEMMA NothingAfterFin ==
  ASSUME NEW A, NEW x, RcvInv(x, TRUE, A), NEW p \in Segs
  PROVE  OutOfWindow(x, p.seq, p.len, FALSE)
BY PacketFields DEF RcvInv, StreamEnd, OutOfWindow

----------------------------------------------------------------------------
(* The handlers. *)

\* recv_data and the output() behind it.
LEMMA ReadableKeeps ==
  ASSUME NEW A \in SUBSET Segs, NEW E \in BOOLEAN, NEW x, RcvInv(x, E, A),
         NEW err \in BOOLEAN, NEW n \in Reads \cup {0}, eofTold \in BOOLEAN,
         Readable(x, err, n)
  PROVE  /\ RcvInv(r', E, A)
         /\ op' \in Reads \cup {0}
         /\ eofTold' \in BOOLEAN
<1> DEFINE y == AfterRecvData(x, err, n)
<1>1. n \in Nat
  BY ReadsAssumption
<1>2. RcvInv(y, E, A)
  BY <1>1, CopyKeeps DEF AfterRecvData
<1> HIDE DEF y
<1>3. r' \in AfterOutput(y) \/ r' = y
  BY DEF Readable, y
<1>4. RcvInv(r', E, A)
  BY <1>2, <1>3, AfterOutputKeeps
<1>5. op' \in Reads \cup {0}
  BY DEF Readable
<1>6. eofTold' \in BOOLEAN
  BY DEF Readable
<1> QED BY <1>4, <1>5, <1>6

\* The connection starts with an empty buffer at the first byte of the stream.
LEMMA InitInv == Init => IndInv
<1> SUFFICES ASSUME Init PROVE IndInv
  OBVIOUS
<1> DEFINE x == RcvInit(1)
<1>1. RcvInv(x, FALSE, {})
  <2>1. x \in RcvType /\ x.nxt = 1 /\ x.q = << >> /\ x.got = << >>
        /\ x.fin = "none" /\ x.reasm = {}
    BY DEF RcvInit, RcvType
  <2>2. << >> \o << >> = Bytes(1, 0)
    <3>1. Bytes(1, 0) \in Seq(Nat) /\ Len(Bytes(1, 0)) = 0
      BY BytesType
    <3>2. Bytes(1, 0) = << >>
      BY <3>1, EmptySeq
    <3>3. << >> \o << >> = << >>
      OBVIOUS
    <3> QED BY <3>2, <3>3
  <2> HIDE DEF x
  <2> QED BY <2>1, <2>2 DEF RcvInv, RcvType, Edge
<1> HIDE DEF x
<1>2. RcvInv(Advertise(x, RcvHiWat), FALSE, {})
  <2>1. RcvHiWat \in Int /\ {} \in SUBSET Segs /\ FALSE \in BOOLEAN
    BY RcvBufAssumption
  <2> QED BY <1>1, <2>1, AdvertiseKeeps
<1>3. r = Advertise(x, RcvHiWat) /\ eof = FALSE /\ op = 0 /\ arrived = {} /\ eofTold = FALSE
  BY DEF Init, x
<1> QED BY <1>2, <1>3 DEF IndInv

\* input() on a packet outside the window.
LEMMA InputOutsideKeeps ==
  ASSUME IndInv, NEW p \in Segs, InputOutside(p)
  PROVE  IndInv'
<1>1. RcvInv(r', eof, arrived)
  BY AfterOutputKeeps DEF IndInv, InputOutside
<1>2. RcvInv(r', eof, arrived \cup {p})
  BY <1>1, ArrivalKeeps DEF IndInv
<1> QED BY <1>2 DEF IndInv, InputOutside

\* input() on a packet inside the window.
LEMMA InputInsideKeeps ==
  ASSUME IndInv, NEW p \in Segs, NEW counted \in BOOLEAN, InputInside(p, counted)
  PROVE  IndInv'
<1> DEFINE A == arrived \cup {p}
           x == TcpReass(r, p)
           isFin == FinAtBack(x) /\ ~eof /\ counted
           y == IF isFin THEN CountFin(x) ELSE x
<1>1. eof = FALSE
  <2>1. eof = TRUE => OutOfWindow(r, p.seq, p.len, FALSE)
    BY NothingAfterFin DEF IndInv
  <2> QED BY <2>1 DEF IndInv, InputInside
<1>2. A \in SUBSET Segs /\ arrived \in SUBSET Segs /\ RcvInv(r, FALSE, arrived)
  BY <1>1 DEF IndInv
<1>3. RcvInv(x, FALSE, A)
  BY <1>2, TcpReassKeeps DEF InputInside
<1>4. /\ arrived' = A /\ eof' = (eof \/ isFin)
      /\ \E z \in AfterOutput(y) : Readable(z, eof', op)
  BY DEF InputInside
<1>5. eof' \in BOOLEAN /\ eof' = isFin
  BY <1>1, <1>4
<1> HIDE DEF A, x
<1>6. RcvInv(y, eof', A)
  <2>1. CASE isFin
    <3>1. RcvInv(CountFin(x), TRUE, A)
      BY <1>2, <1>3, <2>1, CountFinKeeps
    <3> QED BY <1>5, <2>1, <3>1
  <2>2. CASE ~isFin
    BY <1>3, <1>5, <2>2
  <2> QED BY <2>1, <2>2
<1> HIDE DEF y
<1>7. PICK z \in AfterOutput(y) : Readable(z, eof', op)
  BY <1>4
<1>8. RcvInv(z, eof', A)
  BY <1>2, <1>5, <1>6, AfterOutputKeeps
<1>9. /\ RcvInv(r', eof', A)
      /\ op' \in Reads \cup {0}
      /\ eofTold' \in BOOLEAN
  BY <1>2, <1>5, <1>7, <1>8, ReadableKeeps DEF IndInv
<1> QED BY <1>2, <1>4, <1>5, <1>9 DEF IndInv

\* async_receive.
LEMMA AsyncReceiveKeeps ==
  ASSUME IndInv, NEW n \in Reads, AsyncReceive(n)
  PROVE  IndInv'
<1>1. CASE eof
  BY <1>1 DEF IndInv, AsyncReceive
<1>2. CASE ~eof
  <2>1. RcvInv(r, FALSE, arrived) /\ eof = FALSE /\ Readable(r, FALSE, n)
    BY <1>2 DEF IndInv, AsyncReceive
  <2>2. /\ RcvInv(r', FALSE, arrived)
        /\ op' \in Reads \cup {0}
        /\ eofTold' \in BOOLEAN
    BY <2>1, ReadableKeeps DEF IndInv
  <2> QED BY <2>1, <2>2 DEF IndInv, AsyncReceive
<1> QED BY <1>1, <1>2

\* handle_delay_recv_operation.
LEMMA DelayTimerKeeps ==
  ASSUME IndInv, DelayTimer
  PROVE  IndInv'
<1>1. op \in Nat
  BY ReadsAssumption DEF IndInv
<1>2. RcvInv(Copy(r, op), eof, arrived)
  BY <1>1, CopyKeeps DEF IndInv
<1> QED BY <1>2 DEF IndInv, DelayTimer

\* output().
LEMMA OutputKeeps ==
  ASSUME IndInv, Output
  PROVE  IndInv'
<1>1. RcvInv(r', eof, arrived)
  BY AfterOutputKeeps DEF IndInv, Output
<1> QED BY <1>1 DEF IndInv, Output

\* Every step keeps the invariant.
LEMMA NextInv == IndInv /\ [Next]_vars => IndInv'
<1> SUFFICES ASSUME IndInv, [Next]_vars
             PROVE  IndInv'
  OBVIOUS
<1>1. CASE \E p \in Segs : InputOutside(p)
  BY <1>1, InputOutsideKeeps
<1>2. CASE \E p \in Segs, counted \in BOOLEAN : InputInside(p, counted)
  BY <1>2, InputInsideKeeps
<1>3. CASE \E n \in Reads : AsyncReceive(n)
  BY <1>3, AsyncReceiveKeeps
<1>4. CASE DelayTimer
  BY <1>4, DelayTimerKeeps
<1>5. CASE Output
  BY <1>5, OutputKeeps
<1>6. CASE UNCHANGED vars
  BY <1>6 DEF IndInv, vars
<1> QED BY <1>1, <1>2, <1>3, <1>4, <1>5, <1>6 DEF Next

\* The inductive invariant holds in every state of the receive path.
THEOREM Invariance == Spec => []IndInv
<1>1. Init => IndInv
  BY InitInv
<1>2. IndInv /\ [Next]_vars => IndInv'
  BY NextInv
<1> QED BY <1>1, <1>2, PTL DEF Spec

\* The fields of the receive half keep their types.
THEOREM Typing == Spec => []TypeOK
<1>1. IndInv => TypeOK
  BY DEF IndInv, RcvInv, TypeOK
<1> QED BY <1>1, Invariance, PTL

\* What was read and what is buffered is the stream up to m_rcv_nxt.
THEOREM InOrder == Spec => []InOrderDelivery
<1>1. IndInv => InOrderDelivery
  <2> SUFFICES ASSUME IndInv PROVE InOrderDelivery
    OBVIOUS
  <2>1. r.nxt - 1 - FinCount = Edge(r, eof) - 1
    BY DEF IndInv, RcvInv, FinCount, Edge
  <2> QED BY <2>1 DEF IndInv, RcvInv, InOrderDelivery
<1> QED BY <1>1, Invariance, PTL

\* No byte that never arrived is acknowledged.
THEOREM AcksAreHonest == Spec => []AckHonest
<1>1. IndInv => AckHonest
  <2> SUFFICES ASSUME IndInv PROVE AckHonest
    OBVIOUS
  <2>1. r.nxt - 1 - FinCount = Edge(r, eof) - 1
    BY DEF IndInv, RcvInv, FinCount, Edge
  <2> QED BY <2>1 DEF IndInv, RcvInv, AckHonest
<1> QED BY <1>1, Invariance, PTL

\* The peer's FIN is counted only behind a complete stream.
THEOREM EofComplete == Spec => []EofIsComplete
<1>1. IndInv => EofIsComplete
  BY DEF IndInv, RcvInv, EofIsComplete
<1> QED BY <1>1, Invariance, PTL

\* A SACK block names only bytes that wait for reassembly beyond uh_ack.
THEOREM SacksAreHonest == Spec => []SackHonest
<1>1. IndInv => SackHonest
  <2> SUFFICES ASSUME IndInv, NEW s \in SackBlocks(r.reasm)
               PROVE  /\ s[1] >= r.nxt
                      /\ \A b \in s[1] .. (s[2] - 1) :
                           \E p \in r.reasm \cap arrived : Holds(p, b)
    BY DEF SackHonest
  <2> DEFINE R == r.reasm
             B == Greatest(r.adv, r.nxt + RcvHiWat)
  <2>1. /\ R \in SUBSET Packet /\ R \subseteq arrived /\ r.nxt \in Nat /\ B \in Nat
        /\ \A p \in R : p.seq \in Nat /\ p.seq > r.nxt /\ p.seq + p.len <= B
    BY PacketFields, RcvBufAssumption DEF IndInv, RcvInv, Greatest
  <2>2. PICK n \in {p.seq : p \in R} : s = <<n, Frontier(R, n)>>
    BY DEF SackBlocks
  <2>3. n \in Nat /\ n > r.nxt
    BY <2>1, <2>2
  <2> HIDE DEF B
  <2>4. \A b \in n .. (Frontier(R, n) - 1) : \E p \in R : Holds(p, b)
    BY <2>1, <2>3, FrontierFacts, ZenonT(30)
  <2>5. s[1] = n /\ s[2] = Frontier(R, n)
    BY <2>2
  <2> QED BY <2>1, <2>3, <2>4, <2>5
<1> QED BY <1>1, Invariance, PTL

----------------------------------------------------------------------------
(* The buffer is never overrun, when the window is never positive junk. *)

\* The free space is what the bytes in the buffer leave.
LEMMA AccType ==
  ASSUME NEW x \in RcvType
  PROVE  /\ Len(x.q) \in Nat /\ x.nxt \in Nat /\ x.adv \in Nat
         /\ Acc(x) = RcvHiWat - Len(x.q) /\ Acc(x) \in Int
BY LenProperties, RcvBufAssumption DEF RcvType, Acc

\* output() changes only the promise.
LEMMA AdvertiseType ==
  ASSUME NEW x \in RcvType, NEW j \in Int
  PROVE  Advertise(x, j) \in RcvType
<1> DEFINE w == AdvertisedWindow(x, j)
           v == IF w > 0 THEN Greatest(x.adv, x.nxt + w) ELSE x.adv
<1>1. w \in Int
  BY RcvBufAssumption DEF AdvertisedWindow, Least, Greatest, RcvType
<1>2. Advertise(x, j) = [x EXCEPT !.adv = v]
  BY Zenon DEF Advertise
<1> HIDE DEF w
<1>3. v \in Nat
  BY <1>1 DEF Greatest, RcvType
<1> HIDE DEF v
<1> QED BY <1>2, <1>3 DEF RcvType

\* output() promises no more than the free space, or what it promised before.
LEMMA FitAdvertise ==
  ASSUME NEW x \in RcvType, FitInv(x), NEW j \in Int, j <= Acc(x) \/ j <= 0
  PROVE  FitInv(Advertise(x, j))
<1> DEFINE w == AdvertisedWindow(x, j)
           v == IF w > 0 THEN Greatest(x.adv, x.nxt + w) ELSE x.adv
           a == Acc(x)
           y == [x EXCEPT !.adv = v]
<1>1. /\ x.nxt \in Nat /\ x.adv \in Nat /\ a \in Int /\ a >= 0
      /\ x.adv <= x.nxt + a /\ (j <= a \/ j <= 0)
  BY AccType, RcvBufAssumption DEF FitInv
<1> HIDE DEF a
<1>2. w \in Int /\ w <= Greatest(a, x.adv - x.nxt)
  BY <1>1, RcvBufAssumption DEF AdvertisedWindow, Least, Greatest
<1>3. Advertise(x, j) = y
  BY Zenon DEF Advertise
<1> HIDE DEF w
<1>4. v <= x.nxt + a
  BY <1>1, <1>2 DEF Greatest
<1> HIDE DEF v
<1>5. /\ y.adv = v /\ y.nxt = x.nxt /\ y.q = x.q /\ y.reasm = x.reasm /\ y.ok = x.ok
  BY DEF RcvType
<1> HIDE DEF y
<1>6. Acc(y) = a
  BY <1>5 DEF Acc, a
<1>7. FitInv(y)
  BY <1>4, <1>5, <1>6 DEF FitInv, a
<1> QED BY <1>3, <1>7

\* A read only makes room.
LEMMA FitCopy ==
  ASSUME NEW x \in RcvType, FitInv(x), NEW n \in Nat
  PROVE  FitInv(Copy(x, n))
<1> DEFINE k == Least(n, Len(x.q))
           qq == SubSeq(x.q, k + 1, Len(x.q))
           y == Copy(x, n)
<1>1. k \in 0 .. Len(x.q)
  BY AccType DEF Least
<1> HIDE DEF k
<1>2. qq \in Seq(Nat) /\ Len(qq) <= Len(x.q)
  <2>1. x.q \in Seq(Nat) /\ x.got \in Seq(Nat)
    BY DEF RcvType
  <2> QED BY <1>1, <2>1, MovePrefix, AccType
<1>3. /\ y.q = qq /\ y.nxt = x.nxt /\ y.adv = x.adv /\ y.reasm = x.reasm /\ y.ok = x.ok
  BY DEF Copy, k, RcvType
<1> HIDE DEF y, qq
<1>4. Len(y.q) \in Nat /\ Len(y.q) <= Len(x.q)
  BY <1>2, <1>3, LenProperties
<1>5. Acc(y) \in Int /\ Acc(y) >= Acc(x)
  BY <1>4, AccType, RcvBufAssumption DEF Acc
<1>6. \A p \in y.reasm : p.seq + p.len <= y.nxt + Acc(y)
  <2> SUFFICES ASSUME NEW p \in x.reasm
               PROVE  p.seq + p.len <= x.nxt + Acc(y)
    BY <1>3
  <2>1. p.seq + p.len <= x.nxt + Acc(x) /\ p \in Segs
    BY DEF FitInv, RcvType
  <2> QED BY <1>5, <2>1, AccType, PacketFields
<1>7. y.adv <= y.nxt + Acc(y)
  BY <1>3, <1>5, AccType DEF FitInv
<1>8. y.ok /\ Len(y.q) <= RcvHiWat
  BY <1>3, <1>4, AccType, RcvBufAssumption DEF FitInv
<1> HIDE DEF Acc
<1>9. FitInv(y)
  BY <1>6, <1>7, <1>8 DEF FitInv
<1> QED BY <1>9 DEF y

\* Counting the FIN moves the promise with m_rcv_nxt.
LEMMA FitCountFin ==
  ASSUME NEW x \in RcvType, FitInv(x)
  PROVE  FitInv(CountFin(x))
<1> DEFINE y == CountFin(x)
<1>1. /\ y.q = x.q /\ y.nxt = x.nxt + 1 /\ y.adv = x.adv /\ y.reasm = x.reasm
      /\ y.ok = x.ok
  BY DEF CountFin, RcvType
<1> HIDE DEF y
<1>2. Acc(y) = Acc(x)
  BY <1>1 DEF Acc
<1>3. \A p \in y.reasm : p.seq + p.len <= y.nxt + Acc(y)
  <2> SUFFICES ASSUME NEW p \in x.reasm
               PROVE  p.seq + p.len <= x.nxt + 1 + Acc(x)
    BY <1>1, <1>2
  <2>1. p.seq + p.len <= x.nxt + Acc(x) /\ p \in Segs
    BY DEF FitInv, RcvType
  <2> QED BY <2>1, AccType, PacketFields
<1>4. FitInv(y)
  BY <1>1, <1>2, <1>3, AccType DEF FitInv
<1> QED BY <1>4 DEF y

\* The bytes up to e that go to m_pkts fit, and the promise stays where it is.
LEMMA FitExtend ==
  ASSUME NEW x \in RcvType, FitInv(x), NEW e \in Nat, e >= x.nxt, e - x.nxt <= Acc(x),
         NEW R \in SUBSET Segs, \A p \in R : p.seq + p.len <= x.nxt + Acc(x),
         NEW f, NEW qq, qq = x.q \o Bytes(x.nxt, e - x.nxt),
         NEW y, y = [x EXCEPT !.q = qq, !.nxt = e, !.fin = f, !.reasm = R]
  PROVE  FitInv(y)
<1>1. Bytes(x.nxt, e - x.nxt) \in Seq(Nat) /\ Len(Bytes(x.nxt, e - x.nxt)) = e - x.nxt
  <2>1. x.nxt \in Nat /\ e - x.nxt \in Nat
    BY AccType
  <2> QED BY <2>1, BytesType
<1>2. Len(qq) = Len(x.q) + (e - x.nxt)
  <2>1. x.q \in Seq(Nat)
    BY DEF RcvType
  <2> QED BY ZenonT(60), <1>1, <2>1, ConcatProperties
<1>3. /\ y.q = qq /\ y.nxt = e /\ y.reasm = R /\ y.adv = x.adv /\ y.ok = x.ok
  BY DEF RcvType
<1>4. Acc(y) = Acc(x) - (e - x.nxt)
  <2>1. Acc(y) = RcvHiWat - Len(qq)
    BY <1>3 DEF Acc
  <2>2. Acc(x) = RcvHiWat - Len(x.q) /\ Len(x.q) \in Nat /\ x.nxt \in Nat
    BY AccType
  <2>3. RcvHiWat - (Len(x.q) + (e - x.nxt)) = (RcvHiWat - Len(x.q)) - (e - x.nxt)
    BY <2>2, RcvBufAssumption
  <2> QED BY <1>2, <2>1, <2>2, <2>3, Zenon
<1>5. y.nxt + Acc(y) = x.nxt + Acc(x)
  BY <1>3, <1>4, AccType
<1>6. Len(y.q) <= RcvHiWat
  <2>1. Len(x.q) \in Nat /\ e - x.nxt <= RcvHiWat - Len(x.q) /\ x.nxt \in Nat
    BY AccType
  <2>2. Len(x.q) + (e - x.nxt) <= RcvHiWat
    BY <2>1, RcvBufAssumption
  <2> QED BY <1>2, <1>3, <2>2, Zenon
<1> QED BY <1>3, <1>5, <1>6 DEF FitInv

\* A packet inside the window fits, and so does what it completes.
LEMMA FitTcpReass ==
  ASSUME NEW A \in SUBSET Segs, NEW x, RcvInv(x, FALSE, A), FitInv(x),
         NEW p \in Segs, ~OutOfWindow(x, p.seq, p.len, FALSE)
  PROVE  FitInv(TcpReass(x, p))
<1> DEFINE R == x.reasm \cup {p}
           a == Acc(x)
<1>1. /\ x \in RcvType /\ x.nxt \in Nat /\ x.adv \in Nat /\ a \in Int
      /\ p.seq \in Nat /\ p.len \in Nat /\ a >= 0 /\ x.adv <= x.nxt + a
      /\ Len(x.q) \in Nat
  <2>1. x \in RcvType
    BY DEF RcvInv, RcvType
  <2> QED BY <2>1, AccType, PacketFields, RcvBufAssumption DEF FitInv
<1>2. p.seq >= x.nxt
  BY <1>1 DEF OutOfWindow
<1>3. p.seq + p.len <= x.nxt + a
  <2>1. ~(p.seq + p.len > x.nxt + Greatest(Greatest(a, 0), x.adv - x.nxt))
    BY DEF OutOfWindow
  <2> HIDE DEF a
  <2> QED BY <1>1, <2>1 DEF Greatest
<1>4. CASE InSequence(x, p)
  <2> DEFINE e == x.nxt + p.len
             f == FinMark(p)
  <2>1. e \in Nat /\ e >= x.nxt /\ e - x.nxt = p.len /\ e - x.nxt <= a
        /\ p.seq = x.nxt /\ x.reasm = {}
    <3> HIDE DEF a
    <3> QED BY <1>1, <1>3, <1>4 DEF InSequence
  <2> HIDE DEF e, f
  <2>2. PICK qq : qq = x.q \o Bytes(x.nxt, e - x.nxt)
    OBVIOUS
  <2>3. AppendPkt(x, p) = [x EXCEPT !.q = qq, !.nxt = e, !.fin = f]
    <3>1. ~(p.len > Acc(x))
      BY <1>1, <2>1
    <3> QED BY <2>1, <2>2, <3>1 DEF AppendPkt, e, f
  <2>4. AppendPkt(x, p) = [x EXCEPT !.q = qq, !.nxt = e, !.fin = f, !.reasm = {}]
    BY <1>1, <2>1, <2>3 DEF RcvType
  <2>5. FitInv(AppendPkt(x, p))
    <3>1. PICK y, N : y = AppendPkt(x, p) /\ N = {}
      OBVIOUS
    <3>2. N \in SUBSET Segs /\ \A o \in N : o.seq + o.len <= x.nxt + Acc(x)
      BY <3>1
    <3>3. y = [x EXCEPT !.q = qq, !.nxt = e, !.fin = f, !.reasm = N]
      BY <2>4, <3>1, Zenon
    <3>4. e - x.nxt <= Acc(x)
      BY <2>1
    <3>5. FitInv(y)
      BY <1>1, <2>1, <2>2, <3>2, <3>3, <3>4, FitExtend
    <3> QED BY <3>1, <3>5
  <2> QED BY <1>4, <2>5 DEF TcpReass
<1>5. CASE ~InSequence(x, p) /\ \E o \in x.reasm : o.seq = p.seq
  BY <1>5 DEF TcpReass, InsertReasm
<1>6. CASE ~InSequence(x, p) /\ ~ \E o \in x.reasm : o.seq = p.seq
  <2> DEFINE e == Frontier(R, x.nxt)
             M == Merged(R, e)
             f == FinMark(LastOf(M))
             B == x.nxt + a
  <2>1. R \in SUBSET Segs /\ R \in SUBSET Packet
    BY <1>1, PacketFields DEF RcvType
  <2>2. \A o \in R : o.seq + o.len <= B
    BY <1>3 DEF FitInv
  <2>3. TcpReass(x, p) = MergeReasmPkts(x, R)
    BY <1>6, Zenon DEF TcpReass, InsertReasm
  <2>4. B \in Nat /\ x.nxt <= B
    <3> HIDE DEF a
    <3> QED BY <1>1
  <2> HIDE DEF B, R
  <2>5. e \in {x.nxt} \cup {o.seq + o.len : o \in R} /\ e \in Nat /\ e >= x.nxt
    <3>1. x.nxt \in Nat /\ R \in SUBSET Packet /\ B \in Nat
      BY <1>1, <2>1, <2>4
    <3> QED BY <2>2, <3>1, FrontierFacts, ZenonT(30)
  <2>6. e <= B
    <3> HIDE DEF e
    <3> QED BY <2>2, <2>4, <2>5
  <2> HIDE DEF e
  <2>7. e - x.nxt <= a
    <3> HIDE DEF a
    <3> QED BY <1>1, <2>5, <2>6 DEF B
  <2>8. CASE M = {}
    <3> DEFINE y == [x EXCEPT !.reasm = R]
    <3>1. y = MergeReasmPkts(x, R)
      BY <2>8, Zenon DEF MergeReasmPkts, e
    <3>2. y.reasm = R /\ y.nxt = x.nxt /\ y.adv = x.adv /\ y.q = x.q /\ y.ok = x.ok
      BY <1>1 DEF RcvType
    <3> HIDE DEF y
    <3>3. Acc(y) = a
      BY <3>2 DEF Acc
    <3>4. FitInv(y)
      BY <2>2, <3>2, <3>3 DEF FitInv, B
    <3> QED BY <2>3, <3>1, <3>4
  <2>9. CASE M # {}
    <3> HIDE DEF f
    <3>1. PICK qq : qq = x.q \o Bytes(x.nxt, e - x.nxt)
      OBVIOUS
    <3>2. PICK N : N = R \ M
      OBVIOUS
    <3>3. MergeReasmPkts(x, R) = [x EXCEPT !.q = qq, !.nxt = e, !.fin = f, !.reasm = N]
      <4>1. MergeReasmPkts(x, R) =
              IF M = {} THEN [x EXCEPT !.reasm = R]
              ELSE IF e - x.nxt > Acc(x) THEN [x EXCEPT !.ok = FALSE]
              ELSE [x EXCEPT !.q = x.q \o Bytes(x.nxt, e - x.nxt), !.nxt = e,
                             !.fin = f, !.reasm = R \ M]
        BY Zenon DEF MergeReasmPkts, e, f
      <4>2. ~(e - x.nxt > Acc(x))
        <5> HIDE DEF M
        <5> QED BY <1>1, <2>5, <2>7
      <4> HIDE DEF M
      <4> QED BY <2>9, <3>1, <3>2, <4>1, <4>2, Zenon
    <3>4. N \in SUBSET Segs /\ \A o \in N : o.seq + o.len <= x.nxt + Acc(x)
      BY <2>1, <2>2, <3>2 DEF B
    <3>5. PICK y : y = MergeReasmPkts(x, R)
      OBVIOUS
    <3> HIDE DEF M
    <3>6. FitInv(y)
      BY <1>1, <2>5, <2>7, <3>1, <3>3, <3>4, <3>5, FitExtend
    <3> QED BY <2>3, <3>5, <3>6
  <2> QED BY <2>8, <2>9
<1> QED BY <1>4, <1>5, <1>6

\* output(), when the uninitialized window is never positive.
NoPositiveJunk == \A j \in Junk : j <= 0
(* output() without such a packet promises no more than what fits. *)
LEMMA FitAfterOutput ==
  ASSUME NoPositiveJunk, NEW x \in RcvType, FitInv(x), NEW y \in AfterOutput(x)
  PROVE  FitInv(y)
<1>1. CASE y = x
  BY <1>1
<1>2. CASE y = Advertise(x, Acc(x))
  <2>1. Acc(x) \in Int /\ Acc(x) <= Acc(x)
    BY AccType
  <2> QED BY <1>2, <2>1, FitAdvertise
<1>3. CASE \E j \in Junk : y = Advertise(x, j)
  <2>1. PICK j \in Junk : y = Advertise(x, j)
    BY <1>3
  <2>2. j \in Int /\ j <= 0
    BY JunkAssumption DEF NoPositiveJunk
  <2> QED BY <2>1, <2>2, FitAdvertise
<1> QED BY <1>1, <1>2, <1>3 DEF AfterOutput

\* recv_data and the output() behind it.
LEMMA FitReadable ==
  ASSUME NoPositiveJunk, NEW x \in RcvType, FitInv(x), NEW err \in BOOLEAN,
         NEW n \in Reads \cup {0}, Readable(x, err, n)
  PROVE  FitInv(r')
<1> DEFINE y == AfterRecvData(x, err, n)
<1>1. n \in Nat
  BY ReadsAssumption
<1>2. y \in RcvType
  <2>1. CASE y = x
    BY <2>1
  <2>2. CASE y = Copy(x, n)
    <3> DEFINE k == Least(n, Len(x.q))
    <3>1. k \in 0 .. Len(x.q) /\ x.q \in Seq(Nat) /\ x.got \in Seq(Nat)
      BY <1>1, AccType DEF Least, RcvType
    <3> HIDE DEF k
    <3>2. /\ SubSeq(x.q, k + 1, Len(x.q)) \in Seq(Nat)
          /\ x.got \o SubSeq(x.q, 1, k) \in Seq(Nat)
      BY <3>1, MovePrefix
    <3> QED BY <2>2, <3>2 DEF Copy, k, RcvType
  <2> QED BY <2>1, <2>2 DEF AfterRecvData
<1>3. FitInv(y)
  BY <1>1, FitCopy DEF AfterRecvData
<1> HIDE DEF y
<1>4. r' \in AfterOutput(y) \/ r' = y
  BY DEF Readable, y
<1> QED BY <1>2, <1>3, <1>4, FitAfterOutput

\* What RcvInv says of the type.
LEMMA RcvInvType ==
  ASSUME NEW A, NEW E, NEW x, RcvInv(x, E, A)
  PROVE  x \in RcvType
BY DEF RcvInv, RcvType

\* input() on a packet inside the window.
LEMMA FitInputInside ==
  ASSUME NoPositiveJunk, IndFits, NEW p \in Segs, NEW counted \in BOOLEAN, InputInside(p, counted)
  PROVE  FitInv(r')
<1> DEFINE A == arrived \cup {p}
           x == TcpReass(r, p)
           isFin == FinAtBack(x) /\ ~eof /\ counted
           y == IF isFin THEN CountFin(x) ELSE x
<1>1. eof = FALSE
  <2>1. eof = TRUE => OutOfWindow(r, p.seq, p.len, FALSE)
    BY NothingAfterFin DEF IndFits, IndInv
  <2> QED BY <2>1 DEF IndFits, IndInv, InputInside
<1>2. A \in SUBSET Segs /\ arrived \in SUBSET Segs /\ RcvInv(r, FALSE, arrived)
  BY <1>1 DEF IndFits, IndInv
<1>3. RcvInv(x, FALSE, A) /\ FitInv(x)
  BY <1>2, TcpReassKeeps, FitTcpReass DEF InputInside, IndFits
<1>4. /\ eof' = (eof \/ isFin)
      /\ \E z \in AfterOutput(y) : Readable(z, eof', op)
  BY DEF InputInside
<1>5. eof' \in BOOLEAN
  BY <1>1, <1>4
<1> HIDE DEF A, x
<1>6. y \in RcvType /\ FitInv(y)
  <2>1. CASE isFin
    <3>1. RcvInv(CountFin(x), TRUE, A)
      BY <1>2, <1>3, <2>1, CountFinKeeps
    <3>2. FitInv(CountFin(x))
      BY <1>3, RcvInvType, FitCountFin
    <3> QED BY <2>1, <3>1, <3>2, RcvInvType
  <2>2. CASE ~isFin
    BY <1>3, <2>2, RcvInvType
  <2> QED BY <2>1, <2>2
<1>7. PICK z \in AfterOutput(y) : Readable(z, eof', op)
  BY <1>4
<1> HIDE DEF y
<1>8. FitInv(z)
  BY <1>6, FitAfterOutput
<1>9. z \in RcvType
  <2>1. z = y \/ \E j \in Int : z = Advertise(y, j)
    BY <1>6, AccType, JunkAssumption DEF AfterOutput
  <2> QED BY <1>6, <2>1, AdvertiseType
<1> QED BY <1>5, <1>7, <1>8, <1>9, FitReadable DEF IndFits, IndInv

\* The invariant of the receive path with the bound of the buffer: what is stored
\* and what is promised to the peer together fit, whatever arrives.
THEOREM Fitting == ASSUME NoPositiveJunk PROVE Spec => []IndFits
<1>1. Init => IndFits
  <2> SUFFICES ASSUME Init PROVE FitInv(r)
    BY InitInv DEF IndFits
  <2> DEFINE x == RcvInit(1)
  <2>1. x \in RcvType /\ x.q = << >> /\ x.reasm = {} /\ x.ok = TRUE /\ x.adv = 1 /\ x.nxt = 1
    BY DEF RcvInit, RcvType
  <2>2. r = Advertise(x, RcvHiWat)
    BY DEF Init
  <2> HIDE DEF x
  <2>3. Acc(x) = RcvHiWat /\ Len(x.q) = 0
    BY <2>1, RcvBufAssumption DEF Acc
  <2>4. FitInv(x)
    BY <2>1, <2>3, RcvBufAssumption DEF FitInv
  <2> QED BY <2>1, <2>2, <2>3, <2>4, FitAdvertise, RcvBufAssumption
<1>2. IndFits /\ [Next]_vars => IndFits'
  <2> SUFFICES ASSUME IndFits, [Next]_vars
               PROVE  FitInv(r')
    BY NextInv DEF IndFits
  <2>1. r \in RcvType /\ FitInv(r) /\ eof \in BOOLEAN /\ op \in Reads \cup {0}
    BY RcvInvType DEF IndFits, IndInv
  <2>2. ASSUME NEW p \in Segs, InputOutside(p) PROVE FitInv(r')
    BY <2>1, <2>2, FitAfterOutput DEF InputOutside
  <2>3. ASSUME NEW p \in Segs, NEW counted \in BOOLEAN, InputInside(p, counted)
        PROVE  FitInv(r')
    BY <2>3, FitInputInside
  <2>4. ASSUME NEW n \in Reads, AsyncReceive(n) PROVE FitInv(r')
    BY <2>1, <2>4, FitReadable DEF AsyncReceive
  <2>5. CASE DelayTimer
    <3>1. op \in Nat
      BY <2>1, ReadsAssumption
    <3>2. r' = Copy(r, op)
      BY <2>5 DEF DelayTimer
    <3> QED BY <2>1, <3>1, <3>2, FitCopy
  <2>6. CASE Output
    BY <2>1, <2>6, FitAfterOutput DEF Output
  <2>7. CASE UNCHANGED vars
    BY <2>1, <2>7 DEF vars
  <2> QED BY <2>2, <2>3, <2>4, <2>5, <2>6, <2>7 DEF Next
<1> QED BY <1>1, <1>2, PTL DEF Spec

\* An append never fails: the peer was never promised more than there is room for.
THEOREM NothingOverruns == ASSUME NoPositiveJunk PROVE Spec => []AppendFits
<1>1. IndFits => AppendFits
  BY DEF IndFits, FitInv, AppendFits
<1> QED BY <1>1, Fitting, PTL
=============================================================================
