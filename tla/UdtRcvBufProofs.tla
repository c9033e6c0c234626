-------------------------- MODULE UdtRcvBufProofs --------------------------
(***************************************************************************)
(* Facts about the operators of UdtRcvBuf: least and greatest elements,    *)
(* runs of bytes, the frontier of the reassembly queue.                    *)
(***************************************************************************)
EXTENDS UdtRcvBuf, TLAPS, SequenceTheorems, WellFoundedInduction

----------------------------------------------------------------------------
(* Least and greatest. *)

\* A nonempty set of natural numbers has a least element.
LEMMA LeastExists ==
  ASSUME NEW T \in SUBSET Nat, T # {}
  PROVE  \E m \in T : \A n \in T : m <= n
<1>1. PICK Lt : /\ Lt = {p \in Nat \X Nat : p[1] < p[2]}
                /\ IsWellFoundedOn(Lt, Nat)
  BY NatLessThanWellFounded DEF OpToRel
<1>2. PICK x \in T : \A y \in T : ~(<<y, x>> \in Lt)
  BY <1>1, WFMin
<1>3. ASSUME NEW y \in T
      PROVE  x <= y
  <2>1. ~(<<y, x>> \in {p \in Nat \X Nat : p[1] < p[2]})
    BY <1>1, <1>2
  <2>2. x \in Nat /\ y \in Nat
    OBVIOUS
  <2> QED BY <2>1, <2>2
<1> QED BY <1>3

\* A nonempty bounded set of packets has a last one: merge_reasm_pkts leaves
\* it at the back of m_pkts.
LEMMA LastOfExists ==
  ASSUME NEW R, R # {}, NEW B \in Nat,
         \A p \in R : p.seq \in Nat /\ p.seq <= B
  PROVE  LastOf(R) \in R /\ \A o \in R : o.seq <= LastOf(R).seq
<1> DEFINE T == {B - p.seq : p \in R}
<1>1. T \in SUBSET Nat /\ T # {}
  OBVIOUS
<1>2. PICK m \in T : \A n \in T : m <= n
  BY <1>1, LeastExists
<1>3. PICK p \in R : m = B - p.seq
  OBVIOUS
<1>4. ASSUME NEW o \in R
      PROVE  o.seq <= p.seq
  <2>1. B - o.seq \in T
    OBVIOUS
  <2>2. B - p.seq <= B - o.seq
    BY <1>2, <1>3, <2>1
  <2> QED BY <2>2
<1>5. \E x \in R : \A o \in R : o.seq <= x.seq
  BY <1>4
<1> QED BY <1>5 DEF LastOf

----------------------------------------------------------------------------
(* Runs of bytes. *)

\* A run of bytes is a sequence of numbers.
LEMMA BytesType ==
  ASSUME NEW a \in Nat, NEW n \in Nat
  PROVE  /\ Bytes(a, n) \in Seq(Nat)
         /\ Len(Bytes(a, n)) = n
         /\ \A i \in 1 .. n : Bytes(a, n)[i] = a + i - 1
<1>1. \A i \in 1 .. n : a + i - 1 \in Nat
  OBVIOUS
<1>2. Bytes(a, n) \in [1 .. n -> Nat]
  BY <1>1 DEF Bytes
<1>3. Bytes(a, n) \in Seq(Nat)
  BY <1>2, SeqDef
<1>4. DOMAIN Bytes(a, n) = 1 .. n /\ Len(Bytes(a, n)) \in Nat
      /\ DOMAIN Bytes(a, n) = 1 .. Len(Bytes(a, n))
  BY <1>2, <1>3, LenProperties
<1>5. Len(Bytes(a, n)) = n
  BY <1>4
<1> QED BY <1>3, <1>5 DEF Bytes

\* Two adjacent runs are one: what append() puts behind what is buffered.
LEMMA BytesConcat ==
  ASSUME NEW a \in Nat, NEW m \in Nat, NEW k \in Nat
  PROVE  Bytes(a, m) \o Bytes(a + m, k) = Bytes(a, m + k)
<1> DEFINE s == Bytes(a, m)
           t == Bytes(a + m, k)
           u == Bytes(a, m + k)
<1>1. /\ s \in Seq(Nat) /\ Len(s) = m /\ \A i \in 1 .. m : s[i] = a + i - 1
  BY BytesType
<1>2. /\ t \in Seq(Nat) /\ Len(t) = k /\ \A i \in 1 .. k : t[i] = (a + m) + i - 1
  <2>1. a + m \in Nat
    OBVIOUS
  <2> QED BY <2>1, BytesType
<1>3. /\ u \in Seq(Nat) /\ Len(u) = m + k /\ \A i \in 1 .. m + k : u[i] = a + i - 1
  BY BytesType
<1> HIDE DEF s, t, u
<1>3a. /\ s \o t \in Seq(Nat) /\ Len(s \o t) = Len(s) + Len(t)
       /\ \A i \in 1 .. Len(s) + Len(t) :
            (s \o t)[i] = IF i <= Len(s) THEN s[i] ELSE t[i - Len(s)]
  BY <1>1, <1>2, ConcatProperties, Zenon
<1>4. PICK w : /\ w = s \o t /\ w \in Seq(Nat) /\ Len(w) = m + k
               /\ \A i \in 1 .. m + k : w[i] = IF i <= m THEN s[i] ELSE t[i - m]
  BY <1>1, <1>2, <1>3a, Zenon
<1>5. ASSUME NEW i \in 1 .. m + k
      PROVE  w[i] = u[i]
  <2>1. CASE i <= m
    BY <2>1, <1>1, <1>3, <1>4
  <2>2. CASE i > m
    <3>1. i - m \in 1 .. k
      BY <2>2
    <3>2. t[i - m] = (a + m) + (i - m) - 1
      BY <3>1, <1>2
    <3>3. w[i] = t[i - m]
      BY <2>2, <1>4
    <3>4. u[i] = a + i - 1
      BY <1>3
    <3> QED BY <3>2, <3>3, <3>4
  <2> QED BY <2>1, <2>2
<1>6. w = u
  BY <1>3, <1>4, <1>5, SeqEqual
<1> QED BY <1>4, <1>6 DEF s, t, u

\* A read moves a prefix of the buffer behind what was read before.
LEMMA MovePrefix ==
  ASSUME NEW s \in Seq(Nat), NEW t \in Seq(Nat), NEW k \in 0 .. Len(t)
  PROVE  /\ SubSeq(t, 1, k) \in Seq(Nat)
         /\ SubSeq(t, k + 1, Len(t)) \in Seq(Nat)
         /\ Len(SubSeq(t, k + 1, Len(t))) = Len(t) - k
         /\ s \o SubSeq(t, 1, k) \in Seq(Nat)
         /\ (s \o SubSeq(t, 1, k)) \o SubSeq(t, k + 1, Len(t)) = s \o t
<1>1. Len(t) \in Nat /\ \A i \in 1 .. Len(t) : t[i] \in Nat
  BY ElementOfSeq, LenProperties
<1>2. SubSeq(t, 1, k) \in Seq(Nat)
  BY <1>1, SubSeqProperties
<1>3. /\ SubSeq(t, k + 1, Len(t)) \in Seq(Nat)
      /\ Len(SubSeq(t, k + 1, Len(t))) = Len(t) - k
  <2>1. \A i \in k + 1 .. Len(t) : t[i] \in Nat
    BY <1>1
  <2> QED BY <2>1, <1>1, SubSeqProperties
<1>4. SubSeq(t, 1, k) \o SubSeq(t, k + 1, Len(t)) = t
  <2>1. SubSeq(t, 1, k) \o SubSeq(t, k + 1, Len(t)) = SubSeq(t, 1, Len(t))
    <3>1. 1 \in 1 .. Len(t) + 1 /\ k \in (1 - 1) .. Len(t) /\ Len(t) \in k .. Len(t)
      BY <1>1
    <3> QED BY <3>1, ConcatAdjacentSubSeq, Zenon
  <2> QED BY <2>1, SubSeqFull
<1>5. s \o SubSeq(t, 1, k) \in Seq(Nat)
  BY <1>2, ConcatProperties
<1>6. (s \o SubSeq(t, 1, k)) \o SubSeq(t, k + 1, Len(t))
        = s \o (SubSeq(t, 1, k) \o SubSeq(t, k + 1, Len(t)))
  <2> DEFINE u == SubSeq(t, 1, k)
             v == SubSeq(t, k + 1, Len(t))
  <2>1. u \in Seq(Nat) /\ v \in Seq(Nat)
    BY <1>2, <1>3
  <2> HIDE DEF u, v
  <2>2. (s \o u) \o v = s \o (u \o v)
    BY SMTT(60), <2>1, ConcatAssociative
  <2> QED BY <2>2 DEF u, v
<1> QED BY <1>2, <1>3, <1>4, <1>5, <1>6, Zenon

----------------------------------------------------------------------------
(* The frontier. *)

\* Frontier is defined: merge_reasm_pkts stops at the first byte from n on that
\* no packet of the queue holds, and every byte before it is held.
LEMMA FrontierFacts ==
  ASSUME NEW R \in SUBSET Packet, NEW n \in Nat, NEW B \in Nat,
         \A p \in R : p.seq + p.len <= B
  PROVE  /\ Frontier(R, n) \in {n} \cup {p.seq + p.len : p \in R}
         /\ Frontier(R, n) \in Nat
         /\ Frontier(R, n) >= n
         /\ ~ \E p \in R : Holds(p, Frontier(R, n))
         /\ \A b \in n .. (Frontier(R, n) - 1) : \E p \in R : Holds(p, b)
<1>1. \A p \in R : p.seq \in Nat /\ p.len \in Nat
  BY DEF Packet
<1> DEFINE U == {b \in Nat : b >= n /\ ~ \E p \in R : Holds(p, b)}
<1>2. n + B \in U
  <2>1. ASSUME NEW p \in R
        PROVE  ~Holds(p, n + B)
    BY <1>1 DEF Holds
  <2> QED BY <2>1
<1>3. PICK e \in U : \A b \in U : e <= b
  <2>1. U \in SUBSET Nat /\ U # {}
    BY <1>2
  <2> QED BY <2>1, LeastExists
<1>4. e \in Nat /\ e >= n /\ ~ \E p \in R : Holds(p, e)
  OBVIOUS
<1>5. ASSUME NEW b \in n .. (e - 1)
      PROVE  \E p \in R : Holds(p, b)
  <2>1. b \in Nat /\ b >= n /\ b < e
    BY <1>4
  <2>2. b \notin U
    BY <2>1, <1>3
  <2> QED BY <2>1, <2>2
<1>6. e \in {n} \cup {p.seq + p.len : p \in R}
  <2>1. CASE e = n
    BY <2>1
  <2>2. CASE e # n
    <3>1. e - 1 \in n .. (e - 1)
      BY <2>2, <1>4
    <3>2. PICK p \in R : Holds(p, e - 1)
      BY <3>1, <1>5
    <3>3. ~Holds(p, e)
      BY <1>4
    <3>4. e = p.seq + p.len
      BY <3>2, <3>3, <1>1, <1>4 DEF Holds
    <3> QED BY <3>4
  <2> QED BY <2>1, <2>2
<1>7. IsFrontier(R, n, e)
  BY <1>4, <1>5 DEF IsFrontier
<1>8. /\ Frontier(R, n) \in {n} \cup {p.seq + p.len : p \in R}
      /\ IsFrontier(R, n, Frontier(R, n))
  BY <1>6, <1>7 DEF Frontier
<1>9. \A x \in {n} \cup {p.seq + p.len : p \in R} : x \in Nat
  BY <1>1
<1> QED BY <1>8, <1>9 DEF IsFrontier
=============================================================================
