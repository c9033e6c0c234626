----------------------------- MODULE ServiceProofs -----------------------------
(* The services beside a connection.  The two one-shot operations, UdpChkNat and  *)
(* UdtMtu: what they report is true of the network, however often they are used   *)
(* and whatever is lost, repeated or sent by others, and their handlers run as    *)
(* OneShot says.  UdpHolePunch: what either end reports is an endpoint on which   *)
(* both have had a SYN, for any endpoints, NATs, losses and timeouts.  UdtRtt:    *)
(* for round trips of up to MaxTicks nothing wraps, the backoff never shortens,   *)
(* and the shared shift never shortens a series of timeouts.                      *)
EXTENDS UdpChkNat, UdtMtu, UdpHolePunch, UdtRtt,
        FiniteSetTheorems, SequenceTheorems, WellFoundedInduction, TLAPS

SeenEps == Endpoints \cup {NoEp}
Types == NatTypes \cup {"none"}
Errors == {"none", "resolve", "receive"}
Verdicts == [e : Errors, type : Types]

EndErrors == {"receive", "none"}
Args == Servers \cup {0} \cup EndErrors \cup AllAnswers \cup Strays \cup Verdicts
Comps == [op : {"resolve", "receive", "end", "timer", "told"}, arg : Args]

(* What NatVerdict says of one verdict. *)
Honest(type) ==
  /\ type \in {"full_cone", "restrict_cone"} => nat \in Cones
  /\ type = "port_restrict_cone" =>
       nat \in Cones \/ (nat = "symmetric" /\ other_ep.port = FirstEp.port)
  /\ type = "full_cone" => nat = "full_cone"
  /\ type = "wan" => nat = "wan"

NatShape ==
  /\ nat \in NatTypes /\ other_ip \in {"n1", "n1_other"}
  /\ other_ep \in Endpoints /\ (other_ep # FirstEp <=> nat = "symmetric")
  /\ eps_seen \in [Probes -> SeenEps]
  /\ chk_error \in Errors /\ nat_type \in Types
  /\ completions \in Seq(Comps)

(* Probes that the NAT lets a server answer from an endpoint that counts: the    *)
(* third is answered from a port that is no server's, the second from an address *)
(* that a symmetric NAT does not admit.                                          *)
Countable(i) == i # 3 /\ nat # "fw_block" /\ (i = 2 => nat # "symmetric")

(* An endpoint is recorded only for such a probe. *)
SeenHonest ==
  \A i \in Probes : eps_seen[i] # NoEp =>
    eps_seen[i] = SeenEp(i) /\ Countable(i)

(* What is on its way is an answer; what waits in the queue may be a stray datagram. *)
Underway ==
  /\ answers \subseteq Returned
  /\ \A i \in 1..Len(completions) :
       /\ completions[i].op = "receive" => completions[i].arg \in Returned \cup Strays
       /\ completions[i].op = "end" => completions[i].arg \in EndErrors
       /\ completions[i].op = "told" => Honest(completions[i].arg.type)

NatInv == NatShape /\ SeenHonest /\ Underway /\ Honest(nat_type) /\ Honest(verdict.type)

-----------------------------------------------------------------------------
(* The NAT is external and stays as it is while udp_chknat works. *)
LEMMA SameNat ==
  ASSUME UNCHANGED <<nat, other_ep, other_ip>>
  PROVE  /\ Returned' = Returned
         /\ \A i \in Probes : SeenEp(i)' = SeenEp(i) /\ Countable(i)' = Countable(i)
         /\ \A type : Honest(type)' = Honest(type)
<1>1. \A i : Sources(i)' = Sources(i) /\ Admitted(i)' = Admitted(i) /\ SeenEp(i)' = SeenEp(i)
  BY DEF Sources, Admitted, SeenEp
<1>2. Returned' = Returned
  BY <1>1 DEF Returned
<1> QED
  BY <1>1, <1>2 DEF Honest, Countable

(* An answer that counts is one to a countable probe. *)
LEMMA AnswersThatCount ==
  ASSUME NatShape, NEW a \in Returned, FromServer(a)
  PROVE  a.probe \in Probes /\ Countable(a.probe)
<1>1. /\ a \in AllAnswers /\ a.from \in Sources(a.probe) /\ a.from \in Admitted(a.probe)
      /\ a.from \in Servers
  BY DEF Returned, FromServer
<1>2. a.probe \in Probes
  BY <1>1 DEF AllAnswers
<1>3. a.probe # 3
  BY <1>1 DEF Sources, Servers
<1>4. nat # "fw_block"
  BY <1>1 DEF Admitted
<1>5. a.probe = 2 => nat # "symmetric"
  BY <1>1 DEF Sources, Admitted, NatShape
<1> QED
  BY <1>2, <1>3, <1>4, <1>5 DEF Countable

(* A stray datagram is of no probe or of no server. *)
LEMMA StraysDoNotCount ==
  ASSUME NEW a \in Strays
  PROVE  ~(FromServer(a) /\ a.probe \in Probes)
BY DEF Strays, FromServer, Servers, Probes, Beyond

(* analyze() concludes no more than the recorded endpoints allow. *)
LEMMA AnalyzeHonest ==
  ASSUME NatShape, NEW eps \in [Probes -> SeenEps],
         \A i \in Probes : eps[i] # NoEp => eps[i] = SeenEp(i) /\ Countable(i)
  PROVE  Analyze(eps) \in Types /\ Honest(Analyze(eps))
<1>1. 0 \in Probes /\ 1 \in Probes /\ 2 \in Probes /\ 3 \in Probes
  BY DEF Probes
<1>2. eps[3] = NoEp /\ nat \in NatTypes
  BY <1>1 DEF NatShape, Countable
<1>3. CASE eps[0] = NoEp
  <2>1. Analyze(eps) = "fw_block"
    BY <1>3 DEF Analyze
  <2> QED
    BY <2>1 DEF Types, NatTypes, Honest
<1>4. CASE eps[0] # NoEp /\ nat = "wan"
  <2>1. Analyze(eps) = "wan"
    BY <1>4 DEF Analyze
  <2> QED
    BY <1>4, <2>1 DEF Types, NatTypes, Honest
<1>5. CASE eps[0] # NoEp /\ nat # "wan" /\ eps[0].port # eps[1].port
  <2>1. Analyze(eps) = "symmetric"
    BY <1>5 DEF Analyze
  <2> QED
    BY <2>1 DEF Types, NatTypes, Honest
<1>6. CASE eps[0] # NoEp /\ nat # "wan" /\ eps[0].port = eps[1].port
  <2> DEFINE got == {i \in {2, 3} : eps[i] # NoEp}
  <2>1. Analyze(eps) = IF got = {2, 3} THEN "full_cone"
                       ELSE IF got = {} THEN "port_restrict_cone" ELSE "restrict_cone"
    BY <1>6 DEF Analyze
  <2>2. got # {2, 3}
    BY <1>2
  <2>3. eps[1] # NoEp
    BY <1>1, <1>6 DEF SeenEp, FirstEp, NoEp
  <2>4. eps[0] = FirstEp /\ eps[1] = other_ep /\ nat # "fw_block"
    BY <1>1, <1>6, <2>3 DEF SeenEp, Countable
  <2>5. nat \in Cones \/ (nat = "symmetric" /\ other_ep.port = FirstEp.port)
    BY <1>2, <1>6, <2>4 DEF NatTypes
  <2>6. CASE got = {}
    <3>1. Analyze(eps) = "port_restrict_cone"
      BY <2>1, <2>2, <2>6
    <3> QED
      BY <2>5, <3>1 DEF Types, NatTypes, Cones, Honest
  <2>7. CASE got # {}
    <3>1. Analyze(eps) = "restrict_cone"
      BY <2>1, <2>2, <2>7
    <3>2. nat # "symmetric"
      <4>1. eps[2] # NoEp
        BY <1>2, <2>7
      <4> QED
        BY <1>1, <4>1 DEF Countable
    <3> QED
      BY <2>5, <3>1, <3>2 DEF Types, NatTypes, Cones, Honest
  <2> QED
    BY <2>6, <2>7
<1> QED
  BY <1>3, <1>4, <1>5, <1>6

(* The queue: something is added, the head is taken, or the reset leaves one. *)
LEMMA QueueAdded ==
  ASSUME NatInv, UNCHANGED <<nat, other_ep, other_ip, eps_seen, nat_type, chk_error, verdict>>,
         answers' \subseteq Returned,
         NEW c \in Comps, completions' = Append(completions, c),
         c.op = "receive" => c.arg \in Returned \cup Strays,
         c.op = "end" => c.arg \in EndErrors,
         c.op # "told"
  PROVE  NatInv'
<1>1. completions \in Seq(Comps)
  BY DEF NatInv, NatShape
<1>2. /\ completions' \in Seq(Comps) /\ Len(completions') = Len(completions) + 1
      /\ Len(completions) \in Nat /\ completions'[Len(completions) + 1] = c
      /\ \A i \in 1..Len(completions) : completions'[i] = completions[i]
  BY <1>1, AppendProperties
<1>3. NatShape' /\ SeenHonest' /\ Honest(nat_type)' /\ Honest(verdict.type)'
  BY <1>2 DEF NatInv, NatShape, SeenHonest, SeenEp, Countable, Honest
<1>4. ASSUME NEW i \in 1..Len(completions')
      PROVE  /\ completions'[i].op = "receive" => completions'[i].arg \in Returned \cup Strays
             /\ completions'[i].op = "end" => completions'[i].arg \in EndErrors
             /\ completions'[i].op = "told" => Honest(completions'[i].arg.type)
  <2>1. i \in 1..Len(completions) \/ i = Len(completions) + 1
    BY <1>2
  <2> QED
    BY <1>2, <2>1 DEF NatInv, Underway
<1>5. Underway'
  BY <1>4, SameNat DEF Underway, Honest
<1> QED
  BY <1>3, <1>5 DEF NatInv

(* The handler that the worker runs leaves the queue. *)
LEMMA QueueTaken ==
  ASSUME NatInv, UNCHANGED <<nat, other_ep, other_ip, nat_type>>, completions # <<>>,
         completions' = Tail(completions), answers' \subseteq Returned,
         eps_seen' \in [Probes -> SeenEps], chk_error' \in Errors, SeenHonest', Honest(verdict.type)'
  PROVE  NatInv'
<1>1. completions \in Seq(Comps) /\ Honest(nat_type)'
  BY DEF NatInv, NatShape, Honest
<1>2. /\ completions' \in Seq(Comps) /\ Len(completions') = Len(completions) - 1
      /\ Len(completions) \in Nat
      /\ \A i \in 1..Len(completions') : completions'[i] = completions[i + 1]
  BY <1>1, HeadTailProperties
<1>3. NatShape'
  BY <1>2 DEF NatInv, NatShape
<1>4. ASSUME NEW i \in 1..Len(completions')
      PROVE  /\ completions'[i].op = "receive" => completions'[i].arg \in Returned \cup Strays
             /\ completions'[i].op = "end" => completions'[i].arg \in EndErrors
             /\ completions'[i].op = "told" => Honest(completions'[i].arg.type)
  <2>1. i + 1 \in 1..Len(completions)
    BY <1>2
  <2> QED
    BY <1>2, <2>1 DEF NatInv, Underway
<1>5. Underway'
  BY <1>4, SameNat DEF Underway, Honest
<1> QED
  BY <1>1, <1>3, <1>5 DEF NatInv

(* notify() leaves only the handler of the caller in the queue. *)
LEMMA QueueReset ==
  ASSUME NatInv, UNCHANGED <<nat, other_ep, other_ip, answers, verdict>>,
         NEW e \in Errors, NEW type \in Types, NatNotify(type, e),
         Honest(type),
         eps_seen' \in [Probes -> SeenEps], chk_error' \in Errors, SeenHonest'
  PROVE  NatInv'
<1> DEFINE v == [e |-> e, type |-> type]
           c == Completion("told", v)
<1>1. c \in Comps /\ c.op = "told" /\ c.arg = v
  BY DEF Completion, Comps, Args, Verdicts
<1>2. completions' = Append(<<>>, c)
  BY DEF NatNotify, ResetTracker
<1> HIDE DEF c
<1>3. /\ completions' \in Seq(Comps) /\ Len(completions') = 1 /\ completions'[1] = c
  <2>1. <<>> \in Seq(Comps) /\ Len(<<>>) = 0
    OBVIOUS
  <2> QED
    BY <1>1, <1>2, <2>1, AppendProperties
<1>4. NatShape' /\ Honest(nat_type)' /\ Honest(verdict.type)'
  BY <1>3 DEF NatInv, NatShape, Honest, NatNotify
<1>5. Underway'
  <2>1. answers' \subseteq Returned'
    BY SameNat DEF NatInv, Underway
  <2>2. ASSUME NEW i \in 1..Len(completions')
        PROVE  completions'[i] = c
    BY <1>3, <2>2
  <2>3. c.op # "receive" /\ c.op # "end" /\ Honest(v.type)'
    BY <1>1 DEF Honest
  <2> QED
    BY <1>1, <2>1, <2>2, <2>3 DEF Underway, Honest
<1> QED
  BY <1>4, <1>5 DEF NatInv

-----------------------------------------------------------------------------
(* Nothing is recorded before the first check. *)
LEMMA NatInitInv == NatInit => NatInv
<1> SUFFICES ASSUME NatInit PROVE NatInv
  OBVIOUS
<1>1. NatShape
  BY DEF NatInit, NatShape, SeenEps, Errors, Types
<1>2. SeenHonest /\ Underway /\ Honest(nat_type) /\ Honest(verdict.type)
  BY DEF NatInit, SeenHonest, Underway, Honest, Cones
<1> QED
  BY <1>1, <1>2 DEF NatInv

(* async_chknat: nat_info_ is not cleared, and need not be. *)
LEMMA AsyncChknatInv == ASSUME NatInv, AsyncChknat PROVE NatInv'
<1>1. UNCHANGED <<nat, other_ep, other_ip, eps_seen, nat_type, chk_error, completions, verdict>>
  BY DEF AsyncChknat, SendRequest, netVars
<1>2. answers' = answers \/ answers' = answers \cup Returned
  BY DEF AsyncChknat, SendRequest
<1>3. NatShape' /\ SeenHonest' /\ Honest(nat_type)' /\ Honest(verdict.type)'
  BY <1>1 DEF NatInv, NatShape, SeenHonest, SeenEp, Countable, Honest
<1>4. Underway'
  BY <1>1, <1>2, SameNat DEF NatInv, Underway, Honest
<1> QED
  BY <1>3, <1>4 DEF NatInv

(* An answer that counts is recorded with the endpoint the server saw. *)
LEMMA Recorded ==
  ASSUME NatInv, NEW a \in Returned \cup Strays
  PROVE  LET taken == FromServer(a) /\ a.probe \in Probes
             eps == IF taken THEN [eps_seen EXCEPT ![a.probe] = SeenEp(a.probe)] ELSE eps_seen
         IN /\ eps \in [Probes -> SeenEps]
            /\ \A i \in Probes : eps[i] # NoEp => eps[i] = SeenEp(i) /\ Countable(i)
<1> DEFINE taken == FromServer(a) /\ a.probe \in Probes
           eps == IF taken THEN [eps_seen EXCEPT ![a.probe] = SeenEp(a.probe)] ELSE eps_seen
<1>1. eps_seen \in [Probes -> SeenEps] /\ SeenHonest /\ NatShape
  BY DEF NatInv, NatShape
<1>2. CASE ~taken
  BY <1>1, <1>2 DEF SeenHonest
<1>3. CASE taken
  <2>2. a \in Returned
    BY <1>3, StraysDoNotCount
  <2>3. a.probe \in Probes /\ Countable(a.probe)
    BY <1>1, <1>3, <2>2, AnswersThatCount
  <2>4. SeenEp(a.probe) \in SeenEps
    BY <1>1 DEF SeenEp, SeenEps, NatShape, FirstEp, Endpoints
  <2>5. eps = [eps_seen EXCEPT ![a.probe] = SeenEp(a.probe)]
    BY <1>3
  <2>6. eps \in [Probes -> SeenEps]
    BY <1>1, <2>3, <2>4, <2>5
  <2>7. ASSUME NEW i \in Probes, eps[i] # NoEp
        PROVE  eps[i] = SeenEp(i) /\ Countable(i)
    <3>1. CASE i = a.probe
      BY <1>1, <2>3, <2>5, <3>1
    <3>2. CASE i # a.probe
      BY <1>1, <2>3, <2>5, <2>7, <3>2 DEF SeenHonest
    <3> QED
      BY <3>1, <3>2
  <2> QED
    BY <2>6, <2>7
<1> QED
  BY <1>2, <1>3

(* handle_async_receive records the answer, or drops a stray datagram. *)
LEMMA HandleAsyncReceiveInv ==
  ASSUME NatInv, completions # <<>>, UNCHANGED <<nat, other_ep, other_ip, verdict>>,
         NEW a \in Returned \cup Strays, HandleAsyncReceive(a)
  PROVE  NatInv'
<1> DEFINE taken == FromServer(a) /\ a.probe \in Probes
           eps == IF taken THEN [eps_seen EXCEPT ![a.probe] = SeenEp(a.probe)] ELSE eps_seen
<1>1. /\ eps \in [Probes -> SeenEps]
      /\ \A i \in Probes : eps[i] # NoEp => eps[i] = SeenEp(i) /\ Countable(i)
  BY Recorded
<1>2. /\ eps_seen' = eps /\ chk_error' = chk_error /\ answers' = answers
      /\ \/ NatNotify(Analyze(eps), chk_error)
         \/ completions' = Tail(completions) /\ nat_type' = nat_type
  BY DEF HandleAsyncReceive
<1> HIDE DEF eps
<1>3. SeenHonest'
  BY <1>1, <1>2 DEF SeenHonest, SeenEp, Countable
<1>4. chk_error \in Errors /\ NatShape /\ answers \subseteq Returned /\ Honest(verdict.type)'
  BY DEF NatInv, NatShape, Underway, Honest
<1>5. CASE NatNotify(Analyze(eps), chk_error)
  <2>1. Analyze(eps) \in Types /\ Honest(Analyze(eps))
    BY <1>1, <1>4, AnalyzeHonest
  <2> QED
    BY <1>1, <1>2, <1>3, <1>4, <1>5, <2>1, QueueReset
<1>6. CASE completions' = Tail(completions) /\ nat_type' = nat_type
  BY <1>1, <1>2, <1>3, <1>4, <1>6, QueueTaken
<1> QED
  BY <1>2, <1>5, <1>6

(* Every handler of udp_chknat keeps the invariant. *)
LEMMA NatRunOneInv == ASSUME NatInv, NatRunOne PROVE NatInv'
<1> DEFINE h == Head(completions)
<1>1. /\ completions # <<>> /\ completions \in Seq(Comps) /\ UNCHANGED <<nat, other_ep, other_ip>>
      /\ \/ h.op = "told" /\ HandlerRuns(h.arg)
         \/ /\ \/ h.op = "resolve" /\ HandleAsyncResolveServer(h.arg)
               \/ h.op = "receive" /\ HandleAsyncReceive(h.arg)
               \/ h.op = "end" /\ HandleReceiveEnd(h.arg)
               \/ h.op = "timer" /\ HandleAsyncWait
            /\ verdict' = verdict
  BY DEF NatRunOne, HandlerRuns, NatInv, NatShape, netVars
<1>2. h = completions[1] /\ 1 \in 1..Len(completions)
  BY <1>1, HeadTailProperties
<1>3. /\ h.op = "receive" => h.arg \in Returned \cup Strays
      /\ h.op = "end" => h.arg \in EndErrors
      /\ h.op = "told" => Honest(h.arg.type)
  BY <1>2 DEF NatInv, Underway
<1> HIDE DEF h
<1>4. /\ eps_seen \in [Probes -> SeenEps] /\ chk_error \in Errors /\ NatShape
      /\ SeenHonest /\ answers \subseteq Returned /\ Honest(verdict.type)
      /\ nat_type \in Types /\ Honest(nat_type)
  BY DEF NatInv, NatShape, Underway
<1>5. CASE h.op = "told" /\ HandlerRuns(h.arg)
  <2>1. /\ completions' = Tail(completions) /\ verdict' = h.arg
        /\ UNCHANGED <<eps_seen, nat_type, chk_error, answers>>
    BY <1>5 DEF HandlerRuns, h
  <2>2. Honest(verdict.type)' /\ SeenHonest'
    BY <1>1, <1>3, <1>4, <1>5, <2>1 DEF Honest, SeenHonest, SeenEp, Countable
  <2> QED
    BY <1>1, <1>4, <2>1, <2>2, QueueTaken
<1>6. CASE HandleAsyncResolveServer(h.arg) /\ verdict' = verdict
  <2>1. eps_seen' = eps_seen /\ SeenHonest' /\ Honest(verdict.type)'
    BY <1>1, <1>4, <1>6 DEF HandleAsyncResolveServer, SeenHonest, SeenEp, Countable, Honest
  <2>2. \/ NatNotify(nat_type, chk_error') /\ answers' = answers /\ chk_error' \in {"resolve", "none"}
        \/ /\ completions' = Tail(completions) /\ chk_error' = chk_error /\ nat_type' = nat_type
           /\ answers' = answers \/ answers' = answers \cup Returned
    BY <1>6 DEF HandleAsyncResolveServer, SendRequest
  <2>3. CASE NatNotify(nat_type, chk_error') /\ answers' = answers /\ chk_error' \in {"resolve", "none"}
    <3>1. chk_error' \in Errors
      BY <2>3 DEF Errors
    <3> QED
      BY <1>1, <1>4, <1>6, <2>1, <2>3, <3>1, QueueReset
  <2>4. CASE /\ completions' = Tail(completions) /\ chk_error' = chk_error /\ nat_type' = nat_type
             /\ answers' = answers \/ answers' = answers \cup Returned
    BY <1>1, <1>4, <2>1, <2>4, QueueTaken
  <2> QED
    BY <2>2, <2>3, <2>4
<1>7. CASE h.op = "receive" /\ HandleAsyncReceive(h.arg) /\ verdict' = verdict
  BY <1>1, <1>3, <1>7, HandleAsyncReceiveInv
<1>8. CASE h.op = "end" /\ HandleReceiveEnd(h.arg) /\ verdict' = verdict
  <2>1. /\ NatNotify(nat_type, h.arg) /\ chk_error' = h.arg
        /\ UNCHANGED <<eps_seen, answers>>
    BY <1>8 DEF HandleReceiveEnd
  <2>2. SeenHonest'
    BY <1>1, <1>4, <2>1 DEF SeenHonest, SeenEp, Countable
  <2>3. h.arg \in Errors
    BY <1>3, <1>8 DEF EndErrors, Errors
  <2> QED
    BY <1>1, <1>4, <1>8, <2>1, <2>2, <2>3, QueueReset
<1>9. CASE HandleAsyncWait /\ verdict' = verdict
  <2>1. /\ NatNotify(Analyze(eps_seen), chk_error)
        /\ UNCHANGED <<eps_seen, chk_error, answers>>
    BY <1>9 DEF HandleAsyncWait
  <2>2. SeenHonest'
    BY <1>1, <1>4, <2>1 DEF SeenHonest, SeenEp, Countable
  <2>3. Analyze(eps_seen) \in Types /\ Honest(Analyze(eps_seen))
    BY <1>4, AnalyzeHonest DEF SeenHonest
  <2> QED
    BY <1>1, <1>4, <1>9, <2>1, <2>2, <2>3, QueueReset
<1> QED
  BY <1>1, <1>5, <1>6, <1>7, <1>8, <1>9

(* What the resolver, the socket and the timer complete keeps the invariant. *)
LEMMA CompletedInv ==
  ASSUME NatInv, TimerFires \/ Datagram \/ \E i \in Servers : ResolverDone(i)
  PROVE  NatInv'
<1>1. /\ UNCHANGED <<nat, other_ep, other_ip, eps_seen, nat_type, chk_error, verdict>>
      /\ answers' \subseteq answers
  BY DEF TimerFires, Datagram, ResolverDone, netVars
<1>2. answers \subseteq Returned
  BY DEF NatInv, Underway
<1>3. ASSUME NEW c \in Comps, completions' = Append(completions, c), c.op # "told",
             c.op = "receive" => c.arg \in Returned \cup Strays,
             c.op = "end" => c.arg \in EndErrors
      PROVE  NatInv'
  BY <1>1, <1>2, <1>3, QueueAdded
<1>4. CASE TimerFires
  <2>1. Completion("timer", 0) \in Comps /\ Completion("timer", 0).op = "timer"
    BY DEF Completion, Comps, Args
  <2> QED
    BY <1>3, <1>4, <2>1 DEF TimerFires
<1>5. ASSUME NEW i \in Servers, ResolverDone(i) PROVE NatInv'
  <2>1. Completion("resolve", i) \in Comps /\ Completion("resolve", i).op = "resolve"
    BY DEF Completion, Comps, Args
  <2> QED
    BY <1>3, <1>5, <2>1 DEF ResolverDone
<1>6. CASE Datagram
  <2>1. \/ \E a \in Returned \cup Strays : completions' = Append(completions, Completion("receive", a))
        \/ \E e \in EndErrors : completions' = Append(completions, Completion("end", e))
    BY <1>2, <1>6 DEF Datagram, EndErrors
  <2>2. Returned \subseteq AllAnswers
    BY DEF Returned
  <2>3. ASSUME NEW a \in Returned \cup Strays,
               completions' = Append(completions, Completion("receive", a))
        PROVE  NatInv'
    <3>1. /\ Completion("receive", a) \in Comps /\ Completion("receive", a).op = "receive"
          /\ Completion("receive", a).arg = a
      BY <2>2 DEF Completion, Comps, Args
    <3> QED
      BY <1>3, <2>3, <3>1
  <2>4. ASSUME NEW e \in EndErrors, completions' = Append(completions, Completion("end", e))
        PROVE  NatInv'
    <3>1. /\ Completion("end", e) \in Comps /\ Completion("end", e).op = "end"
          /\ Completion("end", e).arg = e
      BY DEF Completion, Comps, Args
    <3> QED
      BY <1>3, <2>4, <3>1
  <2> QED
    BY <2>1, <2>3, <2>4
<1> QED
  BY <1>4, <1>5, <1>6

(* Every step of a check, and of another object, keeps the invariant. *)
LEMMA NatNextInv == NatInv /\ [NatNext]_natVars => NatInv'
<1> SUFFICES ASSUME NatInv, [NatNext]_natVars PROVE NatInv'
  OBVIOUS
<1>1. ASSUME UNCHANGED <<nat, other_ep, other_ip, eps_seen, nat_type, chk_error, completions,
                         answers, verdict>>
      PROVE  NatInv'
  <2>1. NatShape' /\ SeenHonest' /\ Honest(nat_type)' /\ Honest(verdict.type)'
    BY <1>1 DEF NatInv, NatShape, SeenHonest, SeenEp, Countable, Honest
  <2>2. Underway'
    BY <1>1, SameNat DEF NatInv, Underway, Honest
  <2> QED
    BY <2>1, <2>2 DEF NatInv
<1>2. CASE OtherObjectResolves
  BY <1>1, <1>2 DEF OtherObjectResolves, netVars
<1>3. CASE UNCHANGED natVars
  BY <1>1, <1>3 DEF natVars
<1> QED
  BY <1>2, <1>3, AsyncChknatInv, NatRunOneInv, CompletedInv DEF NatNext

(* No check promises more than the NAT allows. *)
THEOREM NatVerdictAlways == NatSpec => []NatVerdict
<1>1. NatInv => NatVerdict
  BY DEF NatInv, Honest, NatVerdict
<1> QED
  BY NatInitInv, NatNextInv, <1>1, PTL DEF NatSpec

-----------------------------------------------------------------------------
(* UdpChkNat as a one-shot operation. *)
NatIdle == resolving = {} /\ receives = 0 /\ ~waiting

IsTold(c) == c.op = "told"

(* Nothing is queued or pending between two checks, and the caller's handler is *)
(* queued alone.                                                                *)
NatOnce ==
  /\ natCalls \in Nat /\ natAsks \in {natCalls, natCalls + 1} /\ receives \in Nat
  /\ natAsks = natCalls => completions = <<>> /\ NatIdle
  /\ \A i \in 1..Len(completions) : IsTold(completions[i]) => Len(completions) = 1 /\ NatIdle

(* A completion of the resolver, the socket or the timer is queued. *)
LEMMA QueueGrowsOnce ==
  ASSUME NatInv, NatOnce, ~NatIdle, NEW c \in Comps, ~IsTold(c), receives' \in Nat,
         completions' = Append(completions, c), UNCHANGED <<natAsks, natCalls>>
  PROVE  NatOnce'
<1>1. completions \in Seq(Comps)
  BY DEF NatInv, NatShape
<1>2. /\ Len(completions') = Len(completions) + 1 /\ Len(completions) \in Nat
      /\ completions'[Len(completions) + 1] = c
      /\ \A i \in 1..Len(completions) : completions'[i] = completions[i]
  BY <1>1, AppendProperties
<1>3. ASSUME NEW i \in 1..Len(completions') PROVE ~IsTold(completions'[i])
  <2>1. i \in 1..Len(completions) \/ i = Len(completions) + 1
    BY <1>2
  <2> QED
    BY <1>2, <2>1 DEF NatOnce
<1> QED
  BY <1>3 DEF NatOnce, IsTold

(* The worker goes on with the check, or notify() ends it. *)
LEMMA QueueServedOnce ==
  ASSUME NatInv, NatOnce, completions # <<>>, UNCHANGED <<natAsks, natCalls>>,
         \/ completions' = Tail(completions) /\ receives' \in Nat
         \/ \E type, e : NatNotify(type, e)
  PROVE  NatOnce'
<1>1. completions \in Seq(Comps) /\ natAsks # natCalls
  BY DEF NatInv, NatShape, NatOnce
<1>2. CASE completions' = Tail(completions) /\ receives' \in Nat
  <2>1. /\ Len(completions') = Len(completions) - 1 /\ Len(completions) \in Nat
        /\ \A i \in 1..Len(completions') : completions'[i] = completions[i + 1]
    BY <1>1, <1>2, HeadTailProperties
  <2>2. ASSUME NEW i \in 1..Len(completions') PROVE ~IsTold(completions'[i])
    <3>1. i + 1 \in 1..Len(completions) /\ Len(completions) # 1
      BY <2>1
    <3> QED
      BY <2>1, <3>1 DEF NatOnce
  <2> QED
    BY <1>1, <1>2, <2>2 DEF NatOnce, IsTold
<1>3. ASSUME NEW type, NEW e, NatNotify(type, e) PROVE NatOnce'
  <2> DEFINE c == Completion("told", [e |-> e, type |-> type])
  <2>1. completions' = Append(<<>>, c) /\ NatIdle' /\ receives' = 0
    BY <1>3 DEF NatNotify, ResetTracker, NatIdle
  <2> HIDE DEF c
  <2>2. Len(completions') = 1
    <3>1. <<>> \in Seq({c}) /\ Len(<<>>) = 0
      OBVIOUS
    <3> QED
      BY <2>1, <3>1, AppendProperties
  <2> QED
    BY <1>1, <2>1, <2>2 DEF NatOnce
<1> QED
  BY <1>2, <1>3

(* The handler that the worker runs first is queued alone when it is the caller's. *)
LEMMA ToldOnce ==
  ASSUME NatInv, NatOnce, completions # <<>>, IsTold(Head(completions))
  PROVE  Tail(completions) = <<>> /\ NatIdle /\ natAsks = natCalls + 1
<1>1. completions \in Seq(Comps)
  BY DEF NatInv, NatShape
<1>2. Head(completions) = completions[1] /\ 1 \in 1..Len(completions)
  BY <1>1, HeadTailProperties
<1>3. Len(completions) = 1 /\ NatIdle
  BY <1>2 DEF NatOnce
<1>4. Tail(completions) \in Seq(Comps) /\ Len(Tail(completions)) = 0
  BY <1>1, <1>3, HeadTailProperties
<1> QED
  BY <1>3, <1>4, EmptySeq DEF NatOnce

(* Every step of the check keeps the caller's handler alone. *)
LEMMA NatOnceNext == NatInv /\ NatOnce /\ [NatNext]_natVars => NatOnce'
<1> SUFFICES ASSUME NatInv, NatOnce, [NatNext]_natVars PROVE NatOnce'
  OBVIOUS
<1>1. CASE AsyncChknat
  <2>1. natAsks = natCalls /\ natAsks' = natAsks + 1 /\ natCalls' = natCalls
        /\ completions' = completions /\ receives' \in {receives, receives + 1}
    BY <1>1 DEF AsyncChknat, SendRequest
  <2> QED
    BY <2>1 DEF NatOnce
<1>2. CASE NatRunOne
  <2>1. CASE IsTold(Head(completions)) /\ HandlerRuns(Head(completions).arg)
    <3>1. Tail(completions) = <<>> /\ NatIdle /\ natAsks = natCalls + 1
      BY <1>2, <2>1, ToldOnce DEF NatRunOne
    <3>2. /\ completions' = <<>> /\ natCalls' = natCalls + 1 /\ natAsks' = natAsks
          /\ UNCHANGED <<resolving, receives, waiting>>
      BY <2>1, <3>1 DEF HandlerRuns
    <3>3. natCalls' \in Nat /\ natAsks' = natCalls' /\ NatIdle' /\ receives' \in Nat
      BY <3>1, <3>2 DEF NatOnce, NatIdle
    <3> QED
      BY <3>2, <3>3 DEF NatOnce
  <2>2. ASSUME NEW arg, UNCHANGED <<natAsks, natCalls>>,
               \/ HandleAsyncResolveServer(arg) \/ HandleAsyncReceive(arg)
               \/ HandleReceiveEnd(arg) \/ HandleAsyncWait
        PROVE  NatOnce'
    <3>1. \/ completions' = Tail(completions) /\ receives' \in {receives, receives + 1}
          \/ \E type, e : NatNotify(type, e)
      BY <2>2 DEF HandleAsyncResolveServer, HandleAsyncReceive, HandleReceiveEnd, HandleAsyncWait,
                  SendRequest
    <3>2. \/ completions' = Tail(completions) /\ receives' \in Nat
          \/ \E type, e : NatNotify(type, e)
      BY <3>1 DEF NatOnce
    <3> QED
      BY <1>2, <2>2, <3>2, QueueServedOnce DEF NatRunOne
  <2> QED
    BY <1>2, <2>1, <2>2 DEF NatRunOne, IsTold
<1>3. CASE TimerFires
  <2>1. Completion("timer", 0) \in Comps /\ ~IsTold(Completion("timer", 0))
    BY DEF Completion, Comps, Args, IsTold
  <2> QED
    BY <1>3, <2>1, QueueGrowsOnce DEF TimerFires, NatIdle, NatOnce
<1>4. CASE Datagram
  <2>1. \/ \E a \in Returned \cup Strays : completions' = Append(completions, Completion("receive", a))
        \/ \E e \in EndErrors : completions' = Append(completions, Completion("end", e))
    BY <1>4 DEF Datagram, EndErrors, NatInv, Underway
  <2>2. Returned \subseteq AllAnswers
    BY DEF Returned
  <2>3. /\ \A a \in Returned \cup Strays : /\ Completion("receive", a) \in Comps
                                        /\ ~IsTold(Completion("receive", a))
        /\ \A e \in EndErrors : /\ Completion("end", e) \in Comps
                              /\ ~IsTold(Completion("end", e))
    BY <2>2 DEF Completion, Comps, Args, IsTold
  <2>4. receives > 0 /\ receives' = receives - 1 /\ UNCHANGED <<natAsks, natCalls>>
    BY <1>4 DEF Datagram
  <2>5. receives' \in Nat /\ ~NatIdle
    BY <2>4 DEF NatOnce, NatIdle
  <2> QED
    BY <2>1, <2>3, <2>4, <2>5, QueueGrowsOnce
<1>5. ASSUME NEW i \in Servers, ResolverDone(i) PROVE NatOnce'
  <2>1. Completion("resolve", i) \in Comps /\ ~IsTold(Completion("resolve", i))
    BY DEF Completion, Comps, Args, IsTold
  <2> QED
    BY <1>5, <2>1, QueueGrowsOnce DEF ResolverDone, NatIdle, NatOnce
<1>6. CASE OtherObjectResolves \/ UNCHANGED natVars
  BY <1>6 DEF OtherObjectResolves, natVars, NatOnce, NatIdle, IsTold
<1> QED
  BY <1>1, <1>2, <1>3, <1>4, <1>5, <1>6 DEF NatNext

(* async_chknat calls its handler at most once for every check: a step of the *)
(* check is a step of OneShot or leaves what the caller sees alone.           *)
THEOREM NatOneShotSafe ==
  NatSpec => NatShot!OneInit /\ [][NatShot!Ask \/ NatShot!Answer]_(NatShot!oneVars)
<1>1. NatInit => NatShot!OneInit
  BY DEF NatInit, NatShot!OneInit
<1>2. NatInit => NatOnce
  BY DEF NatInit, NatOnce, NatIdle
<1>3. NatInv /\ NatOnce /\ [NatNext]_natVars => [NatShot!Ask \/ NatShot!Answer]_(NatShot!oneVars)
  <2> SUFFICES ASSUME NatInv, NatOnce, [NatNext]_natVars
               PROVE  NatShot!Ask \/ NatShot!Answer \/ UNCHANGED <<natAsks, natCalls>>
    BY DEF NatShot!oneVars
  <2>1. CASE AsyncChknat
    BY <2>1 DEF AsyncChknat, NatShot!Ask
  <2>2. CASE NatRunOne
    <3>1. CASE IsTold(Head(completions)) /\ HandlerRuns(Head(completions).arg)
      <4>1. natAsks = natCalls + 1 /\ natCalls \in Nat
        BY <2>2, <3>1, ToldOnce DEF NatRunOne, NatOnce
      <4> QED
        BY <3>1, <4>1 DEF HandlerRuns, NatShot!Answer
    <3> QED
      BY <2>2, <3>1 DEF NatRunOne, IsTold
  <2> QED
    BY <2>1, <2>2 DEF NatNext, natVars, TimerFires, Datagram, OtherObjectResolves, ResolverDone
<1> QED
  BY NatInitInv, NatNextInv, NatOnceNext, <1>1, <1>2, <1>3, PTL DEF NatSpec

-----------------------------------------------------------------------------
(* UdtMtu. *)
Replies == [type : {"echo", "needfrag", "other", "none"}, hint : Nat]
Reports == [mtu : Nat, echo : BOOLEAN]
MtuComps == [op : {"recv", "timer"}, arg : Replies] \cup [op : {"told"}, arg : Reports]

Route == hop1 \in Nat \ {0} /\ hop2 \in Nat \ {0} /\ limit \in Nat /\ hinting \in BOOLEAN

MtuShape ==
  /\ Route
  /\ mtu \in Nat /\ current_mtu_idx \in 1..11
  /\ mtuWaits \in BOOLEAN /\ others \in BOOLEAN /\ broken \in BOOLEAN
  /\ replies \in Seq(Replies) /\ mtuQueue \in Seq(MtuComps)
  /\ reported \in Reports

(* Sizes that every router and the interface take. *)
Fits(size) == size <= hop1 /\ size <= hop2 /\ size <= limit

(* A refusal by the first router when the second has a smaller MTU: the hint it *)
(* carries is refused again.                                                    *)
Early(r) == hinting /\ hop2 < hop1 /\ r = [type |-> "needfrag", hint |-> hop1]

(* What comes back for a probe of this route. *)
Answers ==
  {r \in Replies :
     \/ r = [type |-> "echo", hint |-> 0]
     \/ r = [type |-> "needfrag", hint |-> IF hinting /\ hop1 <= hop2 THEN hop1
                                           ELSE IF hinting THEN hop2 ELSE 0]
     \/ Early(r)}

Receives(c) == c.op = "recv"

OneReceive ==
  \A i, j \in 1..Len(mtuQueue) : Receives(mtuQueue[i]) /\ Receives(mtuQueue[j]) => i = j

(* Early refusals come before everything else that is on its way. *)
EarlyFirst ==
  /\ \A i \in 1..Len(mtuQueue) : Receives(mtuQueue[i]) => mtuQueue[i].arg \in Answers
  /\ \A i \in 1..Len(replies) : replies[i] \in Answers
  /\ \A j \in 1..Len(replies) : Early(replies[j]) =>
       /\ \A i \in 1..j : Early(replies[i])
       /\ \A i \in 1..Len(mtuQueue) : Receives(mtuQueue[i]) => Early(mtuQueue[i].arg)

EchoComes ==
  \/ \E i \in 1..Len(replies) : IsEcho(replies[i])
  \/ \E i \in 1..Len(mtuQueue) : Receives(mtuQueue[i]) /\ IsEcho(mtuQueue[i].arg)

(* An echo reply is on its way only when the current size fits, and nothing that *)
(* comes with it makes the size larger again.                                    *)
EchoFits ==
  EchoComes =>
    /\ Fits(mtu) /\ current_mtu_idx > 1
    /\ \A i \in 1..Len(replies) : ~Early(replies[i])
    /\ \A i \in 1..Len(mtuQueue) : Receives(mtuQueue[i]) => ~Early(mtuQueue[i].arg)

(* Without hints the table is followed downwards. *)
Downwards == ~hinting /\ current_mtu_idx > 1 => mtu = PACKET_MAXIMUMS[current_mtu_idx - 1]

ToldFits ==
  \A i \in 1..Len(mtuQueue) :
    mtuQueue[i].op = "told" /\ mtuQueue[i].arg.echo /\ ~others => Fits(mtuQueue[i].arg.mtu)

(* Nothing is queued or pending before the call and after the answer, and the    *)
(* answer is queued alone.                                                       *)
MtuOnce ==
  /\ mtuAsks \in {0, 1} /\ mtuCalls \in {0, 1} /\ mtuCalls <= mtuAsks
  /\ mtuCalls = mtuAsks => mtuQueue = <<>> /\ ~mtuWaits
  /\ mtuAsks = 0 => replies = <<>> /\ ~broken
  /\ \A i \in 1..Len(mtuQueue) :
       mtuQueue[i].op = "told" => Len(mtuQueue) = 1 /\ ~mtuWaits

MtuInv ==
  /\ MtuShape /\ MtuOnce /\ OneReceive /\ ToldFits /\ MtuFits
  /\ ~others /\ ~broken => EarlyFirst /\ EchoFits /\ Downwards

-----------------------------------------------------------------------------
(* PACKET_MAXIMUMS falls to the marker 0. *)
LEMMA TableFalls ==
  /\ Indices = 1..10 /\ PACKET_MAXIMUMS[10] = 0
  /\ \A i \in 1..10 : PACKET_MAXIMUMS[i] \in Nat
  /\ \A i, j \in 1..10 : i <= j => PACKET_MAXIMUMS[j] <= PACKET_MAXIMUMS[i]
BY DEF Indices, PACKET_MAXIMUMS

(* From every index the table has a size that is small enough: that of the marker *)
(* at the latest.                                                                 *)
LEMMA FirstFitExists ==
  ASSUME NEW i \in 1..10, NEW size \in Nat
  PROVE  FirstFit(i, size) \in i..10 /\ PACKET_MAXIMUMS[FirstFit(i, size)] <= size
<1> DEFINE S == {j \in Nat : j \in i..10 /\ PACKET_MAXIMUMS[j] <= size}
           P(j) == /\ j >= i /\ PACKET_MAXIMUMS[j] <= size
                   /\ \A k \in i..j-1 : PACKET_MAXIMUMS[k] > size
<1>1. 10 \in S
  BY TableFalls
<1>2. PICK j \in S : \A k \in S : ~(<<k, j>> \in OpToRel(<, Nat))
  <2>1. IsWellFoundedOn(OpToRel(<, Nat), Nat)
    BY NatLessThanWellFounded
  <2>2. S \subseteq Nat /\ S # {}
    BY <1>1
  <2> HIDE DEF S
  <2> QED
    BY <2>1, <2>2, WFMin
<1>3. \A k \in S : ~(k < j)
  BY <1>2 DEF OpToRel
<1>4. j \in Indices /\ P(j)
  <2>1. j \in i..10 /\ PACKET_MAXIMUMS[j] <= size
    OBVIOUS
  <2>2. ASSUME NEW k \in i..j-1 PROVE PACKET_MAXIMUMS[k] > size
    <3>1. k \notin S
      BY <1>3, <2>1
    <3> QED
      BY <2>1, <3>1, TableFalls
  <2> QED
    BY <2>1, <2>2, TableFalls
<1>5. FirstFit(i, size) \in Indices /\ P(FirstFit(i, size))
  BY <1>4 DEF FirstFit
<1> QED
  BY <1>5, TableFalls

(* The network answers a probe that passes both routers and refuses another. *)
LEMMA AnswerKinds ==
  ASSUME Route, NEW size \in Nat
  PROVE  /\ AnswerTo(size) \in Answers
         /\ IsEcho(AnswerTo(size)) <=> size <= hop1 /\ size <= hop2
         /\ Early(AnswerTo(size)) => hop1 < size
BY DEF Route, AnswerTo, Answers, Replies, IsEcho, Early

(* What send_echo has done when the interface takes the packet: the size, and its *)
(* answers behind those that are on their way.                                    *)
LEMMA SentFacts ==
  ASSUME MtuShape, NEW hint \in Nat, hint # 0 \/ current_mtu_idx \in Indices, SendSize(hint)
  PROVE  /\ mtu' \in Nat /\ current_mtu_idx' \in 2..11
         /\ broken' \in BOOLEAN /\ mtuWaits' \in BOOLEAN /\ replies' \in Seq(Replies)
         /\ hint # 0 => mtu' = hint
         /\ hint = 0 => /\ mtu' = PACKET_MAXIMUMS[current_mtu_idx' - 1]
                        /\ current_mtu_idx < current_mtu_idx'
         /\ ~broken' => /\ mtu' <= limit
                        /\ Len(replies') = Len(replies) + Copies
                        /\ \A i \in 1..Len(replies) : replies'[i] = replies[i]
                        /\ \A i \in 1..Len(replies') :
                             i > Len(replies) => replies'[i] = AnswerTo(mtu')
<1> DEFINE from == IF hint # 0 THEN 1 ELSE current_mtu_idx
           size == IF hint # 0 THEN hint ELSE limit
           i == FirstFit(from, size)
           sent == [c \in 1..Copies |-> AnswerTo(mtu')]
<1>1. Route /\ replies \in Seq(Replies) /\ Copies \in Nat /\ from \in 1..10 /\ size \in Nat
  BY MtuAssumption, TableFalls DEF MtuShape, Route
<1>2. i \in from..10 /\ PACKET_MAXIMUMS[i] \in Nat
  <2> HIDE DEF from, size
  <2>1. i \in from..10
    BY <1>1, FirstFitExists
  <2>2. i \in 1..10
    BY <1>1, <2>1
  <2> QED
    BY <2>1, <2>2, TableFalls
<1>3. /\ mtu' = IF hint # 0 THEN hint ELSE PACKET_MAXIMUMS[i]
      /\ current_mtu_idx' = i + 1
      /\ broken' = (mtu' < IPHDR_SIZE_BYTE \/ mtu' > limit)
      /\ mtuWaits' = ~broken'
      /\ replies' = IF broken' THEN replies ELSE replies \o sent
  BY DEF SendSize
<1> HIDE DEF i
<1>4. mtu' \in Nat /\ current_mtu_idx' \in 2..11
  BY <1>1, <1>2, <1>3
<1>5. sent \in Seq(Replies) /\ Len(sent) = Copies /\ \A c \in 1..Copies : sent[c] = AnswerTo(mtu')
  <2>1. AnswerTo(mtu') \in Replies
    BY <1>1, <1>4, AnswerKinds DEF Answers
  <2>2. sent \in [1..Copies -> Replies]
    BY <2>1
  <2> QED
    BY <1>1, <2>1, <2>2, SeqDef
<1>6. broken' \in BOOLEAN /\ mtuWaits' \in BOOLEAN /\ (~broken' => mtu' <= limit)
  <2>1. limit \in Nat
    BY <1>1 DEF Route
  <2>2. CASE mtu' > limit
    BY <1>3, <1>4, <2>1, <2>2 
  <2>3. CASE mtu' < IPHDR_SIZE_BYTE
    BY <1>3, <2>3
  <2>4. CASE ~(mtu' > limit) /\ ~(mtu' < IPHDR_SIZE_BYTE)
    BY <1>3, <1>4, <2>1, <2>4
  <2> QED
    BY <2>2, <2>3, <2>4
<1> HIDE DEF sent
<1>7. /\ replies \o sent \in Seq(Replies) /\ Len(replies \o sent) = Len(replies) + Copies
      /\ \A k \in 1..Len(replies) : (replies \o sent)[k] = replies[k]
      /\ \A k \in 1..Len(replies \o sent) :
           k > Len(replies) => (replies \o sent)[k] = AnswerTo(mtu')
  BY SMTT(60), <1>1, <1>5, ConcatProperties
<1>8. /\ replies' \in Seq(Replies)
      /\ ~broken' => /\ Len(replies') = Len(replies) + Copies
                     /\ \A k \in 1..Len(replies) : replies'[k] = replies[k]
                     /\ \A k \in 1..Len(replies') :
                          k > Len(replies) => replies'[k] = AnswerTo(mtu')
  BY <1>1, <1>3, <1>7
<1>9. /\ hint # 0 => mtu' = hint
      /\ hint = 0 => /\ mtu' = PACKET_MAXIMUMS[current_mtu_idx' - 1]
                     /\ current_mtu_idx < current_mtu_idx'
  BY <1>1, <1>2, <1>3
<1> QED
  BY <1>4, <1>6, <1>8, <1>9


(* The route is external and stays as it is while udt_mtu works. *)
LEMMA SameRoute ==
  ASSUME UNCHANGED routeVars
  PROVE  /\ Route' <=> Route
         /\ Answers' = Answers
         /\ \A r : Early(r)' <=> Early(r)
         /\ \A r : IsEcho(r)' <=> IsEcho(r)
         /\ \A size : Fits(size)' <=> Fits(size)
<1>1. hop1' = hop1 /\ hop2' = hop2 /\ hinting' = hinting /\ limit' = limit
  BY DEF routeVars
<1>2. \A r : (Early(r)' <=> Early(r)) /\ (IsEcho(r)' <=> IsEcho(r))
  BY <1>1 DEF Early, IsEcho
<1>3. Answers' = Answers
  BY <1>1, <1>2 DEF Answers
<1> QED
  BY <1>1, <1>2, <1>3 DEF Route, Fits

(* The caller is told: notify() leaves its handler alone in the queue. *)
LEMMA MtuNotifyKeeps ==
  ASSUME MtuInv, NEW echo \in BOOLEAN, MtuNotify(echo), echo /\ ~others => Fits(mtu),
         mtuCalls = 0, mtuCalls' = 0, mtuAsks' = 1, UNCHANGED <<routeVars, others, reported>>
  PROVE  MtuInv'
<1> DEFINE c == MtuHandler("told", [mtu |-> mtu, echo |-> echo])
<1>1. MtuShape
  BY DEF MtuInv
<1>2. /\ c \in MtuComps /\ c.op = "told" /\ c.arg = [mtu |-> mtu, echo |-> echo]
  BY <1>1 DEF MtuHandler, MtuComps, Reports, MtuShape
<1>3. mtuQueue' = <<c>> /\ mtuWaits' = FALSE /\ UNCHANGED <<mtu, current_mtu_idx, replies, broken>>
  BY DEF MtuNotify
<1> HIDE DEF c
<1>4. /\ mtuQueue' \in Seq(MtuComps) /\ Len(mtuQueue') = 1
      /\ \A i \in 1..Len(mtuQueue') : mtuQueue'[i] = c
  BY <1>2, <1>3
<1>5. MtuShape'
  BY <1>1, <1>3, <1>4, SameRoute DEF MtuShape
<1>6. MtuOnce'
  BY <1>3, <1>4 DEF MtuOnce
<1>7. OneReceive' /\ ToldFits' /\ MtuFits'
  <2>1. \A i \in 1..Len(mtuQueue') : ~Receives(mtuQueue'[i])
    BY <1>2, <1>4 DEF Receives
  <2>2. OneReceive'
    BY <2>1 DEF OneReceive, Receives
  <2>3. ToldFits'
    BY <1>2, <1>4, SameRoute DEF ToldFits
  <2>4. MtuFits'
    BY DEF MtuInv, MtuFits, routeVars
  <2> QED
    BY <2>2, <2>3, <2>4
<1>8. ASSUME ~others', ~broken' PROVE EarlyFirst' /\ EchoFits' /\ Downwards'
  <2>1. EarlyFirst /\ EchoFits /\ Downwards
    BY <1>3, <1>8 DEF MtuInv
  <2>2. \A i \in 1..Len(mtuQueue') : ~Receives(mtuQueue'[i])
    BY <1>2, <1>4 DEF Receives
  <2>3. EarlyFirst'
    BY <1>3, <2>1, <2>2, SameRoute DEF EarlyFirst, Receives
  <2>4. EchoComes' => EchoComes
    BY <1>3, <2>2, SameRoute DEF EchoComes, Receives
  <2>5. EchoFits'
    BY <1>3, <2>1, <2>2, <2>4, SameRoute DEF EchoFits, Receives
  <2>6. Downwards'
    BY <1>3, <2>1 DEF Downwards, routeVars
  <2> QED
    BY <2>3, <2>5, <2>6
<1> QED
  BY <1>5, <1>6, <1>7, <1>8 DEF MtuInv

(* send_echo from async_probe_mtu or from a refusal, when the packet is sent: an   *)
(* echo reply on its way means that the new size fits as well.                     *)
LEMMA SendSizeKeeps ==
  ASSUME MtuInv, ~broken, NEW hint \in Nat, hint # 0 \/ current_mtu_idx \in Indices,
         SendSize(hint), UNCHANGED <<routeVars, others, reported>>,
         mtuCalls = 0, mtuCalls' = 0, mtuAsks' = 1, mtuQueue' \in Seq(MtuComps),
         \A i \in 1..Len(mtuQueue') : mtuQueue'[i].op \notin {"told", "recv"},
         \/ others \/ (replies = <<>> /\ hint = 0)
         \/ \E r \in Answers :
              /\ hint = r.hint /\ ~IsEcho(r) /\ (EchoComes => ~Early(r))
              /\ ~Early(r) => \A i \in 1..Len(replies) : ~Early(replies[i])
  PROVE  MtuInv'
<1>1. MtuShape /\ Route
  BY DEF MtuInv, MtuShape
<1>2. /\ mtu' \in Nat /\ current_mtu_idx' \in 2..11
      /\ broken' \in BOOLEAN /\ mtuWaits' \in BOOLEAN /\ replies' \in Seq(Replies)
      /\ hint # 0 => mtu' = hint
      /\ hint = 0 => /\ mtu' = PACKET_MAXIMUMS[current_mtu_idx' - 1]
                     /\ current_mtu_idx < current_mtu_idx'
  BY <1>1, SentFacts
<1>3. ~broken' => /\ mtu' <= limit
                  /\ Len(replies') = Len(replies) + Copies
                  /\ \A i \in 1..Len(replies) : replies'[i] = replies[i]
                  /\ \A i \in 1..Len(replies') :
                       i > Len(replies) => replies'[i] = AnswerTo(mtu')
  BY <1>1, SentFacts
<1>4. MtuShape'
  BY <1>1, <1>2, SameRoute DEF MtuShape
<1>5. MtuOnce'
  BY DEF MtuOnce
<1>6. \A i \in 1..Len(mtuQueue') : ~Receives(mtuQueue'[i])
  BY DEF Receives
<1>7. OneReceive' /\ ToldFits' /\ MtuFits'
  BY <1>6 DEF OneReceive, Receives, ToldFits, MtuInv, MtuFits, routeVars
<1>8. ASSUME ~others', ~broken' PROVE EarlyFirst' /\ EchoFits' /\ Downwards'
  <2>1. EarlyFirst /\ EchoFits /\ Downwards /\ ~others
    BY <1>8 DEF MtuInv
  <2>2. /\ AnswerTo(mtu') \in Answers
        /\ IsEcho(AnswerTo(mtu')) <=> mtu' <= hop1 /\ mtu' <= hop2
        /\ Early(AnswerTo(mtu')) => hop1 < mtu'
    BY <1>1, <1>2, AnswerKinds
  <2>3. Len(replies) \in Nat /\ Len(replies') \in Nat
    BY <1>1, <1>2 DEF MtuShape
  <2>4. replies = <<>> \/ ~Early(AnswerTo(mtu'))
    <3>1. ASSUME NEW r \in Answers, hint = r.hint, ~IsEcho(r) PROVE ~Early(AnswerTo(mtu'))
      BY <1>1, <1>2, <2>2, <3>1 DEF Answers, IsEcho, Early, Route
    <3> QED
      BY <2>1, <3>1
  <2>5. EarlyFirst'
    <3>1. ASSUME NEW i \in 1..Len(replies') PROVE replies'[i] \in Answers
      BY <1>3, <1>8, <2>1, <2>2, <2>3 DEF EarlyFirst
    <3>2. ASSUME NEW j \in 1..Len(replies'), Early(replies'[j]), NEW i \in 1..j
          PROVE  Early(replies'[i])
      <4>1. CASE replies = <<>>
        <5>1. replies'[j] = AnswerTo(mtu') /\ replies'[i] = AnswerTo(mtu')
          BY <1>3, <1>8, <2>3, <4>1
        <5> QED
          BY <3>2, <5>1
      <4>2. CASE ~Early(AnswerTo(mtu'))
        <5>1. j \in 1..Len(replies)
          BY <1>3, <1>8, <2>3, <3>2, <4>2
        <5>2. replies'[i] = replies[i] /\ replies'[j] = replies[j]
          BY <1>3, <1>8, <2>3, <5>1
        <5> QED
          BY <2>1, <3>2, <5>1, <5>2 DEF EarlyFirst
      <4> QED
        BY <2>4, <4>1, <4>2
    <3> QED
      BY <1>6, <3>1, <3>2, SameRoute DEF EarlyFirst, Receives
  <2>6. EchoFits'
    <3> SUFFICES ASSUME EchoComes'
                 PROVE  Fits(mtu') /\ \A k \in 1..Len(replies') : ~Early(replies'[k])
      BY <1>2, <1>6, SameRoute DEF EchoFits, Receives
    <3>1. PICK i \in 1..Len(replies') : IsEcho(replies'[i])
      BY <1>6, SameRoute DEF EchoComes, Receives
    <3>2. CASE i > Len(replies)
      <4>1. replies'[i] = AnswerTo(mtu') /\ IsEcho(AnswerTo(mtu')) /\ mtu' <= limit
        BY <1>3, <1>8, <3>1, <3>2
      <4>2. mtu' <= hop1 /\ mtu' <= hop2 /\ ~Early(AnswerTo(mtu'))
        BY <2>2, <4>1 DEF IsEcho, Early
      <4>3. ASSUME NEW r \in Answers, hint = r.hint, ~IsEcho(r) PROVE ~Early(r)
        BY <1>1, <1>2, <4>2, <4>3 DEF Early, Route
      <4>4. \A k \in 1..Len(replies) : ~Early(replies[k])
        BY <2>1, <4>3
      <4>5. \A k \in 1..Len(replies') : ~Early(replies'[k])
        BY <1>3, <1>8, <2>3, <4>2, <4>4
      <4> QED
        BY <4>1, <4>2, <4>5 DEF Fits
    <3>3. CASE i <= Len(replies)
      <4>1. i \in 1..Len(replies) /\ IsEcho(replies[i])
        BY <1>3, <1>8, <2>3, <3>1, <3>3
      <4>2. EchoComes
        BY <4>1 DEF EchoComes
      <4>3. replies # <<>>
        BY <4>1
      <4>4. PICK r \in Answers : hint = r.hint /\ ~IsEcho(r) /\ ~Early(r)
        BY <2>1, <4>2, <4>3
      <4>5. ASSUME hinting PROVE Fits(mtu')
        BY <1>1, <1>2, <1>3, <1>8, <4>4, <4>5 DEF Answers, IsEcho, Fits, Route
      <4>6. ASSUME ~hinting PROVE Fits(mtu')
        <5>1. hint = 0
          BY <1>1, <4>4, <4>6 DEF Answers, IsEcho, Early
        <5>2. Fits(mtu) /\ current_mtu_idx > 1 /\ mtu = PACKET_MAXIMUMS[current_mtu_idx - 1]
          BY <2>1, <4>2, <4>6 DEF EchoFits, Downwards
        <5>3. mtu' <= mtu
          <6>1. /\ current_mtu_idx - 1 \in 1..10 /\ current_mtu_idx' - 1 \in 1..10
                /\ current_mtu_idx - 1 <= current_mtu_idx' - 1
            <7>1. current_mtu_idx \in 1..11 /\ current_mtu_idx' \in 2..11
              BY <1>1, <1>2 DEF MtuShape
            <7>2. current_mtu_idx < current_mtu_idx' /\ current_mtu_idx > 1
              BY <1>2, <5>1, <5>2
            <7>3. \A a \in 1..11, b \in 2..11 :
                    a < b /\ a > 1 => a - 1 \in 1..10 /\ b - 1 \in 1..10 /\ a - 1 <= b - 1
              OBVIOUS
            <7> QED
              BY <7>1, <7>2, <7>3
          <6> QED
            BY <1>2, <5>1, <5>2, <6>1, TableFalls
        <5> QED
          BY <1>1, <1>2, <5>2, <5>3 DEF Fits, Route, MtuShape
      <4>7. \A k \in 1..Len(replies') : ~Early(replies'[k])
        <5>1. \A k \in 1..Len(replies) : ~Early(replies[k])
          BY <2>1, <4>2 DEF EchoFits
        <5> QED
          BY <1>3, <1>8, <2>3, <2>4, <4>3, <5>1
      <4> QED
        BY <1>1, <4>5, <4>6, <4>7 DEF Route
    <3> QED
      BY <2>3, <3>2, <3>3
  <2>7. Downwards'
    <3> SUFFICES ASSUME ~hinting PROVE hint = 0
      BY <1>2 DEF Downwards, routeVars
    <3> QED
      BY <2>1 DEF Answers, IsEcho, Early
  <2> QED
    BY <2>5, <2>6, <2>7
<1> QED
  BY <1>4, <1>5, <1>7, <1>8 DEF MtuInv

(* The queue without its head. *)
LEMMA MtuTail ==
  ASSUME MtuInv, mtuQueue # <<>>
  PROVE  /\ Head(mtuQueue) = mtuQueue[1] /\ 1 \in 1..Len(mtuQueue)
         /\ Head(mtuQueue) \in MtuComps
         /\ Tail(mtuQueue) \in Seq(MtuComps) /\ Len(Tail(mtuQueue)) = Len(mtuQueue) - 1
         /\ Len(mtuQueue) \in Nat
         /\ \A i \in 1..Len(Tail(mtuQueue)) :
              Tail(mtuQueue)[i] = mtuQueue[i + 1] /\ i + 1 \in 1..Len(mtuQueue)
         /\ mtuAsks = 1 /\ mtuCalls = 0
<1>1. mtuQueue \in Seq(MtuComps)
  BY DEF MtuInv, MtuShape
<1>2. /\ Head(mtuQueue) = mtuQueue[1] /\ Head(mtuQueue) \in MtuComps
      /\ Tail(mtuQueue) \in Seq(MtuComps) /\ Len(Tail(mtuQueue)) = Len(mtuQueue) - 1
      /\ \A i \in 1..Len(Tail(mtuQueue)) : Tail(mtuQueue)[i] = mtuQueue[i + 1]
      /\ Len(mtuQueue) \in Nat /\ Len(mtuQueue) > 0
  BY <1>1, HeadTailProperties, EmptySeq, LenProperties
<1>3. mtuAsks = 1 /\ mtuCalls = 0
  BY DEF MtuInv, MtuOnce
<1> QED
  BY <1>2, <1>3


(* handle_recv: an echo reply or a foreign message ends the probing, a refusal *)
(* goes on with it.                                                           *)
LEMMA HandleRecvKeeps ==
  ASSUME MtuInv, ~broken, mtuQueue # <<>>, Head(mtuQueue).op = "recv",
         HandleRecv(Head(mtuQueue).arg),
         UNCHANGED <<routeVars, others, reported, mtuAsks, mtuCalls>>
  PROVE  MtuInv'
<1> DEFINE r == Head(mtuQueue).arg
<1>1. /\ Head(mtuQueue) = mtuQueue[1] /\ 1 \in 1..Len(mtuQueue) /\ Head(mtuQueue) \in MtuComps
      /\ mtuAsks = 1 /\ mtuCalls = 0
  BY MtuTail
<1>2. r \in Replies /\ Receives(mtuQueue[1])
  BY <1>1 DEF MtuComps, Receives
<1>3. ~others => r \in Answers
  BY <1>1, <1>2 DEF MtuInv, EarlyFirst
<1> HIDE DEF r
<1>4. CASE MtuNotify(IsEcho(r))
  <2>1. IsEcho(r) /\ ~others => Fits(mtu)
    BY <1>1, <1>2 DEF MtuInv, EchoFits, EchoComes, r
  <2>2. IsEcho(r) \in BOOLEAN
    BY DEF IsEcho
  <2> QED
    BY <1>1, <1>4, <2>1, <2>2, MtuNotifyKeeps
<1>5. CASE MtuNotify(FALSE)
  BY <1>1, <1>5, MtuNotifyKeeps
<1>6. CASE /\ ~IsEcho(r)
           /\ r.hint # 0 \/ current_mtu_idx \in Indices
           /\ SendSize(r.hint) /\ mtuQueue' = Tail(mtuQueue)
  <2>1. mtuQueue' \in Seq(MtuComps)
    BY <1>6, MtuTail
  <2>2. ASSUME NEW i \in 1..Len(mtuQueue') PROVE mtuQueue'[i].op \notin {"told", "recv"}
    <3>1. mtuQueue'[i] = mtuQueue[i + 1] /\ i + 1 \in 1..Len(mtuQueue) /\ i + 1 # 1
      BY <1>6, MtuTail
    <3>2. mtuQueue[i + 1].op # "recv"
      BY <1>1, <1>2, <3>1 DEF MtuInv, OneReceive, Receives
    <3>3. mtuQueue[i + 1].op # "told"
      BY <3>1, MtuTail DEF MtuInv, MtuOnce
    <3> QED
      BY <3>1, <3>2, <3>3
  <2>3. ~others => (EchoComes => ~Early(r))
    BY <1>1, <1>2 DEF MtuInv, EchoFits, r
  <2>4. r.hint \in Nat
    BY <1>2 DEF Replies
  <2>5. others \/ (~Early(r) => \A i \in 1..Len(replies) : ~Early(replies[i]))
    BY <1>1, <1>2 DEF MtuInv, EarlyFirst, r
  <2>6. others \/ \E a \in Answers :
                    /\ r.hint = a.hint /\ ~IsEcho(a) /\ (EchoComes => ~Early(a))
                    /\ ~Early(a) => \A i \in 1..Len(replies) : ~Early(replies[i])
    BY <1>3, <1>6, <2>3, <2>5
  <2> QED
    BY <1>1, <1>6, <2>1, <2>2, <2>4, <2>6, SendSizeKeeps
<1>7. \/ MtuNotify(IsEcho(r)) \/ MtuNotify(FALSE)
      \/ /\ ~IsEcho(r)
         /\ r.hint # 0 \/ current_mtu_idx \in Indices
         /\ SendSize(r.hint) /\ mtuQueue' = Tail(mtuQueue)
  BY DEF HandleRecv, SendEcho, r
<1> QED
  BY <1>4, <1>5, <1>6, <1>7

(* The caller's handler runs: nothing is left in the queue. *)
LEMMA HandlerToldKeeps ==
  ASSUME MtuInv, mtuQueue # <<>>, Head(mtuQueue).op = "told", HandlerTold(Head(mtuQueue).arg),
         UNCHANGED <<routeVars, others, mtuAsks>>
  PROVE  MtuInv'
<1> DEFINE v == Head(mtuQueue).arg
<1>1. /\ Head(mtuQueue) = mtuQueue[1] /\ 1 \in 1..Len(mtuQueue) /\ Head(mtuQueue) \in MtuComps
      /\ mtuAsks = 1 /\ mtuCalls = 0
  BY MtuTail
<1>2. v \in Reports /\ (v.echo /\ ~others => Fits(v.mtu))
  BY <1>1 DEF MtuComps, MtuInv, ToldFits
<1>3. Len(mtuQueue) = 1 /\ ~mtuWaits
  BY <1>1 DEF MtuInv, MtuOnce
<1>4. /\ mtuQueue' \in Seq(MtuComps) /\ Len(mtuQueue') = 0
      /\ mtuCalls' = 1 /\ reported' = v
      /\ UNCHANGED <<mtu, current_mtu_idx, mtuWaits, replies, broken>>
  BY <1>1, <1>3, MtuTail DEF HandlerTold
<1> HIDE DEF v
<1>5. mtuQueue' = <<>>
  BY <1>4, EmptySeq
<1>6. MtuShape'
  BY <1>2, <1>4, SameRoute DEF MtuInv, MtuShape
<1>7. MtuOnce' /\ OneReceive' /\ ToldFits'
  BY <1>1, <1>3, <1>4, <1>5 DEF MtuOnce, OneReceive, ToldFits
<1>8. MtuFits'
  BY <1>2, <1>4 DEF MtuFits, Fits, routeVars
<1>9. ASSUME ~others', ~broken' PROVE EarlyFirst' /\ EchoFits' /\ Downwards'
  <2>1. EarlyFirst /\ EchoFits /\ Downwards
    BY <1>4, <1>9 DEF MtuInv
  <2>2. EarlyFirst'
    BY <1>4, <2>1, SameRoute DEF EarlyFirst
  <2>3. EchoComes' => EchoComes
    BY <1>4, SameRoute DEF EchoComes
  <2>4. EchoFits' /\ Downwards'
    BY <1>4, <2>1, <2>3, SameRoute DEF EchoFits, Downwards, routeVars
  <2> QED
    BY <2>2, <2>4
<1> QED
  BY <1>6, <1>7, <1>8, <1>9 DEF MtuInv

(* The worker runs the first handler. *)
LEMMA MtuRunOneKeeps == ASSUME MtuInv, MtuRunOne PROVE MtuInv'
<1> DEFINE h == Head(mtuQueue)
<1>1. /\ ~broken /\ mtuQueue # <<>> /\ UNCHANGED <<routeVars, others, mtuAsks>>
      /\ \/ h.op = "told" /\ HandlerTold(h.arg)
         \/ /\ \/ h.op = "recv" /\ HandleRecv(h.arg)
               \/ h.op = "timer" /\ HandleTimeout
            /\ UNCHANGED <<mtuCalls, reported>>
  BY DEF MtuRunOne
<1>2. CASE h.op = "told" /\ HandlerTold(h.arg)
  BY <1>1, <1>2, HandlerToldKeeps
<1>3. CASE h.op = "recv" /\ HandleRecv(h.arg) /\ UNCHANGED <<mtuCalls, reported>>
  BY <1>1, <1>3, HandleRecvKeeps
<1>4. CASE HandleTimeout /\ UNCHANGED <<mtuCalls, reported>>
  <2>1. mtuAsks = 1 /\ mtuCalls = 0
    BY <1>1, MtuTail
  <2> QED
    BY <1>1, <1>4, <2>1, MtuNotifyKeeps DEF HandleTimeout
<1> QED
  BY <1>1, <1>2, <1>3, <1>4

(* create() and async_probe_mtu start from an empty queue. *)
LEMMA AsyncProbeMtuKeeps == ASSUME MtuInv, AsyncProbeMtu PROVE MtuInv'
<1>1. /\ mtuAsks = 0 /\ mtuAsks' = 1 /\ mtuCalls' = mtuCalls
      /\ UNCHANGED <<routeVars, others, reported>>
      /\ \/ current_mtu_idx \in Indices /\ SendSize(0) /\ mtuQueue' = <<>>
         \/ MtuNotify(FALSE)
  BY DEF AsyncProbeMtu, SendEcho
<1>2. mtuCalls = 0 /\ replies = <<>>
  BY <1>1 DEF MtuInv, MtuOnce
<1>3. CASE MtuNotify(FALSE)
  BY <1>1, <1>2, <1>3, MtuNotifyKeeps
<1>4. CASE current_mtu_idx \in Indices /\ SendSize(0) /\ mtuQueue' = <<>>
  <2> DEFINE none == 0
  <2>1. none \in Nat /\ none = 0
    OBVIOUS
  <2>2. SendSize(none)
    BY <1>4
  <2> HIDE DEF none
  <2>3. /\ mtuQueue' \in Seq(MtuComps)
        /\ \A i \in 1..Len(mtuQueue') : mtuQueue'[i].op \notin {"told", "recv"}
    BY <1>4
  <2>4. ~broken
    BY <1>1 DEF MtuInv, MtuOnce
  <2> QED
    BY <1>1, <1>2, <1>4, <2>1, <2>2, <2>3, <2>4, SendSizeKeeps
<1> QED
  BY <1>1, <1>3, <1>4

-----------------------------------------------------------------------------
(* Completions: the queue grows, while the receive or the timer is pending. *)
LEMMA MtuAppendKeeps ==
  ASSUME MtuInv, mtuWaits, NEW c \in MtuComps, c.op # "told",
         Receives(c) => \A i \in 1..Len(mtuQueue) : ~Receives(mtuQueue[i]),
         mtuQueue' = Append(mtuQueue, c), others' \in BOOLEAN, others => others',
         replies' \in Seq(Replies),
         UNCHANGED <<routeVars, mtu, current_mtu_idx, mtuWaits, broken, mtuAsks, mtuCalls, reported>>,
         ~others' /\ ~broken' => EarlyFirst' /\ EchoFits'
  PROVE  MtuInv'
<1>1. mtuQueue \in Seq(MtuComps) /\ MtuShape
  BY DEF MtuInv, MtuShape
<1>2. /\ mtuQueue' \in Seq(MtuComps) /\ Len(mtuQueue') = Len(mtuQueue) + 1
      /\ Len(mtuQueue) \in Nat /\ mtuQueue'[Len(mtuQueue) + 1] = c
      /\ \A i \in 1..Len(mtuQueue) : mtuQueue'[i] = mtuQueue[i]
  BY <1>1, AppendProperties
<1>3. MtuShape'
  BY <1>1, <1>2, SameRoute DEF MtuShape
<1>4. \A i \in 1..Len(mtuQueue) : mtuQueue[i].op # "told"
  BY DEF MtuInv, MtuOnce
<1>5. \A i \in 1..Len(mtuQueue') : mtuQueue'[i].op # "told"
  <2> TAKE i \in 1..Len(mtuQueue')
  <2>1. i \in 1..Len(mtuQueue) \/ i = Len(mtuQueue) + 1
    BY <1>2
  <2> QED
    BY <1>2, <1>4, <2>1
<1>6. MtuOnce'
  BY <1>5 DEF MtuInv, MtuOnce
<1>7. OneReceive'
  <2> SUFFICES ASSUME NEW i \in 1..Len(mtuQueue'), NEW j \in 1..Len(mtuQueue'),
                      Receives(mtuQueue'[i]), Receives(mtuQueue'[j])
               PROVE  i = j
    BY DEF OneReceive, Receives
  <2>1. /\ i \in 1..Len(mtuQueue) \/ i = Len(mtuQueue) + 1
        /\ j \in 1..Len(mtuQueue) \/ j = Len(mtuQueue) + 1
    BY <1>2
  <2> QED
    BY <1>2, <2>1 DEF MtuInv, OneReceive
<1>8. ToldFits' /\ MtuFits'
  BY <1>5 DEF ToldFits, MtuInv, MtuFits, routeVars
<1>9. ~others' /\ ~broken' => Downwards'
  BY DEF MtuInv, Downwards, routeVars
<1> QED
  BY <1>3, <1>6, <1>7, <1>8, <1>9 DEF MtuInv

(* The replies without the first. *)
LEMMA RepliesTail ==
  ASSUME replies \in Seq(Replies), replies # <<>>, replies' = Tail(replies)
  PROVE  /\ Head(replies) = replies[1] /\ 1 \in 1..Len(replies) /\ Head(replies) \in Replies
         /\ replies' \in Seq(Replies)
         /\ \A i \in 1..Len(replies') : replies'[i] = replies[i + 1] /\ i + 1 \in 1..Len(replies)
<1>1. /\ Head(replies) = replies[1] /\ Head(replies) \in Replies
      /\ Tail(replies) \in Seq(Replies) /\ Len(Tail(replies)) = Len(replies) - 1
      /\ \A i \in 1..Len(Tail(replies)) : Tail(replies)[i] = replies[i + 1]
      /\ Len(replies) \in Nat /\ Len(replies) > 0
  BY HeadTailProperties, EmptySeq, LenProperties
<1> QED
  BY <1>1

(* An answer that is lost leaves those behind it in order. *)
LEMMA ReplyLostKeeps == ASSUME MtuInv, ReplyLost PROVE MtuInv'
<1>1. /\ replies # <<>> /\ replies' = Tail(replies)
      /\ UNCHANGED <<routeVars, mtu, current_mtu_idx, mtuWaits, mtuQueue, others, broken, mtuAsks,
                     mtuCalls, reported>>
  BY DEF ReplyLost
<1>2. MtuShape
  BY DEF MtuInv
<1>3. /\ replies' \in Seq(Replies)
      /\ \A i \in 1..Len(replies') : replies'[i] = replies[i + 1] /\ i + 1 \in 1..Len(replies)
  BY <1>1, <1>2, RepliesTail DEF MtuShape
<1>4. MtuShape' /\ MtuOnce' /\ OneReceive' /\ MtuFits'
  BY <1>1, <1>2, <1>3, SameRoute
     DEF MtuInv, MtuShape, MtuOnce, OneReceive, Receives, MtuFits, routeVars
<1>5. ToldFits'
  BY <1>1, SameRoute DEF MtuInv, ToldFits
<1>6. ASSUME ~others', ~broken' PROVE EarlyFirst' /\ EchoFits' /\ Downwards'
  <2>1. EarlyFirst /\ EchoFits /\ Downwards
    BY <1>1, <1>6 DEF MtuInv
  <2>2. ASSUME NEW j \in 1..Len(replies'), Early(replies'[j])
        PROVE  /\ \A i \in 1..j : Early(replies'[i])
               /\ \A i \in 1..Len(mtuQueue) : Receives(mtuQueue[i]) => Early(mtuQueue[i].arg)
    <3>1. j + 1 \in 1..Len(replies) /\ Early(replies[j + 1])
      BY <1>3, <2>2
    <3>2. /\ \A i \in 1..j + 1 : Early(replies[i])
          /\ \A i \in 1..Len(mtuQueue) : Receives(mtuQueue[i]) => Early(mtuQueue[i].arg)
      BY <2>1, <3>1 DEF EarlyFirst
    <3>3. ASSUME NEW i \in 1..j PROVE Early(replies'[i])
      <4>1. i \in 1..Len(replies') /\ i + 1 \in 1..j + 1
        BY <1>3
      <4> QED
        BY <1>3, <3>2, <4>1
    <3> QED
      BY <3>2, <3>3
  <2>3. EarlyFirst'
    BY <1>1, <1>3, <2>1, <2>2, SameRoute DEF EarlyFirst, Receives
  <2>4. EchoComes' => EchoComes
    BY <1>1, <1>3, SameRoute DEF EchoComes, Receives
  <2>5. EchoFits' /\ Downwards'
    BY <1>1, <1>3, <2>1, <2>4, SameRoute DEF EchoFits, Downwards, Receives, routeVars
  <2> QED
    BY <2>3, <2>5
<1> QED
  BY <1>4, <1>5, <1>6 DEF MtuInv

(* The timer of the current probe expires. *)
LEMMA TimerExpiresKeeps == ASSUME MtuInv, TimerExpires PROVE MtuInv'
<1> DEFINE c == MtuHandler("timer", [type |-> "none", hint |-> 0])
<1>1. c \in MtuComps /\ c.op = "timer" /\ ~Receives(c)
  BY DEF MtuHandler, MtuComps, Replies, Receives
<1>2. /\ mtuWaits /\ mtuQueue' = Append(mtuQueue, c)
      /\ UNCHANGED <<routeVars, mtu, current_mtu_idx, mtuWaits, replies, others, broken, mtuAsks,
                     mtuCalls, reported>>
  BY DEF TimerExpires
<1> HIDE DEF c
<1>3. mtuQueue \in Seq(MtuComps) /\ others \in BOOLEAN /\ replies \in Seq(Replies)
  BY DEF MtuInv, MtuShape
<1>4. /\ \A i \in 1..Len(mtuQueue') : Receives(mtuQueue'[i]) =>
           i \in 1..Len(mtuQueue) /\ mtuQueue'[i] = mtuQueue[i]
      /\ \A i \in 1..Len(mtuQueue) : i \in 1..Len(mtuQueue') /\ mtuQueue'[i] = mtuQueue[i]
  <2>1. /\ Len(mtuQueue') = Len(mtuQueue) + 1 /\ Len(mtuQueue) \in Nat
        /\ mtuQueue'[Len(mtuQueue) + 1] = c
        /\ \A i \in 1..Len(mtuQueue) : mtuQueue'[i] = mtuQueue[i]
    BY <1>1, <1>2, <1>3, AppendProperties
  <2>2. ASSUME NEW i \in 1..Len(mtuQueue') PROVE i \in 1..Len(mtuQueue) \/ i = Len(mtuQueue) + 1
    BY <2>1
  <2> QED
    BY <1>1, <2>1, <2>2
<1>5. ASSUME ~others', ~broken' PROVE EarlyFirst' /\ EchoFits'
  <2>1. EarlyFirst /\ EchoFits
    BY <1>2, <1>5 DEF MtuInv
  <2>2. EarlyFirst'
    BY <1>2, <1>4, <2>1, SameRoute DEF EarlyFirst, Receives
  <2>3. EchoComes' => EchoComes
    BY <1>2, <1>4, SameRoute DEF EchoComes, Receives
  <2>4. EchoFits'
    BY <1>2, <1>4, <2>1, <2>3, SameRoute DEF EchoFits, Receives
  <2> QED
    BY <2>2, <2>4
<1> QED
  BY <1>1, <1>2, <1>3, <1>5, MtuAppendKeeps

(* What the raw socket receives is the next answer, or the message of another. *)
LEMMA ReplyArrivesKeeps == ASSUME MtuInv, ReplyArrives PROVE MtuInv'
<1>1. /\ mtuWaits /\ \A i \in 1..Len(mtuQueue) : ~Receives(mtuQueue[i])
      /\ UNCHANGED <<routeVars, mtu, current_mtu_idx, mtuWaits, broken, mtuAsks, mtuCalls, reported>>
  <2>1. DOMAIN mtuQueue = 1..Len(mtuQueue)
    BY LenProperties DEF MtuInv, MtuShape
  <2> QED
    BY <2>1 DEF ReplyArrives, Receiving, Receives
<1>2. mtuQueue \in Seq(MtuComps) /\ others \in BOOLEAN /\ replies \in Seq(Replies)
  BY DEF MtuInv, MtuShape
<1>3. CASE /\ replies # <<>> /\ mtuQueue' = Append(mtuQueue, MtuHandler("recv", Head(replies)))
           /\ replies' = Tail(replies) /\ others' = others
  <2> DEFINE r == Head(replies)
             c == MtuHandler("recv", r)
  <2>1. /\ r = replies[1] /\ 1 \in 1..Len(replies) /\ r \in Replies /\ replies' \in Seq(Replies)
        /\ \A i \in 1..Len(replies') : replies'[i] = replies[i + 1] /\ i + 1 \in 1..Len(replies)
    BY <1>2, <1>3, RepliesTail
  <2> HIDE DEF r
  <2>2. c \in MtuComps /\ c.op = "recv" /\ c.arg = r
    BY <2>1 DEF MtuHandler, MtuComps
  <2>3. mtuQueue' = Append(mtuQueue, c)
    BY <1>3 DEF r
  <2> HIDE DEF c
  <2>4. /\ \A i \in 1..Len(mtuQueue') : Receives(mtuQueue'[i]) => mtuQueue'[i] = c
        /\ Len(mtuQueue') \in Nat
    <3>1. /\ Len(mtuQueue') = Len(mtuQueue) + 1 /\ Len(mtuQueue) \in Nat
          /\ mtuQueue'[Len(mtuQueue) + 1] = c
          /\ \A i \in 1..Len(mtuQueue) : mtuQueue'[i] = mtuQueue[i]
      BY <1>2, <2>2, <2>3, AppendProperties
    <3>2. ASSUME NEW i \in 1..Len(mtuQueue') PROVE i \in 1..Len(mtuQueue) \/ i = Len(mtuQueue) + 1
      BY <3>1
    <3> QED
      BY <1>1, <3>1, <3>2
  <2>5. ASSUME ~others', ~broken' PROVE EarlyFirst' /\ EchoFits'
    <3>1. EarlyFirst /\ EchoFits
      BY <1>1, <1>3, <2>5 DEF MtuInv
    <3>2. ASSUME NEW j \in 1..Len(replies'), Early(replies'[j])
          PROVE  Early(r) /\ \A i \in 1..j : Early(replies'[i])
      <4>1. j + 1 \in 1..Len(replies) /\ Early(replies[j + 1])
        BY <2>1, <3>2
      <4>2. \A i \in 1..j + 1 : Early(replies[i])
        BY <3>1, <4>1 DEF EarlyFirst
      <4>3. ASSUME NEW i \in 1..j PROVE Early(replies'[i])
        <5>1. i \in 1..Len(replies') /\ i + 1 \in 1..j + 1
          OBVIOUS
        <5> QED
          BY <2>1, <4>2, <5>1
      <4> QED
        BY <2>1, <4>2, <4>3
    <3>3. EarlyFirst'
      BY <1>1, <2>1, <2>2, <2>4, <3>1, <3>2, SameRoute DEF EarlyFirst, Receives
    <3>4. EchoComes' => EchoComes
      BY <1>1, <2>1, <2>2, <2>4, SameRoute DEF EchoComes, Receives
    <3>5. EchoComes' => ~Early(r)
      <4>1. SUFFICES ASSUME EchoComes', Early(r) PROVE FALSE
        OBVIOUS
      <4>2. \A i \in 1..Len(replies) : ~Early(replies[i])
        BY <3>1, <3>4, <4>1 DEF EchoFits
      <4> QED
        BY <2>1, <4>1, <4>2
    <3>6. EchoFits'
      BY <1>1, <2>1, <2>2, <2>4, <3>1, <3>4, <3>5, SameRoute DEF EchoFits, Receives
    <3> QED
      BY <3>3, <3>6
  <2>6. Receives(c)
    BY <2>2 DEF Receives
  <2> QED
    BY <1>1, <1>2, <1>3, <2>1, <2>2, <2>3, <2>5, MtuAppendKeeps
<1>4. ASSUME NEW type \in {"echo", "other"},
             mtuQueue' = Append(mtuQueue, MtuHandler("recv", [type |-> type, hint |-> 0])),
             others' = TRUE, replies' = replies
      PROVE  MtuInv'
  <2> DEFINE c == MtuHandler("recv", [type |-> type, hint |-> 0])
  <2>1. c \in MtuComps /\ c.op # "told"
    BY DEF MtuHandler, MtuComps, Replies
  <2>2. mtuQueue' = Append(mtuQueue, c)
    BY <1>4
  <2> HIDE DEF c
  <2> QED
    BY <1>1, <1>2, <1>4, <2>1, <2>2, MtuAppendKeeps
<1> QED
  BY <1>3, <1>4 DEF ReplyArrives

-----------------------------------------------------------------------------
(* The prober starts with no route probed. *)
LEMMA MtuInitInv == MtuInit => MtuInv
<1> SUFFICES ASSUME MtuInit PROVE MtuInv
  OBVIOUS
<1>1. MtuShape
  <2>1. Route
    BY MtuAssumption DEF MtuInit, Route
  <2>2. mtu \in Nat /\ current_mtu_idx \in 1..11
    BY DEF MtuInit
  <2>4. mtuWaits \in BOOLEAN /\ others \in BOOLEAN /\ broken \in BOOLEAN
    BY DEF MtuInit
  <2>3. replies \in Seq(Replies) /\ mtuQueue \in Seq(MtuComps) /\ reported \in Reports
    BY DEF MtuInit, Reports
  <2> QED
    BY <2>1, <2>2, <2>3, <2>4 DEF MtuShape
<1>2. MtuOnce /\ OneReceive /\ ToldFits /\ MtuFits
  BY DEF MtuInit, MtuOnce, OneReceive, ToldFits, MtuFits
<1>3. EarlyFirst /\ EchoFits /\ Downwards
  BY DEF MtuInit, EarlyFirst, EchoFits, EchoComes, Downwards
<1> QED
  BY <1>1, <1>2, <1>3 DEF MtuInv

(* Every handler and completion of the prober keeps the order of the answers. *)
LEMMA MtuNextInv == MtuInv /\ [MtuNext]_mtuVars => MtuInv'
<1> SUFFICES ASSUME MtuInv, [MtuNext]_mtuVars PROVE MtuInv'
  OBVIOUS
<1>1. CASE UNCHANGED mtuVars
  <2>1. UNCHANGED routeVars /\ UNCHANGED mtuVars
    BY <1>1 DEF mtuVars, routeVars
  <2>2. MtuShape' /\ MtuOnce' /\ OneReceive' /\ MtuFits'
    BY <2>1, SameRoute
       DEF mtuVars, MtuInv, MtuShape, MtuOnce, OneReceive, Receives, MtuFits, routeVars
  <2>3. ToldFits'
    BY <2>1, SameRoute DEF mtuVars, MtuInv, ToldFits
  <2>4. ~others /\ ~broken => EarlyFirst' /\ Downwards'
    BY <2>1, SameRoute DEF mtuVars, MtuInv, EarlyFirst, Downwards, Receives, routeVars
  <2>5. EchoComes' <=> EchoComes
    BY <2>1, SameRoute DEF mtuVars, EchoComes, Receives
  <2>6. ~others /\ ~broken => EchoFits'
    BY <2>1, <2>5, SameRoute DEF mtuVars, MtuInv, EchoFits, Receives
  <2> QED
    BY <2>1, <2>2, <2>3, <2>4, <2>6 DEF mtuVars, MtuInv
<1> QED
  BY <1>1, AsyncProbeMtuKeeps, MtuRunOneKeeps, ReplyArrivesKeeps, ReplyLostKeeps, TimerExpiresKeeps
     DEF MtuNext

(* A size that is reported because of an echo reply passes every router and the   *)
(* interface, for any route, interface and number of copies, although a router    *)
(* still refuses the copies of earlier probes and handle_recv sets mtu_ for the   *)
(* later ones.                                                                    *)
THEOREM MtuFitsAlways == MtuSpec => []MtuFits
<1>1. MtuInv => MtuFits
  BY DEF MtuInv
<1> QED
  BY MtuInitInv, MtuNextInv, <1>1, PTL DEF MtuSpec

(* async_probe_mtu calls its handler at most once: every step of the prober is a *)
(* step of OneShot or leaves what the caller sees alone.                         *)
THEOREM MtuOneShotSafe ==
  MtuSpec => MtuShot!OneInit /\ [][MtuShot!Ask \/ MtuShot!Answer]_(MtuShot!oneVars)
<1>1. MtuInit => MtuShot!OneInit
  BY DEF MtuInit, MtuShot!OneInit
<1>2. MtuInv /\ [MtuNext]_mtuVars => [MtuShot!Ask \/ MtuShot!Answer]_(MtuShot!oneVars)
  <2> SUFFICES ASSUME MtuInv, [MtuNext]_mtuVars
               PROVE  MtuShot!Ask \/ MtuShot!Answer \/ UNCHANGED <<mtuAsks, mtuCalls>>
    BY DEF MtuShot!oneVars
  <2>1. CASE AsyncProbeMtu
    BY <2>1 DEF AsyncProbeMtu, MtuInv, MtuOnce, MtuShot!Ask
  <2>2. CASE MtuRunOne
    <3>1. mtuAsks = 1 /\ mtuCalls = 0
      BY <2>2, MtuTail DEF MtuRunOne
    <3> QED
      BY <2>2, <3>1 DEF MtuRunOne, HandlerTold, MtuShot!Answer
  <2> QED
    BY <2>1, <2>2 DEF MtuNext, mtuVars, ReplyArrives, ReplyLost, TimerExpires
<1> QED
  BY MtuInitInv, MtuNextInv, <1>1, <1>2, PTL DEF MtuSpec

-----------------------------------------------------------------------------
(* Hole punching. *)

(* There are two ends. *)
LEMMA TwoEnds ==
  \A x \in Ends : Peer(x) \in Ends /\ Peer(x) # x /\ Peer(Peer(x)) = x
<1>1. IsFiniteSet(Ends) /\ Cardinality(Ends) = 2
  BY PunchAssumption
<1> SUFFICES ASSUME NEW x \in Ends PROVE Peer(x) \in Ends /\ Peer(x) # x /\ Peer(Peer(x)) = x
  OBVIOUS
<1>2. IsFiniteSet(Ends \ {x}) /\ Cardinality(Ends \ {x}) = 1
  BY <1>1, FS_RemoveElement
<1>3. PICK y : Ends \ {x} = {y}
  BY <1>2, FS_Singleton
<1>4. \A z \in Ends : z # x => z = y
  BY <1>3
<1>5. y \in Ends /\ y # x
  BY <1>3
<1>6. Peer(x) = y
  BY <1>4, <1>5 DEF Peer
<1>7. \A z \in Ends : z # y => z = x
  BY <1>4
<1>8. Peer(y) = x
  BY <1>5, <1>7 DEF Peer
<1> QED
  BY <1>5, <1>6, <1>8

(* The part of the types that the argument needs, and the endpoints of an end    *)
(* that has started are in some state of the handshake.                          *)
PunchShape ==
  /\ state \in [Ends -> [Paths -> States]]
  /\ peer_eps \in [Ends -> SUBSET Paths]
  /\ last_error \in [Ends -> {"none", "error", "timed_out"}]
  /\ posted \in [Ends -> Seq(Outcomes)]
  /\ outcomes \in [Ends -> SUBSET Outcomes]
  /\ datagrams \subseteq Messages
  /\ heard \in [Ends -> SUBSET Paths]
  /\ \A x \in Ends : \A p \in peer_eps[x] : state[x][p] # "CLOSED"

Open == {"SYN_RECEIVED", "ESTABLISHED"}

(* A path is opened by a SYN, and established by an ACK, which only an end that  *)
(* has had a SYN sends.                                                          *)
Opened ==
  \A x \in Ends, p \in Paths :
    /\ state[x][p] \in Open => p \in heard[x]
    /\ state[x][p] = "ESTABLISHED" => p \in heard[Peer(x)]

Acks == \A m \in datagrams : "ACK" \in m.flags => m.path \in heard[Peer(m.to)]

(* What PunchAgreement says of one outcome, and the same for those still posted. *)
Agreed(h, x, o) ==
  /\ \A p \in o.eps : p \in h[x] /\ p \in h[Peer(x)]
  /\ o.e = "none" => o.eps # {}

PostedAgreed == \A x \in Ends : \A i \in 1..Len(posted[x]) : Agreed(heard, x, posted[x][i])

PunchInv == PunchShape /\ Opened /\ Acks /\ PostedAgreed /\ PunchAgreement

-----------------------------------------------------------------------------
(* What output() sends. *)
LEMMA OutputMessages ==
  ASSUME NEW x \in Ends, NEW s \in [Paths -> States], NEW eps \in SUBSET Paths,
         \A p \in eps : s[p] # "CLOSED", NEW m \in Output(x, s, eps)
  PROVE  /\ m \in Messages /\ m.to = Peer(x) /\ m.path \in Paths
         /\ "ACK" \in m.flags => s[m.path] \in Open
<1>1. PICK p \in eps : m = [to |-> Peer(x), path |-> p, flags |-> FlagsOf(s[p])]
  BY DEF Output
<1>2. s[p] \in {"SYN_SENT", "SYN_RECEIVED", "ESTABLISHED"} /\ p \in Paths
  BY DEF States
<1>3. FlagsOf(s[p]) \in Flags /\ ("ACK" \in FlagsOf(s[p]) => s[p] \in Open)
  BY <1>2 DEF FlagsOf, Flags, Open
<1>4. Peer(x) \in Ends
  BY TwoEnds
<1> QED
  BY <1>1, <1>2, <1>3, <1>4 DEF Messages

(* A step on the datagrams: those that stay, and the output of one end. *)
LEMMA AcksNext ==
  ASSUME NEW x \in Ends, NEW s \in [Paths -> States], NEW eps \in SUBSET Paths,
         \A p \in eps : s[p] # "CLOSED",
         NEW kept \in SUBSET datagrams, NEW new \in SUBSET Output(x, s, eps),
         datagrams' = kept \cup new, datagrams \subseteq Messages, Acks,
         \A y \in Ends : heard[y] \subseteq heard'[y],
         \A p \in Paths : s[p] \in Open => p \in heard'[x]
  PROVE  datagrams' \subseteq Messages /\ Acks'
<1>1. \A m \in new : m \in Messages /\ m.to = Peer(x) /\ m.path \in Paths
                     /\ ("ACK" \in m.flags => s[m.path] \in Open)
  BY OutputMessages
<1>2. \A m \in Messages : m.to \in Ends
  BY DEF Messages
<1>3. ASSUME NEW m \in datagrams', "ACK" \in m.flags PROVE m.path \in heard'[Peer(m.to)]
  <2>1. CASE m \in kept
    BY <1>2, <1>3, <2>1, TwoEnds DEF Acks
  <2>2. CASE m \in new
    <3>1. Peer(m.to) = x /\ m.path \in Paths /\ s[m.path] \in Open
      BY <1>1, <1>3, <2>2, TwoEnds
    <3> QED
      BY <3>1
  <2> QED
    BY <2>1, <2>2
<1> QED
  BY <1>1, <1>3 DEF Acks

(* What has been agreed stays so, because what was heard stays heard. *)
LEMMA AgreedStays ==
  ASSUME NEW x \in Ends, NEW o, NEW h, NEW g, Agreed(h, x, o),
         \A y \in Ends : h[y] \subseteq g[y]
  PROVE  Agreed(g, x, o)
BY TwoEnds DEF Agreed

(* What notify() posts. *)
LEMMA NotifyNext ==
  ASSUME NEW x \in Ends, NEW s \in [Paths -> States], NEW eps \in SUBSET Paths,
         NEW e \in {"none", "error", "timed_out"},
         HpNotify(x, s, eps, e), posted \in [Ends -> Seq(Outcomes)], PostedAgreed,
         \A y \in Ends : heard[y] \subseteq heard'[y],
         \A p \in Paths : s[p] = "ESTABLISHED" => p \in heard'[x] /\ p \in heard'[Peer(x)],
         e = "none" => Established(s, eps) # {}
  PROVE  posted' \in [Ends -> Seq(Outcomes)] /\ PostedAgreed'
<1> DEFINE o == [e |-> e, eps |-> Established(s, eps)]
<1>1. o \in Outcomes /\ Agreed(heard', x, o)
  BY DEF Outcomes, Established, Agreed
<1> HIDE DEF o
<1>2. posted' = [posted EXCEPT ![x] = Append(@, o)]
  BY DEF HpNotify, o
<1>3. posted' \in [Ends -> Seq(Outcomes)]
  BY <1>1, <1>2
<1>4. ASSUME NEW y \in Ends, NEW i \in 1..Len(posted'[y]) PROVE Agreed(heard', y, posted'[y][i])
  <2>1. CASE y # x
    <3>1. posted'[y] = posted[y]
      BY <1>2, <2>1
    <3>2. Agreed(heard, y, posted[y][i])
      BY <1>4, <3>1 DEF PostedAgreed
    <3> QED
      BY <3>1, <3>2, AgreedStays
  <2>2. CASE y = x
    <3>1. /\ Len(posted'[x]) = Len(posted[x]) + 1 /\ posted'[x][Len(posted[x]) + 1] = o
          /\ \A j \in 1..Len(posted[x]) : posted'[x][j] = posted[x][j]
          /\ Len(posted[x]) \in Nat
      BY <1>1, <1>2, AppendProperties
    <3>2. CASE i = Len(posted[x]) + 1
      BY <1>1, <2>2, <3>1, <3>2
    <3>3. CASE i \in 1..Len(posted[x])
      <4>1. Agreed(heard, x, posted[x][i])
        BY <3>3 DEF PostedAgreed
      <4> QED
        BY <2>2, <3>1, <3>3, <4>1, AgreedStays
    <3> QED
      BY <1>4, <2>2, <3>1, <3>2, <3>3
  <2> QED
    BY <2>1, <2>2
<1> QED
  BY <1>3, <1>4 DEF PostedAgreed
(* handle_peer_resp: what a datagram does to the state of its endpoint. *)
LEMMA NextStateFacts ==
  ASSUME NEW s \in States, NEW f \in Flags
  PROVE  /\ NextState(s, f) \in States
         /\ s # "CLOSED" => NextState(s, f) # "CLOSED"
         /\ NextState(s, f) \in Open => s \in Open \/ "SYN" \in f
         /\ NextState(s, f) = "ESTABLISHED" => s = "ESTABLISHED" \/ "ACK" \in f
BY DEF NextState, States, Flags, Open

(* Steps that leave the handshake alone. *)
LEMMA SameHandshake ==
  ASSUME PunchInv, UNCHANGED <<state, heard, outcomes>>
  PROVE  Opened' /\ PunchAgreement'
BY DEF PunchInv, Opened, PunchAgreement

-----------------------------------------------------------------------------
(* Before the calls of async_hole_punch nothing is on its way. *)
LEMMA PunchInitInv == PunchInit => PunchInv
<1> SUFFICES ASSUME PunchInit PROVE PunchInv
  OBVIOUS
<1>1. PunchShape
  <2>1. <<>> \in Seq(Outcomes)
    OBVIOUS
  <2> QED
    BY <2>1 DEF PunchInit, PunchShape, States
<1>2. Opened
  BY DEF PunchInit, Opened, Open
<1>3. Acks /\ PunchAgreement
  BY DEF PunchInit, Acks, PunchAgreement
<1>4. PostedAgreed
  BY DEF PunchInit, PostedAgreed
<1> QED
  BY <1>1, <1>2, <1>3, <1>4 DEF PunchInv

(* async_hole_punch sends the first SYN of an end. *)
LEMMA AsyncHolePunchInv ==
  ASSUME PunchInv, NEW x \in Ends, AsyncHolePunch(x)
  PROVE  PunchInv'
<1> USE DEF PunchInv
<1>1. PICK eps \in SUBSET Paths \ {{}} :
        LET s == [p \in Paths |-> IF p \in eps THEN "SYN_SENT" ELSE "CLOSED"]
        IN /\ state' = [state EXCEPT ![x] = s]
           /\ peer_eps' = [peer_eps EXCEPT ![x] = eps]
           /\ datagrams' = datagrams \cup Output(x, s, eps)
  BY DEF AsyncHolePunch
<1> DEFINE s == [p \in Paths |-> IF p \in eps THEN "SYN_SENT" ELSE "CLOSED"]
<1>2. /\ state' = [state EXCEPT ![x] = s] /\ peer_eps' = [peer_eps EXCEPT ![x] = eps]
      /\ datagrams' = datagrams \cup Output(x, s, eps)
      /\ UNCHANGED <<last_error, posted, outcomes, heard>>
  BY <1>1 DEF AsyncHolePunch
<1>3. /\ s \in [Paths -> States] /\ \A p \in eps : s[p] # "CLOSED"
      /\ \A p \in Paths : s[p] \notin Open
  BY DEF States, Open
<1> HIDE DEF s
<1>4. datagrams' \subseteq Messages /\ Acks'
  <2>1. \A y \in Ends : heard[y] \subseteq heard'[y]
    BY <1>2
  <2>2. datagrams \subseteq Messages
    BY DEF PunchShape
  <2> QED
    BY <1>2, <1>3, <2>1, <2>2, AcksNext, Zenon
<1>5. PunchShape'
  BY <1>2, <1>3, <1>4 DEF PunchShape
<1>6. Opened'
  BY <1>2, <1>3 DEF Opened, Open, PunchShape
<1>7. PostedAgreed' /\ PunchAgreement'
  BY <1>2 DEF PostedAgreed, PunchAgreement
<1> QED
  BY <1>4, <1>5, <1>6, <1>7

(* handle_async_receive: a SYN is answered, an ACK may finish the punch. *)
LEMMA HpReceiveInv ==
  ASSUME PunchInv, NEW m \in datagrams, HpReceive(m)
  PROVE  PunchInv'
<1> USE DEF PunchInv
<1> DEFINE x == m.to
           p == m.path
           s == [state[x] EXCEPT ![p] = NextState(@, m.flags)]
<1>1. x \in Ends /\ p \in Paths /\ m.flags \in Flags /\ datagrams \subseteq Messages
  BY DEF PunchShape, Messages
<1>2. UNCHANGED <<peer_eps, last_error, outcomes>>
  BY DEF HpReceive
<1>3. CASE p \notin peer_eps[x]
  <2>1. datagrams' = datagrams \ {m} /\ UNCHANGED <<state, posted, heard>>
    BY <1>3 DEF HpReceive
  <2>2. PunchShape' /\ Acks' /\ PostedAgreed'
    BY <1>2, <2>1 DEF PunchShape, Acks, PostedAgreed
  <2> QED
    BY <1>2, <2>1, <2>2, SameHandshake
<1>4. CASE p \in peer_eps[x]
  <2>1. /\ state' = [state EXCEPT ![x] = s]
        /\ datagrams' = (datagrams \ {m}) \cup (IF NeedOutput(state[x][p], m.flags)
                                               THEN Output(x, s, peer_eps[x]) ELSE {})
        /\ heard' = [heard EXCEPT ![x] = IF "SYN" \in m.flags THEN @ \cup {p} ELSE @]
        /\ \/ s[p] = "ESTABLISHED" /\ HpNotify(x, s, peer_eps[x], last_error[x])
           \/ UNCHANGED posted
    BY <1>4 DEF HpReceive
  <2>2. state[x] \in [Paths -> States] /\ state[x][p] \in States /\ state[x][p] # "CLOSED"
    BY <1>1, <1>4 DEF PunchShape
  <2>3. /\ s \in [Paths -> States] /\ s[p] = NextState(state[x][p], m.flags)
        /\ \A q \in Paths \ {p} : s[q] = state[x][q]
    BY <1>1, <2>2, NextStateFacts
  <2>4. \A q \in peer_eps[x] : s[q] # "CLOSED"
    BY <1>1, <2>2, <2>3, NextStateFacts DEF PunchShape
  <2>5. heard' \in [Ends -> SUBSET Paths] /\ \A y \in Ends : heard[y] \subseteq heard'[y]
    BY <1>1, <2>1 DEF PunchShape
  <2>6. "SYN" \in m.flags => p \in heard'[x]
    BY <1>1, <2>1 DEF PunchShape
  <2>7. "ACK" \in m.flags => p \in heard[Peer(x)]
    BY DEF Acks
  <2>8. \A q \in Paths : /\ s[q] \in Open => q \in heard'[x]
                         /\ s[q] = "ESTABLISHED" => q \in heard'[Peer(x)]
    <3>1. \A q \in Paths : /\ state[x][q] \in Open => q \in heard'[x]
                           /\ state[x][q] = "ESTABLISHED" => q \in heard'[Peer(x)]
      BY <1>1, <2>5, TwoEnds DEF Opened
    <3>2. /\ s[p] \in Open => p \in heard'[x]
          /\ s[p] = "ESTABLISHED" => p \in heard'[Peer(x)]
      BY <1>1, <2>2, <2>3, <2>5, <2>6, <2>7, <3>1, NextStateFacts, TwoEnds
    <3> QED
      BY <2>3, <3>1, <3>2
  <2> HIDE DEF s
  <2>9. datagrams' \subseteq Messages /\ Acks'
    <3>1. PICK new \in SUBSET Output(x, s, peer_eps[x]) : datagrams' = (datagrams \ {m}) \cup new
      BY <2>1
    <3>2. datagrams \ {m} \in SUBSET datagrams /\ peer_eps[x] \in SUBSET Paths
      BY <1>1 DEF PunchShape
    <3> HIDE DEF x, p
    <3> QED
      BY <1>1, <2>3, <2>4, <2>5, <2>8, <3>1, <3>2, AcksNext, Zenon
  <2>10. Opened'
    <3> SUFFICES ASSUME NEW y \in Ends, NEW q \in Paths
                 PROVE  /\ state'[y][q] \in Open => q \in heard'[y]
                        /\ state'[y][q] = "ESTABLISHED" => q \in heard'[Peer(y)]
      BY DEF Opened
    <3>1. CASE y = x
      <4>1. state'[y][q] = s[q]
        BY <1>1, <2>1, <3>1 DEF PunchShape
      <4> QED
        BY <2>8, <3>1, <4>1
    <3>2. CASE y # x
      <4>1. state'[y][q] = state[y][q]
        BY <2>1, <3>2 DEF PunchShape
      <4> QED
        BY <2>5, <4>1, TwoEnds DEF Opened
    <3> QED
      BY <3>1, <3>2
  <2>11. posted' \in [Ends -> Seq(Outcomes)] /\ PostedAgreed'
    <3>1. CASE UNCHANGED posted
      <4>1. posted' \in [Ends -> Seq(Outcomes)]
        BY <3>1 DEF PunchShape
      <4>2. ASSUME NEW y \in Ends, NEW i \in 1..Len(posted'[y])
            PROVE  Agreed(heard', y, posted'[y][i])
        BY <2>5, <3>1, <4>2, AgreedStays DEF PostedAgreed
      <4> QED
        BY <4>1, <4>2 DEF PostedAgreed
    <3>2. CASE s[p] = "ESTABLISHED" /\ HpNotify(x, s, peer_eps[x], last_error[x])
      <4>1. /\ peer_eps[x] \in SUBSET Paths /\ last_error[x] \in {"none", "error", "timed_out"}
            /\ posted \in [Ends -> Seq(Outcomes)]
        BY <1>1 DEF PunchShape
      <4>2. last_error[x] = "none" => Established(s, peer_eps[x]) # {}
        BY <1>4, <3>2 DEF Established
      <4>3. \A q \in Paths : s[q] = "ESTABLISHED" => q \in heard'[x] /\ q \in heard'[Peer(x)]
        BY <2>8 DEF Open
      <4>4. HpNotify(x, s, peer_eps[x], last_error[x]) /\ PostedAgreed
        BY <3>2
      <4>5. \A y \in Ends : heard[y] \subseteq heard'[y]
        BY <2>5
      <4>6. x \in Ends /\ s \in [Paths -> States]
        BY <1>1, <2>3
      <4>7. PICK z \in Ends, t \in [Paths -> States] : z = x /\ t = s
        BY <4>6
      <4>8. /\ HpNotify(z, t, peer_eps[z], last_error[z]) /\ peer_eps[z] \in SUBSET Paths
            /\ last_error[z] \in {"none", "error", "timed_out"}
            /\ last_error[z] = "none" => Established(t, peer_eps[z]) # {}
            /\ \A q \in Paths : t[q] = "ESTABLISHED" => q \in heard'[z] /\ q \in heard'[Peer(z)]
        BY <4>1, <4>2, <4>3, <4>4, <4>7
      <4> QED
        BY <4>1, <4>4, <4>5, <4>8, NotifyNext
    <3> QED
      BY <2>1, <3>1, <3>2
  <2>12. PunchShape'
    BY <1>1, <1>2, <2>1, <2>3, <2>4, <2>5, <2>9, <2>11 DEF PunchShape
  <2>13. PunchAgreement'
    <3> SUFFICES ASSUME NEW y \in Ends, NEW o \in outcomes[y] PROVE Agreed(heard', y, o)
      BY <1>2 DEF PunchAgreement, Agreed
    <3>1. Agreed(heard, y, o)
      BY DEF PunchAgreement, Agreed
    <3> QED
      BY <2>5, <3>1, AgreedStays
  <2> QED
    BY <2>9, <2>10, <2>11, <2>12, <2>13
<1> QED
  BY <1>3, <1>4

(* An error of the socket erases an endpoint, the last of which ends the punch. *)
LEMMA ReceiveErrorInv ==
  ASSUME PunchInv, NEW x \in Ends, ReceiveError(x)
  PROVE  PunchInv'
<1> USE DEF PunchInv
<1>1. PICK p \in peer_eps[x] :
        /\ peer_eps' = [peer_eps EXCEPT ![x] = @ \ {p}]
        /\ \/ /\ last_error' = [last_error EXCEPT ![x] = "error"]
              /\ HpNotify(x, state[x], peer_eps[x] \ {p}, "error")
           \/ UNCHANGED <<last_error, posted>>
  BY DEF ReceiveError
<1>2. UNCHANGED <<state, outcomes, datagrams, heard>>
  BY DEF ReceiveError
<1>3. posted' \in [Ends -> Seq(Outcomes)] /\ PostedAgreed'
  <2>1. CASE UNCHANGED posted
    BY <1>2, <2>1 DEF PunchShape, PostedAgreed
  <2>2. CASE HpNotify(x, state[x], peer_eps[x] \ {p}, "error")
    <3>1. /\ state[x] \in [Paths -> States] /\ peer_eps[x] \ {p} \in SUBSET Paths
          /\ posted \in [Ends -> Seq(Outcomes)] /\ "error" \in {"none", "error", "timed_out"}
      BY DEF PunchShape
    <3>2. /\ \A y \in Ends : heard[y] \subseteq heard'[y]
          /\ \A q \in Paths : state[x][q] = "ESTABLISHED" =>
                                q \in heard'[x] /\ q \in heard'[Peer(x)]
      BY <1>2 DEF Opened, Open
    <3>3. "error" # "none"
      OBVIOUS
    <3> QED
      BY <2>2, <3>1, <3>2, <3>3, NotifyNext
  <2> QED
    BY <1>1, <2>1, <2>2
<1>4. PunchShape' /\ Acks'
  BY <1>1, <1>2, <1>3 DEF PunchShape, Acks
<1> QED
  BY <1>2, <1>3, <1>4, SameHandshake

(* handle_async_timeout sends the SYN once more or gives up. *)
LEMMA HandleAsyncTimeoutInv ==
  ASSUME PunchInv, NEW x \in Ends, HandleAsyncTimeout(x)
  PROVE  PunchInv'
<1> USE DEF PunchInv
<1>1. /\ datagrams' = datagrams \cup Output(x, state[x], peer_eps[x])
      /\ \/ /\ last_error' = [last_error EXCEPT ![x] = "timed_out"]
            /\ HpNotify(x, state[x], peer_eps[x], "timed_out")
         \/ UNCHANGED <<last_error, posted>>
      /\ UNCHANGED <<state, peer_eps, outcomes, heard>>
  BY DEF HandleAsyncTimeout
<1>2. /\ state[x] \in [Paths -> States] /\ peer_eps[x] \in SUBSET Paths
      /\ posted \in [Ends -> Seq(Outcomes)] /\ "timed_out" \in {"none", "error", "timed_out"}
      /\ datagrams \subseteq Messages /\ "timed_out" # "none"
      /\ \A p \in peer_eps[x] : state[x][p] # "CLOSED"
  BY DEF PunchShape
<1>3. /\ \A y \in Ends : heard[y] \subseteq heard'[y]
      /\ \A q \in Paths : state[x][q] \in Open => q \in heard'[x]
      /\ \A q \in Paths : state[x][q] = "ESTABLISHED" => q \in heard'[x] /\ q \in heard'[Peer(x)]
  BY <1>1 DEF Opened, Open
<1>4. datagrams' \subseteq Messages /\ Acks'
  BY <1>1, <1>2, <1>3, AcksNext
<1>5. posted' \in [Ends -> Seq(Outcomes)] /\ PostedAgreed'
  <2>1. CASE UNCHANGED posted
    BY <1>1, <1>2, <2>1 DEF PostedAgreed
  <2>2. CASE HpNotify(x, state[x], peer_eps[x], "timed_out")
    BY <1>2, <1>3, <2>2, NotifyNext
  <2> QED
    BY <1>1, <2>1, <2>2
<1>6. PunchShape'
  BY <1>1, <1>4, <1>5 DEF PunchShape
<1> QED
  BY <1>1, <1>4, <1>5, <1>6, SameHandshake

(* The handler of the caller runs, and the client closes. *)
LEMMA HandleAsyncHolePunchInv ==
  ASSUME PunchInv, NEW x \in Ends, HandleAsyncHolePunch(x)
  PROVE  PunchInv'
<1> USE DEF PunchInv
<1>1. /\ posted[x] # <<>> /\ outcomes' = [outcomes EXCEPT ![x] = @ \cup {Head(posted[x])}]
      /\ posted' = [posted EXCEPT ![x] = Tail(@)]
      /\ state' = [state EXCEPT ![x] = [p \in Paths |-> "CLOSED"]]
      /\ peer_eps' = [peer_eps EXCEPT ![x] = {}]
      /\ datagrams' = {m \in datagrams : m.to # x}
      /\ UNCHANGED <<last_error, heard>>
  BY DEF HandleAsyncHolePunch
<1>2. posted \in [Ends -> Seq(Outcomes)] /\ posted[x] \in Seq(Outcomes)
  BY DEF PunchShape
<1>3. /\ Head(posted[x]) \in Outcomes /\ Head(posted[x]) = posted[x][1]
      /\ 1 \in 1..Len(posted[x])
      /\ Tail(posted[x]) \in Seq(Outcomes)
      /\ Len(Tail(posted[x])) = Len(posted[x]) - 1 /\ Len(posted[x]) \in Nat
      /\ \A i \in 1..Len(Tail(posted[x])) : Tail(posted[x])[i] = posted[x][i + 1]
  BY <1>1, <1>2, HeadTailProperties
<1>4. PunchShape'
  <2>1. [p \in Paths |-> "CLOSED"] \in [Paths -> States]
    BY DEF States
  <2> QED
    BY <1>1, <1>2, <1>3, <2>1 DEF PunchShape
<1>5. Opened' /\ Acks'
  BY <1>1 DEF Opened, Open, Acks, PunchShape
<1>6. PostedAgreed'
  <2> SUFFICES ASSUME NEW y \in Ends, NEW i \in 1..Len(posted'[y])
               PROVE  Agreed(heard, y, posted'[y][i])
    BY <1>1 DEF PostedAgreed
  <2>1. CASE y # x
    BY <1>1, <1>2, <2>1 DEF PostedAgreed
  <2>2. CASE y = x
    <3>1. posted'[y] = Tail(posted[x])
      BY <1>1, <1>2, <2>2
    <3>2. posted'[y][i] = posted[x][i + 1] /\ i + 1 \in 1..Len(posted[x])
      BY <1>3, <3>1
    <3> QED
      BY <2>2, <3>2 DEF PostedAgreed
  <2> QED
    BY <2>1, <2>2
<1>7. PunchAgreement'
  <2> SUFFICES ASSUME NEW y \in Ends, NEW o \in outcomes'[y] PROVE Agreed(heard, y, o)
    BY <1>1 DEF PunchAgreement, Agreed
  <2>1. o \in outcomes[y] \/ (y = x /\ o = posted[x][1])
    BY <1>1, <1>3 DEF PunchShape
  <2>2. o \in outcomes[y] => Agreed(heard, y, o)
    BY DEF PunchAgreement, Agreed
  <2>3. Agreed(heard, x, posted[x][1])
    BY <1>3 DEF PostedAgreed
  <2> QED
    BY <2>1, <2>2, <2>3
<1> QED
  BY <1>4, <1>5, <1>6, <1>7

(* Every step of the two clients keeps the invariant. *)
LEMMA PunchNextInv == PunchInv /\ [PunchNext]_punchVars => PunchInv'
<1> SUFFICES ASSUME PunchInv, [PunchNext]_punchVars PROVE PunchInv'
  OBVIOUS
<1>1. ASSUME NEW m \in datagrams, Lose(m) PROVE PunchInv'
  <2>1. /\ datagrams' \subseteq datagrams
        /\ UNCHANGED <<state, peer_eps, last_error, posted, outcomes, heard>>
    BY <1>1 DEF Lose
  <2>2. PunchShape' /\ Acks' /\ PostedAgreed'
    BY <2>1 DEF PunchInv, PunchShape, Acks, PostedAgreed
  <2> QED
    BY <2>1, <2>2, SameHandshake DEF PunchInv
<1>2. CASE UNCHANGED punchVars
  <2>1. UNCHANGED <<state, peer_eps, last_error, posted, outcomes, datagrams, heard>>
    BY <1>2 DEF punchVars
  <2>2. PunchShape' /\ Acks' /\ PostedAgreed'
    BY <2>1 DEF PunchInv, PunchShape, Acks, PostedAgreed
  <2> QED
    BY <2>1, <2>2, SameHandshake DEF PunchInv
<1> QED
  BY <1>1, <1>2, AsyncHolePunchInv, HpReceiveInv, ReceiveErrorInv, HandleAsyncTimeoutInv,
     HandleAsyncHolePunchInv DEF PunchNext

(* A reported endpoint is open in both directions, and success names one. *)
THEOREM PunchAgreementAlways == PunchSpec => []PunchAgreement
<1>1. PunchInit => PunchInv
  BY PunchInitInv
<1>2. PunchInv /\ [PunchNext]_punchVars => PunchInv'
  BY PunchNextInv
<1>3. PunchInv => PunchAgreement
  BY DEF PunchInv
<1> QED
  BY <1>1, <1>2, <1>3, PTL DEF PunchSpec

--------------------------------------------------------------------------------
(* UdtRtt: the estimator, the backoff and the timers that share it. *)

(* A short has room for the longest estimate, backed off as far as it goes. *)
LEMMA ShortRoom == SHRT_MAX \in Nat /\ 64 * (5 * MaxTicks) <= SHRT_MAX /\ MaxTicks \in Nat
BY DEF SHRT_MAX, MaxTicks

(* A value that a short can hold is not changed by it. *)
LEMMA ShortIs ==
  ASSUME NEW x \in Int, -(SHRT_MAX + 1) <= x, x <= SHRT_MAX
  PROVE  Short(x) = x
<1>1. (x + 32768) % 65536 = x + 32768
  BY DEF SHRT_MAX
<1> QED
  BY <1>1 DEF Short, SHRT_MAX

(* A number that fits a short is kept by the conversion. *)
LEMMA ShortNat == \A x \in 0..SHRT_MAX : Short(x) = x
<1> SUFFICES ASSUME NEW x \in 0..SHRT_MAX PROVE Short(x) = x
  OBVIOUS
<1>1. x \in Int /\ -(SHRT_MAX + 1) <= x /\ x <= SHRT_MAX
  BY ShortRoom
<1> QED
  BY <1>1, ShortIs

(* The backoff grows, up to 64. *)
LEMMA Backoff ==
  ASSUME NEW n \in 0..TCP_MAXRXTSHIFT
  PROVE  /\ s_tcp_backoff[n] \in {1, 2, 4, 8, 16, 32, 64}
         /\ n < TCP_MAXRXTSHIFT =>
              \/ s_tcp_backoff[n + 1] = s_tcp_backoff[n]
              \/ s_tcp_backoff[n] <= 32 /\ s_tcp_backoff[n + 1] = 2 * s_tcp_backoff[n]
BY DEF s_tcp_backoff, TCP_MAXRXTSHIFT

(* No timer value leaves the range of a short, and the next is no smaller. *)
LEMMA Products ==
  ASSUME NEW v \in 0..5 * MaxTicks, NEW n \in 0..TCP_MAXRXTSHIFT
  PROVE  /\ v * s_tcp_backoff[n] \in 0..SHRT_MAX
         /\ n < TCP_MAXRXTSHIFT => v * s_tcp_backoff[n] <= v * s_tcp_backoff[n + 1]
<1>1. \A b \in {1, 2, 4, 8, 16, 32, 64} : v * b \in 0..SHRT_MAX
  <2>1. v \in Nat /\ 64 * v \in Nat /\ 64 * v <= SHRT_MAX
    BY ShortRoom
  <2>2. \A b \in {1, 2, 4, 8, 16, 32, 64} : v * b \in Nat /\ v * b <= 64 * v
    BY ONLY <2>1
  <2> QED BY <2>1, <2>2, ShortRoom
<1>2. \A b \in {1, 2, 4, 8, 16, 32} : v * b <= v * (2 * b)
  BY DEF MaxTicks
<1> QED
  BY <1>1, <1>2, Backoff DEF TCP_MAXRXTSHIFT

Estimate(mean, var) ==
  /\ mean \in 0..8 * MaxTicks /\ var \in 0..5 * MaxTicks
  /\ mean # 0 => var <= 4 * MaxTicks

(* The timer value of an estimate within bounds. *)
LEMMA TimerValue ==
  ASSUME NEW mean, NEW var, Estimate(mean, var), NEW n \in 0..TCP_MAXRXTSHIFT
  PROVE  /\ mean \div 8 + var \in 0..5 * MaxTicks
         /\ RexmtTimerValue(mean, var, n) =
              TCPT_RANGESET((mean \div 8 + var) * s_tcp_backoff[n], TCPTV_MIN, TCPTV_REXMTMAX)
<1>1. mean \div 8 + var \in 0..5 * MaxTicks
  BY DEF Estimate, MaxTicks
<1>2. RexmtVal(mean, var) = mean \div 8 + var
  BY <1>1, ShortIs DEF RexmtVal, TCP_RTT_SCALE, MaxTicks, SHRT_MAX
<1>3. Short((mean \div 8 + var) * s_tcp_backoff[n]) = (mean \div 8 + var) * s_tcp_backoff[n]
  <2>1. (mean \div 8 + var) * s_tcp_backoff[n] \in 0..SHRT_MAX
    BY <1>1, Products
  <2> QED
    BY <2>1, ShortNat, Zenon
<1> QED
  BY <1>1, <1>2, <1>3 DEF RexmtTimerValue

(* A backoff later, the timer value is no smaller. *)
LEMMA TimerGrows ==
  ASSUME NEW mean, NEW var, Estimate(mean, var), NEW n \in 0..TCP_MAXRXTSHIFT - 1
  PROVE  RexmtTimerValue(mean, var, n) <= RexmtTimerValue(mean, var, n + 1)
<1> DEFINE v == mean \div 8 + var
<1>1. /\ n \in 0..TCP_MAXRXTSHIFT /\ n + 1 \in 0..TCP_MAXRXTSHIFT /\ n < TCP_MAXRXTSHIFT
  BY DEF TCP_MAXRXTSHIFT
<1>2. /\ v \in 0..5 * MaxTicks
      /\ RexmtTimerValue(mean, var, n) =
           TCPT_RANGESET(v * s_tcp_backoff[n], TCPTV_MIN, TCPTV_REXMTMAX)
      /\ RexmtTimerValue(mean, var, n + 1) =
           TCPT_RANGESET(v * s_tcp_backoff[n + 1], TCPTV_MIN, TCPTV_REXMTMAX)
  BY <1>1, TimerValue
<1>3. /\ v * s_tcp_backoff[n] \in 0..SHRT_MAX
      /\ v * s_tcp_backoff[n + 1] \in 0..SHRT_MAX
      /\ v * s_tcp_backoff[n] <= v * s_tcp_backoff[n + 1]
  BY <1>1, <1>2, Products
<1>4. \A x, y \in 0..SHRT_MAX : x <= y =>
        TCPT_RANGESET(x, TCPTV_MIN, TCPTV_REXMTMAX) <= TCPT_RANGESET(y, TCPTV_MIN, TCPTV_REXMTMAX)
  <2>1. \A x, y \in Int : x <= y =>
          TCPT_RANGESET(x, TCPTV_MIN, TCPTV_REXMTMAX)
            <= TCPT_RANGESET(y, TCPTV_MIN, TCPTV_REXMTMAX)
    BY ONLY DEF TCPT_RANGESET, TCPTV_MIN, TCPTV_REXMTMAX
  <2> QED BY <2>1, ShortRoom
<1> HIDE DEF v
<1> QED
  BY <1>2, <1>3, <1>4, Zenon

(* A measurement keeps the estimate within bounds. *)
LEMMA MeasuredFits ==
  ASSUME Estimate(srtt, rttvar), NEW rtt \in 1..MaxTicks
  PROVE  Estimate(NewSrtt(rtt), NewRttvar(rtt))
<1>1. CASE srtt = 0
  <2>1. rtt * 8 \in 0..SHRT_MAX /\ rtt * 2 \in 0..SHRT_MAX
    BY ShortRoom
  <2>2. Short(rtt * 8) = rtt * 8 /\ Short(rtt * 2) = rtt * 2
    BY <2>1, ShortNat
  <2>3. TCP_RTTVAR_SCALE \div 2 = 2
    BY DEF TCP_RTTVAR_SCALE
  <2>4. NewSrtt(rtt) = rtt * 8 /\ NewRttvar(rtt) = rtt * 2
    BY <1>1, <2>2, <2>3 DEF NewSrtt, NewRttvar, TCP_RTT_SCALE
  <2> QED
    BY <2>4 DEF Estimate, MaxTicks
<1>2. CASE srtt # 0
  <2> DEFINE d == rtt - 1 - srtt \div 8
             a == Abs(d)
  <2>1. /\ srtt \in 1..8 * MaxTicks /\ rttvar \in 0..4 * MaxTicks
        /\ srtt \div 8 \in 0..MaxTicks /\ d \in -MaxTicks..MaxTicks
    BY <1>2 DEF Estimate, MaxTicks
  <2>2. Delta(rtt) = d
    BY <2>1, ShortIs DEF Delta, TCP_RTT_SCALE, MaxTicks, SHRT_MAX
  <2>3. a \in 0..MaxTicks
    BY <2>1 DEF Abs, MaxTicks
  <2>4. NewSrtt(rtt) = AtLeastOne(srtt + d)
    BY <1>2, <2>1, <2>2, ShortIs DEF NewSrtt, MaxTicks, SHRT_MAX
  <2>5. srtt + d <= 8 * MaxTicks
    BY <2>1 DEF MaxTicks
  <2>6. NewRttvar(rtt) = AtLeastOne(rttvar + (a - rttvar \div 4))
    <3>1. a - rttvar \div 4 \in -MaxTicks..MaxTicks
      BY SMTT(60), <2>1, <2>3 DEF MaxTicks
    <3>2. Short(a - rttvar \div 4) = a - rttvar \div 4
      BY <3>1, ShortIs DEF MaxTicks, SHRT_MAX
    <3>3. Short(rttvar + (a - rttvar \div 4)) = rttvar + (a - rttvar \div 4)
      BY <2>1, <3>1, ShortIs DEF MaxTicks, SHRT_MAX
    <3> QED
      BY <1>2, <2>2, <3>2, <3>3 DEF NewRttvar, TCP_RTTVAR_SCALE
  <2>7. rttvar + (a - rttvar \div 4) \in Int /\ rttvar + (a - rttvar \div 4) <= 4 * MaxTicks
    BY <2>1, <2>3 DEF MaxTicks
  <2>8. NewSrtt(rtt) \in 1..8 * MaxTicks /\ NewRttvar(rtt) \in 1..4 * MaxTicks
    BY <2>1, <2>4, <2>5, <2>6, <2>7 DEF AtLeastOne, MaxTicks
  <2> QED
    BY <2>8 DEF Estimate, MaxTicks
<1> QED
  BY <1>1, <1>2

-----------------------------------------------------------------------------
(* The shift counts the timeouts of the current series, or, in the persist state, *)
(* the probes, and then no retransmit timer runs; and the timer value is the one   *)
(* of the current estimate whenever the series has begun.                          *)
Counters ==
  /\ rxtcur \in Int /\ rxtshift \in 0..TCP_MAXRXTSHIFT
  /\ streak \in Nat /\ persist \in Nat
  /\ rexmt \in BOOLEAN /\ timing \in BOOLEAN /\ dropped \in BOOLEAN
  /\ persist # 0 => streak = 0 /\ rexmt = FALSE
  /\ dropped = FALSE /\ persist = 0 => rxtshift = streak
  /\ dropped = TRUE => streak > TCP_MAXRXTSHIFT

Current ==
  dropped = FALSE /\ streak > 0 => rxtcur = RexmtTimerValue(srtt, rttvar, rxtshift)

RttInv == Estimate(srtt, rttvar) /\ Counters /\ Current

(* A short is a number. *)
LEMMA ShortInt == ASSUME NEW x \in Int PROVE Short(x) \in Int
BY DEF Short, SHRT_MAX

(* The persist timer is set to something. *)
LEMMA PersistSet ==
  ASSUME Estimate(srtt, rttvar), NEW n \in 0..TCP_MAXRXTSHIFT
  PROVE  PersistValue(n) \in Nat \ {0}
<1>1. (srtt \div 4 + rttvar) \div 2 \in Int /\ s_tcp_backoff[n] \in Int
  BY Backoff DEF Estimate
<1>2. ((srtt \div 4 + rttvar) \div 2) * s_tcp_backoff[n] \in Int
  BY <1>1
<1>3. Short(((srtt \div 4 + rttvar) \div 2) * s_tcp_backoff[n]) \in Int
  BY <1>2, ShortInt, Zenon
<1>4. \A x \in Int : TCPT_RANGESET(x, TCPTV_PERSMIN, TCPTV_PERSMAX) \in Nat \ {0}
  BY DEF TCPT_RANGESET, TCPTV_PERSMIN, TCPTV_PERSMAX
<1> QED
  BY <1>3, <1>4, Zenon DEF PersistValue

(* A timer value is an integer. *)
LEMMA TimerInt ==
  ASSUME NEW mean, NEW var, Estimate(mean, var), NEW n \in 0..TCP_MAXRXTSHIFT
  PROVE  RexmtTimerValue(mean, var, n) \in Int
<1>1. (mean \div 8 + var) * s_tcp_backoff[n] \in 0..SHRT_MAX
  BY TimerValue, Products
<1>2. \A x \in 0..SHRT_MAX : TCPT_RANGESET(x, TCPTV_MIN, TCPTV_REXMTMAX) \in Int
  BY DEF TCPT_RANGESET, TCPTV_MIN, TCPTV_REXMTMAX
<1> QED
  BY <1>1, <1>2, TimerValue, Zenon

(* output() leaves the counters as they should be. *)
LEMMA OutputKeeps ==
  ASSUME Estimate(srtt, rttvar), Counters, dropped = FALSE,
         NEW t \in BOOLEAN, NEW n \in 0..TCP_MAXRXTSHIFT, NEW k \in Nat, NEW r \in BOOLEAN,
         persist = 0 => n = k,
         persist # 0 => k = 0 /\ r = FALSE,
         RttOutput(t, n, k, r)
  PROVE  /\ rxtshift' \in 0..TCP_MAXRXTSHIFT /\ streak' \in Nat /\ persist' \in Nat
         /\ rexmt' \in BOOLEAN /\ timing' \in BOOLEAN
         /\ persist' # 0 => streak' = 0 /\ rexmt' = FALSE
         /\ persist' = 0 => rxtshift' = streak'
         /\ streak' > 0 => rxtshift' = n /\ streak' = k
<1>1. CASE RttSends(t, n, k)
  BY <1>1 DEF RttSends, LeaveShift, TCP_MAXRXTSHIFT
<1>2. CASE RttPersists(t)
  <2>1. PersistValue(0) \in Nat \ {0}
    BY PersistSet DEF TCP_MAXRXTSHIFT
  <2>2. /\ persist' \in Nat \ {0} /\ rxtshift' = 1 /\ streak' = 0
        /\ rexmt' = FALSE /\ timing' = t
    BY <1>2, <2>1, Zenon DEF RttPersists
  <2>3. rexmt' \in BOOLEAN /\ timing' \in BOOLEAN
    BY <2>2, Zenon
  <2>4. /\ rxtshift' \in 0..TCP_MAXRXTSHIFT /\ streak' \in Nat /\ persist' \in Nat
        /\ persist' # 0 /\ ~(streak' > 0)
    BY <2>2 DEF TCP_MAXRXTSHIFT
  <2> QED
    BY <2>2, <2>3, <2>4, Zenon
<1>3. CASE RttNothing(t, n, k, r)
  BY <1>3 DEF RttNothing, Counters
<1> QED
  BY <1>1, <1>2, <1>3 DEF RttOutput

(* m_srtt and m_rttvar as udt_cb initialises them. *)
LEMMA RttInitInv == RttInit => RttInv
<1> SUFFICES ASSUME RttInit PROVE RttInv
  OBVIOUS
<1>1. Estimate(srtt, rttvar)
  BY DEF RttInit, Estimate, MaxTicks
<1>2. Counters
  <2>1. rexmt \in BOOLEAN /\ timing \in BOOLEAN /\ dropped \in BOOLEAN
    BY Zenon DEF RttInit
  <2>2. /\ rxtcur \in Int /\ rxtshift \in 0..TCP_MAXRXTSHIFT
        /\ streak \in Nat /\ persist \in Nat
    BY DEF RttInit, TCP_MAXRXTSHIFT
  <2>3. dropped = FALSE /\ persist = 0 /\ rxtshift = streak
    BY Zenon DEF RttInit
  <2> QED
    BY <2>1, <2>2, <2>3, Zenon DEF Counters
<1>3. Current
  BY DEF RttInit, Current
<1> QED
  BY <1>1, <1>2, <1>3 DEF RttInv

(* What OutputKeeps says of the successor is Counters there, with the rest. *)
LEMMA CountersNext ==
  ASSUME rxtcur' \in Int, dropped' = FALSE,
         rxtshift' \in 0..TCP_MAXRXTSHIFT, streak' \in Nat, persist' \in Nat,
         rexmt' \in BOOLEAN, timing' \in BOOLEAN,
         persist' # 0 => streak' = 0 /\ rexmt' = FALSE,
         persist' = 0 => rxtshift' = streak'
  PROVE  Counters'
<1>1. dropped' \in BOOLEAN /\ ~(dropped' = TRUE)
  BY Zenon
<1> QED
  BY <1>1, Zenon DEF Counters

(* A sample, a timeout and an acknowledgement keep the invariant. *)
LEMMA RttNextInv == RttInv /\ [RttNext]_rttVars => RttInv'
<1> SUFFICES ASSUME RttInv, [RttNext]_rttVars PROVE RttInv'
  OBVIOUS
<1>0. Estimate(srtt, rttvar) /\ Counters /\ Current
  BY DEF RttInv
<1>1. CASE RttSend
  <2>1. dropped = FALSE /\ dropped' = FALSE /\ UNCHANGED <<srtt, rttvar, rxtcur>>
    BY <1>0, <1>1, Zenon DEF RttSend, Unmeasured, Counters
  <2>2. /\ timing \in BOOLEAN /\ rexmt \in BOOLEAN /\ rxtshift \in 0..TCP_MAXRXTSHIFT
        /\ streak \in Nat /\ rxtcur \in Int
        /\ persist = 0 => rxtshift = streak
        /\ persist # 0 => streak = 0 /\ rexmt = FALSE
    BY <1>0, <2>1, Zenon DEF Counters
  <2>3. RttOutput(timing, rxtshift, streak, rexmt)
    BY <1>1 DEF RttSend
  <2>4. /\ rxtshift' \in 0..TCP_MAXRXTSHIFT /\ streak' \in Nat /\ persist' \in Nat
        /\ rexmt' \in BOOLEAN /\ timing' \in BOOLEAN
        /\ persist' # 0 => streak' = 0 /\ rexmt' = FALSE
        /\ persist' = 0 => rxtshift' = streak'
        /\ streak' > 0 => rxtshift' = rxtshift /\ streak' = streak
    BY <1>0, <2>1, <2>2, <2>3, OutputKeeps, Zenon
  <2>5. Counters'
    BY <2>1, <2>2, <2>4, CountersNext, Zenon
  <2>6. Current'
    BY <1>0, <2>1, <2>4, Zenon DEF Current
  <2> QED
    BY <1>0, <2>1, <2>5, <2>6, Zenon DEF RttInv
<1>2. CASE RttFastRexmt
  <2>1. /\ dropped = FALSE /\ dropped' = FALSE /\ UNCHANGED <<srtt, rttvar, rxtcur>>
        /\ FALSE \in BOOLEAN
    BY <1>0, <1>2, Zenon DEF RttFastRexmt, Unmeasured, Counters
  <2>2. /\ rxtshift \in 0..TCP_MAXRXTSHIFT /\ streak \in Nat /\ rxtcur \in Int
        /\ persist = 0 => rxtshift = streak
        /\ persist # 0 => streak = 0
    BY <1>0, <2>1, Zenon DEF Counters
  <2>3. RttOutput(FALSE, rxtshift, streak, FALSE)
    BY <1>2 DEF RttFastRexmt
  <2>4. /\ rxtshift' \in 0..TCP_MAXRXTSHIFT /\ streak' \in Nat /\ persist' \in Nat
        /\ rexmt' \in BOOLEAN /\ timing' \in BOOLEAN
        /\ persist' # 0 => streak' = 0 /\ rexmt' = FALSE
        /\ persist' = 0 => rxtshift' = streak'
        /\ streak' > 0 => rxtshift' = rxtshift /\ streak' = streak
    BY <1>0, <2>1, <2>2, <2>3, OutputKeeps, Zenon
  <2>5. Counters'
    BY <2>1, <2>2, <2>4, CountersNext, Zenon
  <2>6. Current'
    BY <1>0, <2>1, <2>4, Zenon DEF Current
  <2> QED
    BY <1>0, <2>1, <2>5, <2>6, Zenon DEF RttInv
<1>3. CASE RttInput
  <2>1. dropped = FALSE /\ dropped' = FALSE
    BY <1>0, <1>3, Zenon DEF RttInput, Counters
  <2>2. PICK outstanding \in BOOLEAN :
          LET r == outstanding /\ persist = 0
          IN \/ Unmeasured /\ RttOutput(timing, rxtshift, streak, r)
             \/ /\ \E rtt \in Samples : Measured(rtt)
                /\ RttOutput(FALSE, 0, 0, r)
    BY <1>3, Zenon DEF RttInput
  <2> DEFINE r == outstanding /\ persist = 0
  <2>3. r \in BOOLEAN /\ (persist # 0 => r = FALSE) /\ FALSE \in BOOLEAN
    BY Zenon
  <2>4. /\ timing \in BOOLEAN /\ rxtshift \in 0..TCP_MAXRXTSHIFT
        /\ streak \in Nat /\ rxtcur \in Int
        /\ persist = 0 => rxtshift = streak
        /\ persist # 0 => streak = 0
    BY <1>0, <2>1, Zenon DEF Counters
  <2>5. CASE Unmeasured /\ RttOutput(timing, rxtshift, streak, r)
    <3> HIDE DEF r
    <3>1. UNCHANGED <<srtt, rttvar, rxtcur>>
      BY <2>5, Zenon DEF Unmeasured
    <3>2. /\ rxtshift' \in 0..TCP_MAXRXTSHIFT /\ streak' \in Nat /\ persist' \in Nat
          /\ rexmt' \in BOOLEAN /\ timing' \in BOOLEAN
          /\ persist' # 0 => streak' = 0 /\ rexmt' = FALSE
          /\ persist' = 0 => rxtshift' = streak'
          /\ streak' > 0 => rxtshift' = rxtshift /\ streak' = streak
      BY <1>0, <2>1, <2>3, <2>4, <2>5, OutputKeeps, Zenon
    <3>3. Counters'
      BY <2>1, <2>4, <3>1, <3>2, CountersNext, Zenon
    <3>4. Current'
      BY <1>0, <2>1, <3>1, <3>2, Zenon DEF Current
    <3> QED
      BY <1>0, <3>1, <3>3, <3>4, Zenon DEF RttInv
  <2>6. CASE (\E rtt \in Samples : Measured(rtt)) /\ RttOutput(FALSE, 0, 0, r)
    <3> HIDE DEF r
    <3>1. PICK rtt \in Samples : Measured(rtt)
      BY <2>6
    <3>2. rtt \in 1..MaxTicks /\ 0 \in 0..TCP_MAXRXTSHIFT /\ 0 \in Nat /\ ~(0 > 0)
      BY RttAssumption DEF TCP_MAXRXTSHIFT
    <3>3. Estimate(srtt', rttvar')
      BY <1>0, <3>1, <3>2, MeasuredFits, Zenon DEF Measured
    <3>4. rxtcur' \in Int
      <4>1. Estimate(NewSrtt(rtt), NewRttvar(rtt))
        BY <1>0, <3>2, MeasuredFits, Zenon
      <4>2. rxtcur' = RexmtTimerValue(NewSrtt(rtt), NewRttvar(rtt), 0)
        BY <3>1, Zenon DEF Measured
      <4> QED
        BY <4>1, <4>2, <3>2, TimerInt, Zenon
    <3>5. /\ rxtshift' \in 0..TCP_MAXRXTSHIFT /\ streak' \in Nat /\ persist' \in Nat
          /\ rexmt' \in BOOLEAN /\ timing' \in BOOLEAN
          /\ persist' # 0 => streak' = 0 /\ rexmt' = FALSE
          /\ persist' = 0 => rxtshift' = streak'
          /\ streak' > 0 => rxtshift' = 0 /\ streak' = 0
      BY <1>0, <2>1, <2>3, <2>6, <3>2, OutputKeeps, Zenon
    <3>6. Counters'
      BY <2>1, <3>4, <3>5, CountersNext, Zenon
    <3>7. Current'
      BY <3>2, <3>5, Zenon DEF Current
    <3> QED
      BY <3>3, <3>6, <3>7, Zenon DEF RttInv
  <2> QED
    BY <2>2, <2>5, <2>6
<1>4. CASE RttTimeout
  <2>1. /\ dropped = FALSE /\ persist = 0 /\ rxtshift = streak
        /\ rxtshift \in 0..TCP_MAXRXTSHIFT /\ streak \in Nat /\ rxtcur \in Int
        /\ timing \in BOOLEAN
    BY <1>0, <1>4, Zenon DEF RttTimeout, Counters
  <2>2. CASE rxtshift < TCP_MAXRXTSHIFT
    <3> DEFINE n == rxtshift + 1
    <3>1. n \in 0..TCP_MAXRXTSHIFT /\ streak + 1 \in Nat /\ rxtshift # TCP_MAXRXTSHIFT
          /\ n = streak + 1
      BY <2>1, <2>2 DEF TCP_MAXRXTSHIFT
    <3>2. /\ rxtcur' = RexmtTimerValue(srtt, rttvar, n) /\ Clobber(n) /\ dropped' = FALSE
          /\ RttOutput(FALSE, n, streak + 1, TRUE)
      BY <1>4, <2>1, <3>1, Zenon DEF RttTimeout
    <3>3. Estimate(srtt', rttvar') /\ srtt' \div 8 + rttvar' = srtt \div 8 + rttvar
      <4>1. CASE n > TCP_MAXRXTSHIFT \div 4
        <5>1. rttvar' = Short(rttvar + srtt \div 8) /\ srtt' = 0
          BY <3>2, <4>1 DEF Clobber, TCP_RTT_SCALE
        <5>2. rttvar + srtt \div 8 \in 0..5 * MaxTicks /\ srtt \div 8 \in Int /\ rttvar \in Int
          BY <1>0 DEF Estimate, MaxTicks
        <5>3. Short(rttvar + srtt \div 8) = rttvar + srtt \div 8
          BY <5>2, ShortNat, ShortRoom
        <5>4. rttvar' = rttvar + srtt \div 8 /\ srtt' = 0
          BY <5>1, <5>3
        <5>5. Estimate(0, rttvar + srtt \div 8)
          BY <1>0, <5>2 DEF Estimate, MaxTicks
        <5>6. 0 \div 8 + (rttvar + srtt \div 8) = srtt \div 8 + rttvar
          BY <5>2
        <5> QED
          BY <5>4, <5>5, <5>6, Zenon
      <4>2. CASE ~(n > TCP_MAXRXTSHIFT \div 4)
        BY <1>0, <3>2, <4>2 DEF Clobber
      <4> QED
        BY <4>1, <4>2
    <3>4. rxtcur' = RexmtTimerValue(srtt', rttvar', n)
      BY <1>0, <3>1, <3>2, <3>3, TimerValue
    <3>5. rxtcur' \in Int
      BY <1>0, <3>1, <3>2, TimerInt
    <3> HIDE DEF n
    <3>6. /\ rxtshift' \in 0..TCP_MAXRXTSHIFT /\ streak' \in Nat /\ persist' \in Nat
          /\ rexmt' \in BOOLEAN /\ timing' \in BOOLEAN
          /\ persist' # 0 => streak' = 0 /\ rexmt' = FALSE
          /\ persist' = 0 => rxtshift' = streak'
          /\ streak' > 0 => rxtshift' = n /\ streak' = streak + 1
      <4>1. FALSE \in BOOLEAN /\ TRUE \in BOOLEAN
        BY Zenon
      <4> QED
        BY <1>0, <2>1, <3>1, <3>2, <4>1, OutputKeeps, Zenon
    <3>7. Counters'
      BY <3>2, <3>5, <3>6, CountersNext, Zenon
    <3>8. Current'
      BY <3>4, <3>6, Zenon DEF Current
    <3> QED
      BY <3>3, <3>7, <3>8, Zenon DEF RttInv
  <2>3. CASE rxtshift = TCP_MAXRXTSHIFT
    <3>1. ~(rxtshift < TCP_MAXRXTSHIFT)
      BY <2>3 DEF TCP_MAXRXTSHIFT
    <3>2. /\ dropped' = TRUE /\ streak' = streak + 1 /\ rexmt' = FALSE
          /\ UNCHANGED <<srtt, rttvar, rxtcur, rxtshift, timing, persist>>
      BY <1>4, <3>1, Zenon DEF RttTimeout, Unmeasured
    <3>3. streak' \in Nat /\ streak' > TCP_MAXRXTSHIFT
      <4>1. streak' = TCP_MAXRXTSHIFT + 1
        BY <2>1, <2>3, <3>2, Zenon
      <4> QED
        BY <4>1 DEF TCP_MAXRXTSHIFT
    <3>4. /\ rexmt' \in BOOLEAN /\ timing' \in BOOLEAN /\ dropped' \in BOOLEAN
          /\ ~(dropped' = FALSE) /\ persist' = 0
      BY <2>1, <3>2, Zenon
    <3>5. Counters'
      BY <2>1, <3>2, <3>3, <3>4, 0 \in Nat, Zenon DEF Counters
    <3>6. Current'
      BY <3>4, Zenon DEF Current
    <3> QED
      BY <1>0, <3>2, <3>5, <3>6, Zenon DEF RttInv
  <2> QED
    BY <2>1, <2>2, <2>3 DEF TCP_MAXRXTSHIFT
<1>5. CASE RttPersist
  <2>1. /\ dropped = FALSE /\ persist # 0 /\ streak = 0 /\ rexmt = FALSE
        /\ rxtshift \in 0..TCP_MAXRXTSHIFT /\ streak \in Nat /\ rxtcur \in Int
        /\ timing \in BOOLEAN
    BY <1>0, <1>5, Zenon DEF RttPersist, Counters
  <2>2. /\ dropped' = FALSE /\ streak' = 0 /\ rexmt' = FALSE /\ timing' = timing
        /\ UNCHANGED <<srtt, rttvar, rxtcur>>
        /\ persist' = PersistValue(rxtshift)
    BY <1>5, <2>1, Zenon DEF RttPersist, Unmeasured
  <2>3. rxtshift' \in 0..TCP_MAXRXTSHIFT
    BY <1>5, <2>1 DEF RttPersist, TCP_MAXRXTSHIFT
  <2>4. persist' \in Nat \ {0}
    BY <1>0, <2>1, <2>2, PersistSet, Zenon
  <2>5. persist' \in Nat /\ persist' # 0 /\ streak' \in Nat /\ ~(streak' > 0)
    BY <2>2, <2>4
  <2>6. rexmt' \in BOOLEAN /\ timing' \in BOOLEAN /\ rxtcur' \in Int
    BY <2>1, <2>2, Zenon
  <2>7. Counters'
    BY <2>2, <2>3, <2>5, <2>6, CountersNext, Zenon
  <2>8. Current'
    BY <2>5, Zenon DEF Current
  <2> QED
    BY <1>0, <2>2, <2>7, <2>8, Zenon DEF RttInv
<1>6. CASE UNCHANGED rttVars
  <2>1. UNCHANGED <<srtt, rttvar, rxtcur, rxtshift, timing, rexmt, persist, dropped, streak>>
    BY <1>6 DEF rttVars
  <2>2. Counters'
    BY <1>0, <2>1, Zenon DEF Counters
  <2>3. Current'
    BY <1>0, <2>1, Zenon DEF Current
  <2> QED
    BY <1>0, <2>1, <2>2, <2>3, Zenon DEF RttInv
<1> QED
  BY <1>1, <1>2, <1>3, <1>4, <1>5, <1>6 DEF RttNext

(* The inductive invariant of the estimator. *)
THEOREM RttInvariant == RttSpec => []RttInv
<1> QED
  BY RttInitInv, RttNextInv, PTL DEF RttSpec

(* The estimate stays where no timer calculation wraps. *)
THEOREM RttFitsAlways == RttSpec => []RttFits
<1>1. RttInv => RttFits
  BY DEF RttInv, Estimate, RttFits, MaxTicks, SHRT_MAX
<1> QED
  BY RttInvariant, <1>1, PTL

(* The connection is dropped only at the end of one whole series of timeouts. *)
THEOREM PatienceAlways == RttSpec => []Patience
<1>1. RttInv => Patience
  BY Zenon DEF RttInv, Counters, Patience
<1> QED
  BY RttInvariant, <1>1, PTL

(* Within a series no timeout is shorter than the one before. *)
THEOREM BackoffMonotoneAlways == RttSpec => BackoffMonotone
<1>1. RttInv /\ [RttNext]_rttVars => [streak > 0 /\ streak' > streak => rxtcur' >= rxtcur]_rttVars
  <2> SUFFICES ASSUME RttInv, RttNext, streak > 0, streak' > streak
               PROVE  rxtcur' >= rxtcur
    BY DEF rttVars
  <2>0. Estimate(srtt, rttvar) /\ Counters /\ Current
    BY DEF RttInv
  <2>1. streak \in Nat /\ rxtshift \in 0..TCP_MAXRXTSHIFT /\ rxtcur \in Int /\ persist \in Nat
    BY <2>0, Zenon DEF Counters
  <2>2. RttTimeout
    <3>1. ASSUME NEW t, NEW n, NEW r, RttOutput(t, n, streak, r) PROVE FALSE
      <4>1. streak' = streak \/ streak' = 0
        BY <3>1, Zenon DEF RttOutput, RttSends, RttPersists, RttNothing
      <4> QED
        BY <2>1, <4>1
    <3>2. ASSUME NEW t, NEW n, NEW r, RttOutput(t, n, 0, r) PROVE FALSE
      <4>1. streak' = 0 \/ streak' = 0
        BY <3>2, Zenon DEF RttOutput, RttSends, RttPersists, RttNothing
      <4> QED
        BY <2>1, <4>1
    <3>3. ~RttSend /\ ~RttFastRexmt
      BY <3>1 DEF RttSend, RttFastRexmt
    <3>4. ~RttInput
      BY <3>1, <3>2 DEF RttInput
    <3>5. ~RttPersist
      BY <2>1 DEF RttPersist
    <3> QED
      BY <3>3, <3>4, <3>5 DEF RttNext
  <2>3. dropped = FALSE /\ rxtcur = RexmtTimerValue(srtt, rttvar, rxtshift)
    BY <2>0, <2>2, Zenon DEF RttTimeout, Counters, Current
  <2>4. CASE rxtshift < TCP_MAXRXTSHIFT
    <3>1. rxtshift \in 0..TCP_MAXRXTSHIFT - 1 /\ rxtshift # TCP_MAXRXTSHIFT
      BY <2>1, <2>4 DEF TCP_MAXRXTSHIFT
    <3>2. rxtcur' = RexmtTimerValue(srtt, rttvar, rxtshift + 1)
      BY <2>2, <3>1, Zenon DEF RttTimeout
    <3>3. rxtcur <= rxtcur'
      BY <2>0, <2>3, <3>1, <3>2, TimerGrows, Zenon
    <3>4. rxtshift + 1 \in 0..TCP_MAXRXTSHIFT
      BY <3>1 DEF TCP_MAXRXTSHIFT
    <3>5. rxtcur' \in Int
      BY <2>0, <3>2, <3>4, TimerInt, Zenon
    <3> QED
      BY <2>1, <3>3, <3>5
  <2>5. CASE rxtshift = TCP_MAXRXTSHIFT
    <3>1. ~(rxtshift < TCP_MAXRXTSHIFT)
      BY <2>5 DEF TCP_MAXRXTSHIFT
    <3>2. rxtcur' = rxtcur
      BY <2>2, <3>1, Zenon DEF RttTimeout, Unmeasured
    <3> QED
      BY <2>1, <3>2
  <2> QED
    BY <2>1, <2>4, <2>5 DEF TCP_MAXRXTSHIFT
<1> QED
  BY RttInvariant, <1>1, PTL DEF RttSpec, BackoffMonotone
================================================================================
