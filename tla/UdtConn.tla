------------------------------ MODULE UdtConn ------------------------------
(***************************************************************************)
(* Two sockets with a control block each, the applications above them and  *)
(* the UDP network between them.  Each io_service runs one handler at a    *)
(* time, so a step is one handler at one end.  The network keeps datagrams *)
(* in any order; it may lose them, repeat them, and has no room for more   *)
(* than NetCap of them in a direction.                                     *)
(***************************************************************************)
EXTENDS UdtCbInput

CONSTANTS Connectors,  \* the ends that may call async_connect
          Acceptors,   \* the ends that may call async_accept
          SendPlan,    \* SendPlan[e]: the sizes of the sends of end e, in order
          Reads,       \* the sizes of the receive buffers
          Closers,     \* the ends that call async_shutdown after their sends
          Followers,   \* the ends that do so once they have been told eof
          Timers,      \* the timers that may expire in this instance
          Junk,        \* what the uninitialized rcv_win may hold
          LossRates,   \* what is_pkt_lost_rate_incr may become at a loss
          NetCap,      \* bound: datagrams in flight to one end
          MaxLoss,     \* bound: datagrams lost
          MaxDup,      \* bound: datagrams delivered twice
          MaxEarly     \* bound: timers that expire with datagrams in flight

Ends == {"a", "b"}
Peer(e) == IF e = "a" THEN "b" ELSE "a"

ASSUME ConnAssumption ==
  /\ SendPlan \in [Ends -> Seq(Nat)] /\ Reads \subseteq Nat
  /\ Junk \subseteq Int /\ LossRates \subseteq BOOLEAN
  /\ {NetCap, MaxLoss, MaxDup, MaxEarly} \subseteq Nat

VARIABLES ep,     \* ep[e]: the control block of end e
          net,    \* net[e]: the datagrams on their way to end e
          app,    \* app[e]: how many sends have been called, and shutdown
          faults  \* how often each of the three bounded faults has happened
vars == <<ep, net, app, faults>>

Init ==
  /\ ep = [e \in Ends |-> CbInit]
  /\ net = [e \in Ends |-> {}]
  /\ app = [e \in Ends |-> [sent |-> 0, closed |-> FALSE]]
  /\ faults = [lost |-> 0, dup |-> 0, early |-> 0]

\* What a handler may read that is not modelled; inp: below handle_receive.
Unknown(inp) == [junk : Junk, loss : LossRates, idle : BOOLEAN, force : {FALSE}, inp : {inp}]

\* What is sent joins what is there, in order, while there is room.
Reach(there, sent) ==
  LET with(k) == there \cup {sent[i] : i \in 1 .. k}
  IN  with(Max({0} \cup {k \in 1 .. Len(sent) : Cardinality(with(k)) <= NetCap}))

\* End e is left in c; what c has sent goes to the peer.
Leave(e, c, here) ==
  /\ ep' = [ep EXCEPT ![e] = [c EXCEPT !.out = << >>]]
  /\ net' = [net EXCEPT ![e] = here, ![Peer(e)] = Reach(@, c.out)]
Local(e, cs) == (\E c \in cs : Leave(e, c, net[e])) /\ UNCHANGED <<app, faults>>

----------------------------------------------------------------------------
(* The network. *)

\* handle_receive.  A repeated datagram is delivered and stays in flight.
Deliver(e, p) ==
  /\ ~ep[e].deaf
  /\ \E c \in {Input(ep[e], p, u) : u \in Unknown(TRUE)} : Leave(e, c, net[e] \ {p})
  /\ UNCHANGED <<app, faults>>
Repeat(e, p) ==
  /\ ~ep[e].deaf
  /\ faults.dup < MaxDup
  /\ \E c \in {Input(ep[e], p, u) : u \in Unknown(TRUE)} : Leave(e, c, net[e])
  /\ faults' = [faults EXCEPT !.dup = @ + 1]
  /\ UNCHANGED app
Lose(e, p) ==
  /\ faults.lost < MaxLoss
  /\ net' = [net EXCEPT ![e] = @ \ {p}]
  /\ faults' = [faults EXCEPT !.lost = @ + 1]
  /\ UNCHANGED <<ep, app>>

----------------------------------------------------------------------------
(* The timers of end e. *)

\* A timer of seconds expires when the network is idle, or early.
Idle == \A e \in Ends : net[e] = {} \/ ep[e].deaf
Expire(e, timer, cs) ==
  /\ timer \in Timers
  /\ ep[e][timer]
  /\ Idle \/ faults.early < MaxEarly
  /\ faults' = [faults EXCEPT !.early = IF Idle THEN @ ELSE @ + 1]
  /\ \E c \in cs : Leave(e, c, net[e])
  /\ UNCHANGED app

Rexmt(e) == Expire(e, "rexmt", {RexmtTimeout(ep[e], u) : u \in Unknown(FALSE)})
Persist(e) == Expire(e, "persist", {PersistTimeout(ep[e], u) : u \in Unknown(FALSE)})
Keep(e) == Expire(e, "keep", {KeepTimeout(ep[e], u) : u \in Unknown(FALSE)})
Msl(e) == Expire(e, "msl", {MslTimeout(ep[e], u) : u \in Unknown(FALSE)})
Fast(e) == "DELACK" \in ep[e].flags
           /\ Local(e, {FastTimeout(ep[e], u) : u \in Unknown(FALSE)})
Delay(e) == ep[e].delay /\ Local(e, {DelayTimeout(ep[e])})

----------------------------------------------------------------------------
(* The applications: an end sends after its handler has been called. *)

CanOpen(e) == ep[e].st = "CLOSED" /\ ep[e].deaf /\ ep[e].err = "none"
CanSend(e) == ep[e].up /\ app[e].sent < Len(SendPlan[e])
CanReceive(e) == ep[e].up /\ ep[e].op = 0 /\ ep[e].err = "none" /\ Reads # {}
CanShutdown(e) ==
  /\ ep[e].up /\ ~app[e].closed
  /\ \/ e \in Closers /\ app[e].sent = Len(SendPlan[e])
     \/ e \in Followers /\ ep[e].err = "eof"

Open(e) ==
  /\ CanOpen(e)
  /\ \/ e \in Connectors /\ Local(e, {Connect(ep[e], u) : u \in Unknown(FALSE)})
     \/ e \in Acceptors /\ Local(e, {Accept(ep[e])})
Send(e) ==
  /\ CanSend(e)
  /\ \E c \in {AsyncSend(ep[e], SendPlan[e][app[e].sent + 1], u) : u \in Unknown(FALSE)} :
       Leave(e, c, net[e])
  /\ app' = [app EXCEPT ![e].sent = @ + 1]
  /\ UNCHANGED faults
Receive(e) ==
  /\ CanReceive(e)
  /\ \E n \in Reads : Local(e, {AsyncReceive(ep[e], n, u) : u \in Unknown(FALSE)})
Shutdown(e) ==
  /\ CanShutdown(e)
  /\ \E c \in {AsyncShutdown(ep[e], u) : u \in Unknown(FALSE)} : Leave(e, c, net[e])
  /\ app' = [app EXCEPT ![e].closed = TRUE]
  /\ UNCHANGED faults

Next ==
  \E e \in Ends :
    \/ \E p \in net[e] : Deliver(e, p) \/ Repeat(e, p) \/ Lose(e, p)
    \/ Rexmt(e) \/ Persist(e) \/ Keep(e) \/ Msl(e) \/ Fast(e) \/ Delay(e)
    \/ Open(e) \/ Send(e) \/ Receive(e) \/ Shutdown(e)

Spec == Init /\ [][Next]_vars

\* The io_service runs every handler that is ready and every timer that
\* expires; the applications go on with their plans and read for ever.  These
\* are weak fairness conditions with the enabling condition written out: TLC
\* would evaluate ENABLED by expanding the handlers without sharing.
CanDeliver(e) == ~ep[e].deaf /\ net[e] # {}
CanRexmt(e) == ep[e].rexmt /\ Idle
CanPersist_(e) == ep[e].persist /\ Idle /\ ep[e].st # "CLOSED" /\ ~ep[Peer(e)].deaf
Fairness ==
  \A e \in Ends :
    /\ []<>~CanDeliver(e) \/ []<><<\E p \in net[e] : Deliver(e, p)>>_vars
    /\ []<>~CanRexmt(e) \/ []<><<Rexmt(e)>>_vars
    /\ []<>~CanPersist_(e) \/ []<><<Persist(e)>>_vars
    /\ []<>("DELACK" \notin ep[e].flags) \/ []<><<Fast(e)>>_vars
    /\ []<>~ep[e].delay \/ []<><<Delay(e)>>_vars
    /\ []<>~CanOpen(e) \/ []<><<Open(e)>>_vars
    /\ []<>~CanSend(e) \/ []<><<Send(e)>>_vars
    /\ []<>~CanReceive(e) \/ []<><<Receive(e)>>_vars
    /\ []<>~CanShutdown(e) \/ []<><<Shutdown(e)>>_vars

----------------------------------------------------------------------------
(* Properties. *)

Alive(e) == ep[e].err \in {"none", "eof"} /\ ep[e].st # "CLOSED"
Written(c) == Greatest(0, c.sbseq - 1)
Arrived(c) == Len(c.r.got) + Len(c.r.q)

\* The fields of a control block have their types; m_retrans_data is never
\* negative and the congestion window is never below min_cwnd().
TypeOK ==
  \A e \in Ends : LET c == ep[e] IN
    /\ c.st \in States
    /\ c.err \in {"none", "eof", "timed_out", "connection_reset", "malformed_packet"}
    /\ c.flags \subseteq {"ACKNOW", "DELACK", "NEED_OUTPUT", "NEED_RESET", "NOTIFY_READ",
                          "NOTIFY_WRITE", "NOTIFY_DROP", "SENTFIN"}
    /\ {c.una, c.nxt, c.max, c.fack, c.retrans, c.sbseq, c.wnd, c.dupacks} \subseteq Nat
    /\ c.sb \subseteq [seq : Nat, len : 1 .. MaxSeg, rx : BOOLEAN]
    /\ c.cwnd >= MinCwnd
    /\ c.shift \in 0 .. MaxRxtShift
    /\ c.out = << >>
    /\ Cardinality(net[e]) <= NetCap

\* The assertions of udt_cb_input.cpp, udt_cb_output.cpp, udt_sub.cpp and
\* udt_option.cpp: no step of any handler fails one of them.
NoAssertionFails == \A e \in Ends : ep[e].bad = {} /\ ep[e].r.ok

\* udt_cb.h: m_snd_una <= m_snd_nxt <= m_snd_max, with m_snd_fack between them,
\* whatever the timeouts, SACK blocks and fast retransmits move back.
SeqOrder ==
  \A e \in Ends : LET c == ep[e] IN
    /\ c.una <= c.nxt /\ c.nxt <= c.max
    /\ c.una <= c.fack /\ c.fack <= c.max

\* check_rexmt_data: m_retrans_data is the size of the packets marked as being
\* retransmitted; if it were larger the congestion window would never open.
RetransAccount == \A e \in Ends : ep[e].retrans = SumLen(Marked(ep[e].sb))

\* output, "Persist and retransmit timer are mutually exclusive": a probe and a
\* timeout never compete for snd_nxt.
TimersExclusive == \A e \in Ends : ~(ep[e].rexmt /\ ep[e].persist)

\* handle_fin and TCP_REASS: no datagram acknowledges a sequence number its
\* receiver has not sent; it would call it malformed and drop the connection.
AckWithinSent ==
  \A e \in Ends : \A m \in net[e] : "ACK" \in m.flags => m.ack <= ep[e].max

\* output and udt_option_sack::compose: whatever is delayed or repeated, an
\* acknowledgement on its way names only bytes its sender has accepted, and its
\* SACK blocks only bytes its sender has; one sequence number more, or a FIN
\* counted twice, is acknowledged only behind the last byte of the stream.
AcksTruthful ==
  \A e \in Ends : \A m \in net[e] : "ACK" \in m.flags =>
    LET peer == ep[Peer(e)]
    IN  /\ m.ack <= Arrived(peer) + 1 \/ (ep[e].told /\ Arrived(peer) = Written(ep[e]))
        /\ \A b \in m.sack : \A x \in b[1] .. b[2] - 1 :
             x <= Arrived(peer) \/ \E p \in peer.r.reasm : Holds(p, x)

\* get_snd_pkt, "uh_seq + uh_len <= m_snd_max" and "uh_seq != 0": a packet is sent
\* whole or not at all, by a window probe too, so it is either new or sent again
\* as it was.
SentWhole ==
  \A e \in Ends : \A p \in ep[e].sb :
    p.seq # 0 /\ (p.seq < ep[e].max => p.seq + p.len <= ep[e].max)

\* drop_acked_data and handle_option_sack: a byte leaves the send buffer only
\* when the receiver has accepted it or keeps it for reassembly.
NoDataLost ==
  \A e \in Ends : Alive(e) =>
    \A b \in 1 .. Written(ep[e]) :
      \/ \E p \in ep[e].sb : Holds(p, b)
      \/ b <= Arrived(ep[Peer(e)])
      \/ \E p \in ep[Peer(e)].r.reasm : Holds(p, b)

\* update_snd_wnd: the window the sender believes in ends no later than the
\* peer's receive buffer, whatever order the acknowledgements arrive in.
WindowHonest ==
  \A e \in Ends : LET peer == ep[Peer(e)].r IN
    ep[e].up => ep[e].una + ep[e].wnd <= peer.nxt + Acc(peer)

\* reset_rexmt_timer, "remember to restart (more output or persist)": with data
\* in flight or in the send buffer one of the two timers runs; nothing else
\* would send again if the network stays silent.
TimerArmed ==
  \A e \in Ends : LET c == ep[e] IN
    (Alive(e) /\ c.up /\ (c.una < c.max \/ c.sb # {})) => c.rexmt \/ c.persist

\* update_ack_state: an end is established only when its SYN is acknowledged,
\* and the peer has left LISTEN and SYN_SENT for it.
HandshakeAgreement ==
  \A e \in Ends : ep[e].up =>
    /\ ep[e].una >= 1 /\ ep[e].r.nxt >= 1
    /\ ep[Peer(e)].r.nxt >= 1
    /\ ep[Peer(e)].st \notin {"LISTEN", "SYN_SENT"}

\* update_ack_state: in FIN_WAIT_2 and TIME_WAIT the peer has counted the FIN,
\* and every byte before it has arrived.
FinAgreement ==
  \A e \in Ends : ep[e].st \in {"FIN_WAIT_2", "TIME_WAIT"} =>
    /\ ep[Peer(e)].r.nxt >= ep[e].max
    /\ Arrived(ep[Peer(e)]) = Written(ep[e])

\* The two sockets implement the two streams of UdtStream: async_send commits
\* bytes, input() makes them arrive, async_receive reads them.
Stream == INSTANCE UdtStream WITH
  written <- [e \in Ends |-> Written(ep[e])],
  finished <- [e \in Ends |-> ep[e].told],
  arrived <- [e \in Ends |-> Arrived(ep[e])],
  read <- [e \in Ends |-> ep[e].r.got],
  status <- [e \in Ends |-> IF ep[e].err = "none" THEN "open"
                            ELSE IF ep[e].err = "eof" THEN "eof" ELSE "failed"]
StreamSpec == Stream!Spec

\* async_connect and async_accept: when both ends have opened, and no timer has
\* expired meanwhile, both handlers are called in the end, although fewer
\* datagrams are lost than the retransmit timer is allowed to expire.
AllConnected ==
  (\A e \in Ends : ep[e].st # "CLOSED" /\ ep[e].shift = 0) ~> (\A e \in Ends : ep[e].up)

\* async_send: everything the applications send is read at the other end,
\* although windows close and datagrams are lost.
AllDelivered ==
  <>(\A e \in Ends : Len(ep[Peer(e)].r.got) = SumFunction(SendPlan[e]))

\* async_shutdown at one end, and at the other after eof: both connections end.
AllClosed == <>(\A e \in Ends : ep[e].st = "CLOSED")
=============================================================================
