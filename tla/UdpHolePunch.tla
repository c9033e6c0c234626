---------------------------- MODULE UdpHolePunch ----------------------------
(* Two ends that punch a hole to each other (udp_hp_clt.cpp).  Each knows     *)
(* several endpoints of the other, that is several paths, sends to all of     *)
(* them, and reports those on which a handshake was completed.  A path may be *)
(* dead, or lead through a NAT that lets a datagram in only after its end has *)
(* sent one out.  The three copies of a datagram are one message.             *)
EXTENDS Naturals, Sequences, FiniteSets

CONSTANTS Ends,         \* the two ends
          Paths,        \* endpoints an end may have
          Natted,       \* those that lie behind a NAT
          MaxTimeouts,  \* DFT_TIMEOUT_COUNT
          MaxFaults     \* bound: losses, receive errors, early timeouts

ASSUME PunchAssumption ==
  /\ IsFiniteSet(Ends) /\ Cardinality(Ends) = 2
  /\ Natted \subseteq Paths
  /\ MaxTimeouts \in Nat \ {0} /\ MaxFaults \in Nat

VARIABLES usable,       \* paths that carry datagrams at all
          state,        \* endpoint_info_t::state of each path of each end
          peer_eps,     \* endpoints still in peer_eps_
          receiving,    \* a receive is pending
          remain,       \* remain_count of the timer, 0 when it is off
          last_error,
          posted,       \* handlers posted by notify() and not yet run
          outcomes,     \* what the caller's handler was told
          datagrams,
          heard,        \* ghost: paths on which an end has had a SYN
          faults

punchVars == <<usable, state, peer_eps, receiving, remain, last_error, posted, outcomes,
               datagrams, heard, faults>>

States == {"CLOSED", "SYN_SENT", "SYN_RECEIVED", "ESTABLISHED"}
Flags == {{"SYN"}, {"SYN", "ACK"}, {"ACK"}}
Messages == [to : Ends, path : Paths, flags : Flags]
Outcomes == [e : {"none", "error", "timed_out"}, eps : SUBSET Paths]

Peer(x) == CHOOSE y \in Ends : y # x

PunchTypeOK ==
  /\ usable \subseteq Paths
  /\ state \in [Ends -> [Paths -> States]]
  /\ peer_eps \in [Ends -> SUBSET Paths]
  /\ receiving \in [Ends -> BOOLEAN]
  /\ remain \in [Ends -> 0..MaxTimeouts]
  /\ last_error \in [Ends -> {"none", "error", "timed_out"}]
  /\ posted \in [Ends -> Seq(Outcomes)]
  /\ outcomes \in [Ends -> SUBSET Outcomes]
  /\ datagrams \subseteq Messages
  /\ heard \in [Ends -> SUBSET Paths]
  /\ faults \in 0..MaxFaults

PunchInit ==
  /\ usable \in SUBSET Paths
  /\ state = [x \in Ends |-> [p \in Paths |-> "CLOSED"]]
  /\ peer_eps = [x \in Ends |-> {}]
  /\ receiving = [x \in Ends |-> FALSE]
  /\ remain = [x \in Ends |-> 0]
  /\ last_error = [x \in Ends |-> "none"]
  /\ posted = [x \in Ends |-> <<>>]
  /\ outcomes = [x \in Ends |-> {}]
  /\ datagrams = {}
  /\ heard = [x \in Ends |-> {}]
  /\ faults = 0

-----------------------------------------------------------------------------
HasStarted(x) == state[x] # [p \in Paths |-> "CLOSED"] \/ outcomes[x] # {}

Established(s, eps) == {p \in eps : s[p] = "ESTABLISHED"}

FlagsOf(s) == CASE s = "SYN_SENT" -> {"SYN"}
                [] s = "SYN_RECEIVED" -> {"SYN", "ACK"}
                [] s = "ESTABLISHED" -> {"ACK"}

(* output(): a datagram to every endpoint in the map.  What is sent to an end    *)
(* whose client is gone is left out, nobody receives it.                         *)
Output(x, s, eps) ==
  IF outcomes[Peer(x)] # {} THEN {}
  ELSE {[to |-> Peer(x), path |-> p, flags |-> FlagsOf(s[p])] : p \in eps \cap usable}

(* notify() *)
HpNotify(x, s, eps, e) ==
  posted' = [posted EXCEPT ![x] = Append(@, [e |-> e, eps |-> Established(s, eps)])]

(* async_hole_punch(): the caller knows some of the endpoints. *)
AsyncHolePunch(x) ==
  /\ ~HasStarted(x)
  /\ \E eps \in SUBSET Paths \ {{}} :
       LET s == [p \in Paths |-> IF p \in eps THEN "SYN_SENT" ELSE "CLOSED"]
       IN /\ state' = [state EXCEPT ![x] = s]
          /\ peer_eps' = [peer_eps EXCEPT ![x] = eps]
          /\ datagrams' = datagrams \cup Output(x, s, eps)
  /\ receiving' = [receiving EXCEPT ![x] = TRUE]
  /\ remain' = [remain EXCEPT ![x] = MaxTimeouts]
  /\ UNCHANGED <<usable, last_error, posted, outcomes, heard, faults>>

(* Mutant: A second SYN, which means that nothing has come back, opens the path. *)
NextStateTwice(s, flags) ==
  IF "SYN" \in flags /\ s \in {"CLOSED", "SYN_SENT"}
  THEN IF "ACK" \in flags THEN "ESTABLISHED" ELSE "SYN_RECEIVED"
  ELSE IF s = "SYN_RECEIVED" THEN "ESTABLISHED" ELSE s

(* handle_peer_resp: the next state of an endpoint. *)
NextState(s, flags) ==
  LET opened == IF "SYN" \in flags /\ s \in {"CLOSED", "SYN_SENT"} THEN "SYN_RECEIVED" ELSE s
  IN IF "ACK" \in flags /\ opened = "SYN_RECEIVED" THEN "ESTABLISHED" ELSE opened

(* Mutant: A SYN|ACK is not acknowledged. *)
NeedOutputSyn(s, flags) == flags = {"SYN"} /\ s \in {"CLOSED", "SYN_SENT"}

NeedOutput(s, flags) == "SYN" \in flags /\ s \in {"CLOSED", "SYN_SENT"}

Deliverable(m) ==
  /\ receiving[m.to]
  /\ m.path \in Natted => HasStarted(m.to)

(* handle_async_receive without an error *)
HpReceive(m) ==
  LET x == m.to
      p == m.path
      s == [state[x] EXCEPT ![p] = NextState(@, m.flags)]
      rest == datagrams \ {m}
  IN /\ m \in datagrams /\ Deliverable(m)
     /\ \/ /\ p \notin peer_eps[x]
           /\ datagrams' = rest
           /\ UNCHANGED <<state, receiving, posted, heard>>
        \/ /\ p \in peer_eps[x]
           /\ state' = [state EXCEPT ![x] = s]
           /\ datagrams' = rest \cup (IF NeedOutput(state[x][p], m.flags)
                                     THEN Output(x, s, peer_eps[x]) ELSE {})
           /\ heard' = [heard EXCEPT ![x] = IF "SYN" \in m.flags THEN @ \cup {p} ELSE @]
           /\ \/ /\ s[p] = "ESTABLISHED"
                 /\ receiving' = [receiving EXCEPT ![x] = FALSE]
                 /\ HpNotify(x, s, peer_eps[x], last_error[x])
              \/ /\ s[p] # "ESTABLISHED"
                 /\ UNCHANGED <<receiving, posted>>
     /\ UNCHANGED <<usable, peer_eps, remain, last_error, outcomes, faults>>

(* handle_async_receive with an error: the endpoint that remote_ep_ names, which *)
(* the failed receive need not have set, is erased.                              *)
ReceiveError(x) ==
  /\ receiving[x] /\ faults < MaxFaults
  /\ faults' = faults + 1
  /\ \E p \in peer_eps[x] :
       LET left == peer_eps[x] \ {p}
       IN /\ peer_eps' = [peer_eps EXCEPT ![x] = left]
          /\ \/ /\ left = {}
                /\ last_error' = [last_error EXCEPT ![x] = "error"]
                /\ receiving' = [receiving EXCEPT ![x] = FALSE]
                /\ HpNotify(x, state[x], left, "error")
             \/ /\ left # {}
                /\ UNCHANGED <<last_error, receiving, posted>>
  /\ UNCHANGED <<usable, state, remain, outcomes, datagrams, heard>>

Idle == \A m \in datagrams : ~Deliverable(m)

(* Mutant: The last timeout only sends again. *)
HandleAsyncTimeoutSilent(x) ==
  /\ remain[x] > 0
  /\ datagrams' = datagrams \cup Output(x, state[x], peer_eps[x])
  /\ remain' = [remain EXCEPT ![x] = @ - 1]
  /\ UNCHANGED <<usable, state, peer_eps, receiving, last_error, posted, outcomes, heard, faults>>

(* handle_async_timeout.  The timer is of seconds: it expires when nothing is on *)
(* its way, or early, which counts as a fault.                                   *)
HandleAsyncTimeout(x) ==
  /\ remain[x] > 0
  /\ \/ Idle /\ UNCHANGED faults
     \/ ~Idle /\ faults < MaxFaults /\ faults' = faults + 1
  /\ datagrams' = datagrams \cup Output(x, state[x], peer_eps[x])
  /\ remain' = [remain EXCEPT ![x] = @ - 1]
  /\ \/ /\ remain[x] = 1
        /\ last_error' = [last_error EXCEPT ![x] = "timed_out"]
        /\ HpNotify(x, state[x], peer_eps[x], "timed_out")
     \/ /\ remain[x] > 1
        /\ UNCHANGED <<last_error, posted>>
  /\ UNCHANGED <<usable, state, peer_eps, receiving, outcomes, heard>>

(* The handler that notify() posted: udt_engine deletes the client and calls the *)
(* caller's handler.                                                             *)
HandleAsyncHolePunch(x) ==
  /\ posted[x] # <<>>
  /\ outcomes' = [outcomes EXCEPT ![x] = @ \cup {Head(posted[x])}]
  /\ posted' = [posted EXCEPT ![x] = Tail(@)]
  /\ state' = [state EXCEPT ![x] = [p \in Paths |-> "CLOSED"]]
  /\ peer_eps' = [peer_eps EXCEPT ![x] = {}]
  /\ receiving' = [receiving EXCEPT ![x] = FALSE]
  /\ remain' = [remain EXCEPT ![x] = 0]
  /\ datagrams' = {m \in datagrams : m.to # x}
  /\ UNCHANGED <<usable, last_error, heard, faults>>

(* The network: a datagram is lost, or stopped by a NAT.  One on an open path     *)
(* waits in the socket for the first receive.                                     *)
Lose(m) ==
  /\ m \in datagrams
  /\ \/ /\ Deliverable(m) /\ faults < MaxFaults
        /\ faults' = faults + 1
     \/ /\ m.path \in Natted /\ ~HasStarted(m.to)
        /\ UNCHANGED faults
  /\ datagrams' = datagrams \ {m}
  /\ UNCHANGED <<usable, state, peer_eps, receiving, remain, last_error, posted, outcomes, heard>>

PunchNext ==
  \/ \E x \in Ends : \/ AsyncHolePunch(x) \/ ReceiveError(x)
                     \/ HandleAsyncTimeout(x) \/ HandleAsyncHolePunch(x)
  \/ \E m \in datagrams : Lose(m) \/ HpReceive(m)

PunchSpec == PunchInit /\ [][PunchNext]_punchVars

(* The handlers of an end run, and what reaches it is received, sooner or later. *)
PunchFairness ==
  \A x \in Ends :
    /\ WF_punchVars(HandleAsyncTimeout(x)) /\ WF_punchVars(HandleAsyncHolePunch(x))
    /\ WF_punchVars(\E m \in datagrams : m.to = x /\ HpReceive(m))

-----------------------------------------------------------------------------
(* What an end is told: an endpoint only if datagrams have gone both ways on it, *)
(* each end having had a SYN of the other there; and without an error at least   *)
(* one endpoint, which the caller goes on to use.                                *)
PunchAgreement ==
  \A x \in Ends : \A o \in outcomes[x] :
    /\ \A p \in o.eps : p \in heard[x] /\ p \in heard[Peer(x)]
    /\ o.e = "none" => o.eps # {}

Succeeded(x) == \E o \in outcomes[x] : o.eps # {}

(* An end that has asked is told something.                                      *)
PunchEnds == \A x \in Ends : remain[x] > 0 ~> outcomes[x] # {}

(* When one end succeeds, the other, if it has not given up by then, succeeds    *)
(* too, provided the network did nothing wrong: the acknowledgement that the     *)
(* first sends before it stops listening is the only one there will be.          *)
PunchBoth ==
  \A x \in Ends :
    Succeeded(x) /\ remain[Peer(x)] > 0 ~> Succeeded(Peer(x)) \/ faults > 0
=============================================================================
