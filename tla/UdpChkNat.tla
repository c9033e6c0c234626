------------------------------ MODULE UdpChkNat ------------------------------
(* The NAT type check (udp_chknat.cpp): two servers are resolved, four probes *)
(* are sent, and the kind of NAT is concluded from the answers that come.     *)
(*                                                                           *)
(* completions is the queue of the io_service.  A completion carries a weak   *)
(* reference to the tracker and does nothing once the tracker was reset, so   *)
(* the reset drops it here.  An endpoint is an address and a port: a NAT that *)
(* maps independently of the destination shows both servers the same, a       *)
(* symmetric NAT shows the second one another address, port or both.          *)
EXTENDS Naturals, Sequences, FiniteSets

CONSTANT MaxEvents      \* bound: checks made, datagrams that are no answer to a
                        \* probe, and resolutions by other objects, together

ASSUME ChkNatAssumption == MaxEvents \in Nat

VARIABLES nat,          \* the NAT between the client and the servers
          other_ep,     \* what the NAT shows the second server
          other_ip,     \* where the server sends from when asked for another IP
          server_eps,   \* servers resolved; static, shared by all objects
          eps_seen,     \* nat_info_.eps: the endpoints reported
          nat_type,     \* nat_info_.nat_type
          resp_bitmap,
          chk_error,    \* last_error_
          resolving, receives, waiting,     \* operations pending
          completions,
          answers,      \* datagrams on their way
          extra,        \* ghost: events that are not of this check
          natAsks, natCalls,
          verdict       \* what the last handler was told

natVars == <<nat, other_ep, other_ip, server_eps, eps_seen, nat_type, resp_bitmap, chk_error,
             resolving, receives, waiting, completions, answers, extra, natAsks, natCalls,
             verdict>>
netVars == <<nat, other_ep, other_ip>>

Cones == {"full_cone", "restrict_cone", "port_restrict_cone"}
NatTypes == Cones \cup {"wan", "fw_block", "symmetric"}
Probes == 0..3
Beyond == 4             \* an index outside nat_info_.eps
Servers == {"n1", "n2"}

Endpoints == [ip : {"ip1", "ip2"}, port : {"p1", "p2"}]
FirstEp == [ip |-> "ip1", port |-> "p1"]
NoEp == [ip |-> "none", port |-> "none"]

NatInit ==
  /\ nat \in NatTypes /\ other_ip \in {"n1", "n1_other"}
  /\ other_ep \in Endpoints /\ (other_ep # FirstEp <=> nat = "symmetric")
  /\ server_eps = {} /\ eps_seen = [i \in Probes |-> NoEp] /\ nat_type = "none"
  /\ resp_bitmap = {}
  /\ chk_error = "none" /\ resolving = {} /\ receives = 0 /\ waiting = FALSE
  /\ completions = <<>> /\ answers = {}
  /\ extra = 0 /\ natAsks = 0 /\ natCalls = 0
  /\ verdict = [e |-> "none", type |-> "none"]

Completion(op, arg) == [op |-> op, arg |-> arg]

-----------------------------------------------------------------------------
(* The servers and the NAT (external).  A=0 is answered by the first server, A=1 *)
(* by the second, B=2 from the other IP, which may be the first server's address *)
(* or another port there, C=3 from another port of the second.                   *)
Sources(i) ==
  CASE i = 0 -> {"n1"}
    [] i = 1 -> {"n2"}
    [] i = 2 -> {other_ip}
    [] i = 3 -> {"n2_other"}

(* Sources whose datagrams come back through the mapping that a probe made. *)
Admitted(i) ==
  CASE nat \in {"wan", "full_cone", "restrict_cone"} -> Servers \cup {"n1_other", "n2_other"}
    [] nat = "port_restrict_cone" -> Servers
    [] nat = "symmetric" -> IF i = 0 THEN {"n1"} ELSE {"n2"}
    [] nat = "fw_block" -> {}

(* Where the server that answers a probe saw it come from. *)
SeenEp(i) == IF i = 0 THEN FirstEp ELSE other_ep

Strays == {[probe |-> 0, from |-> "stranger"], [probe |-> Beyond, from |-> "n1"]}

AllAnswers == {[probe |-> i, from |-> f] : i \in Probes, f \in Servers \cup {"n1_other", "n2_other"}}

Returned ==
  {a \in AllAnswers : a.from \in Sources(a.probe) \cap Admitted(a.probe)}

-----------------------------------------------------------------------------
(* send_request(), after async_receive().  An answer that never arrives is lost. *)
SendRequest(q) ==
  /\ receives' = receives + 1 /\ waiting' = TRUE
  /\ answers' = answers \cup Returned
  /\ completions' = q

(* create() and async_chknat(): the bitmap is cleared, nat_info_ and last_error_ *)
(* are not.                                                                      *)
AsyncChknat ==
  /\ natAsks = natCalls /\ natAsks + extra < MaxEvents
  /\ natAsks' = natAsks + 1
  /\ resp_bitmap' = {}
  /\ resolving' = Servers \ server_eps
  /\ \/ server_eps = Servers /\ SendRequest(completions)
     \/ server_eps # Servers /\ UNCHANGED <<receives, waiting, answers, completions>>
  /\ UNCHANGED <<netVars, server_eps, eps_seen, nat_type, chk_error, extra, natCalls, verdict>>

(* Mutant: notify() does not reset the tracker. *)
ResetTrackerNever == Tail(completions)

(* What is left of the queue when the tracker is reset: the caller asks again only *)
(* after it was told, so no handler of its own is queued then.                     *)
ResetTracker == <<>>

(* notify(): cancel() resets the tracker and ends what is pending, then the *)
(* handler is posted with last_error_ and nat_info_ as they are.            *)
NatNotify(type, e) ==
  /\ nat_type' = type
  /\ completions' = Append(ResetTracker, Completion("told", [e |-> e, type |-> type]))
  /\ resolving' = {} /\ receives' = 0 /\ waiting' = FALSE

(* finish(): resp_bitmap_ is full. *)
Finish(bitmap) == bitmap = Probes

(* analyze(): of two endpoints it compares the ports. *)
Analyze(eps) ==
  CASE eps[0] = NoEp -> "fw_block"
    [] eps[0] # NoEp /\ nat = "wan" -> "wan"
    [] eps[0] # NoEp /\ nat # "wan" /\ eps[0].port # eps[1].port -> "symmetric"
    [] eps[0] # NoEp /\ nat # "wan" /\ eps[0].port = eps[1].port ->
         LET got == {i \in {2, 3} : eps[i] # NoEp}
         IN IF got = {2, 3} THEN "full_cone"
            ELSE IF got = {} THEN "port_restrict_cone" ELSE "restrict_cone"

(* handle_async_resolve_server; a resolver that finds nothing reports no error. *)
HandleAsyncResolveServer(i) ==
  /\ \/ /\ chk_error' \in {"resolve", "none"}
        /\ NatNotify(nat_type, chk_error')
        /\ UNCHANGED <<server_eps, answers>>
     \/ /\ server_eps' = server_eps \cup {i}
        /\ IF server_eps' = Servers THEN SendRequest(Tail(completions))
           ELSE completions' = Tail(completions) /\ UNCHANGED <<receives, waiting, answers>>
        /\ UNCHANGED <<nat_type, chk_error, resolving>>
  /\ UNCHANGED <<eps_seen, resp_bitmap>>

(* Mutant: An answer counts wherever it comes from. *)
FromAnyone(a) == TRUE

(* An answer counts only if it is from one of the two servers' endpoints. *)
FromServer(a) == a.from \in Servers

(* The check of the index, idx >= 0 || idx < 4, lets every index pass.  One past  *)
(* the table writes the endpoint over resp_bitmap_, which lies behind nat_info_:  *)
(* its first two bytes are the address family, 2 and 0, the others the port.      *)
Marked(a) ==
  CASE ~FromServer(a) -> {resp_bitmap}
    [] FromServer(a) /\ a.probe \in Probes -> {resp_bitmap \cup {a.probe}}
    [] FromServer(a) /\ a.probe = Beyond -> {{0} \cup port : port \in SUBSET {2, 3}}

(* handle_async_receive: every datagram starts the timer again. *)
HandleAsyncReceive(a) ==
  LET eps == IF FromServer(a) /\ a.probe \in Probes
             THEN [eps_seen EXCEPT ![a.probe] = SeenEp(a.probe)] ELSE eps_seen
  IN /\ eps_seen' = eps
     /\ resp_bitmap' \in Marked(a)
     /\ \/ /\ FromServer(a) /\ Finish(resp_bitmap')
           /\ NatNotify(Analyze(eps), chk_error)
        \/ /\ ~(FromServer(a) /\ Finish(resp_bitmap'))
           /\ completions' = Tail(completions)
           /\ receives' = receives + 1 /\ waiting' = TRUE
           /\ UNCHANGED <<nat_type, resolving>>
     /\ UNCHANGED <<server_eps, chk_error, answers>>

(* An error of the receive, or a datagram without a byte, which is no error, ends *)
(* the check.                                                                     *)
HandleReceiveEnd(e) ==
  /\ chk_error' = e
  /\ NatNotify(nat_type, e)
  /\ UNCHANGED <<server_eps, eps_seen, resp_bitmap, answers>>

(* handle_async_wait *)
HandleAsyncWait ==
  /\ NatNotify(Analyze(eps_seen), chk_error)
  /\ UNCHANGED <<server_eps, eps_seen, resp_bitmap, chk_error, answers>>

HandlerRuns(v) ==
  /\ natCalls' = natCalls + 1 /\ verdict' = v
  /\ completions' = Tail(completions)
  /\ UNCHANGED <<netVars, server_eps, eps_seen, nat_type, resp_bitmap, chk_error, resolving,
                 receives, waiting, answers, extra, natAsks>>

NatRunOne ==
  /\ completions # <<>>
  /\ LET h == Head(completions)
     IN \/ h.op = "told" /\ HandlerRuns(h.arg)
        \/ /\ \/ h.op = "resolve" /\ HandleAsyncResolveServer(h.arg)
              \/ h.op = "receive" /\ HandleAsyncReceive(h.arg)
              \/ h.op = "end" /\ HandleReceiveEnd(h.arg)
              \/ h.op = "timer" /\ HandleAsyncWait
           /\ UNCHANGED <<netVars, extra, natAsks, natCalls, verdict>>

-----------------------------------------------------------------------------
(* Completions. *)
ResolverDone(i) ==
  /\ i \in resolving
  /\ resolving' = resolving \ {i}
  /\ completions' = Append(completions, Completion("resolve", i))
  /\ UNCHANGED <<netVars, server_eps, eps_seen, nat_type, resp_bitmap, chk_error, receives, waiting, answers,
                 extra, natAsks, natCalls, verdict>>

TimerFires ==
  /\ waiting
  /\ waiting' = FALSE
  /\ completions' = Append(completions, Completion("timer", 0))
  /\ UNCHANGED <<netVars, server_eps, eps_seen, nat_type, resp_bitmap, chk_error, resolving, receives,
                 answers, extra, natAsks, natCalls, verdict>>

(* An answer, a datagram of somebody else, one of a server with an index outside *)
(* the table, one without a byte, or an error ends a receive.                    *)
Datagram ==
  /\ receives > 0
  /\ receives' = receives - 1
  /\ \/ \E a \in answers : /\ answers' = answers \ {a}
                       /\ completions' = Append(completions, Completion("receive", a))
                       /\ UNCHANGED extra
     \/ /\ natAsks + extra < MaxEvents /\ extra' = extra + 1
        /\ \/ \E a \in Strays : completions' = Append(completions, Completion("receive", a))
           \/ \E e \in {"receive", "none"} : completions' = Append(completions, Completion("end", e))
        /\ UNCHANGED answers
  /\ UNCHANGED <<netVars, server_eps, eps_seen, nat_type, resp_bitmap, chk_error, resolving, waiting,
                 natAsks, natCalls, verdict>>

(* Another object resolves a server. *)
OtherObjectResolves ==
  /\ natAsks + extra < MaxEvents /\ extra' = extra + 1
  /\ \E i \in Servers \ server_eps : server_eps' = server_eps \cup {i}
  /\ UNCHANGED <<netVars, eps_seen, nat_type, resp_bitmap, chk_error, resolving, receives, waiting, completions,
                 answers, natAsks, natCalls, verdict>>

NatNext ==
  \/ AsyncChknat \/ NatRunOne \/ TimerFires \/ Datagram \/ OtherObjectResolves
  \/ \E i \in Servers : ResolverDone(i)

NatFairness ==
  /\ WF_natVars(NatRunOne) /\ WF_natVars(TimerFires)
  /\ \A i \in Servers : WF_natVars(ResolverDone(i))

NatSpec == NatInit /\ [][NatNext]_natVars /\ NatFairness

-----------------------------------------------------------------------------
(* Every check is answered, once: notify() resets the tracker, which drops what *)
(* the timer, the resolver and the receives have already completed.             *)
NatShot == INSTANCE OneShot WITH asks <- natAsks, calls <- natCalls
NatOneShot == NatShot!OneSpec

(* The verdict never promises more than the NAT allows: no client behind a       *)
(* symmetric NAT is told it is full or address restricted, no cone is taken for  *)
(* a full cone, and only a host with a public address is told so, whatever is    *)
(* lost, from whomever datagrams come, and however often the object was used     *)
(* before, its errors included, which pass an earlier verdict on.  A symmetric   *)
(* NAT is told it is port restricted in one case only: it shows the servers two  *)
(* addresses with the same port, and analyze() compares ports where chknat.txt,  *)
(* third step, asks for address and port (udp_chknat.cpp:219).                   *)
NatVerdict ==
  /\ verdict.type \in {"full_cone", "restrict_cone"} => nat \in Cones
  /\ verdict.type = "port_restrict_cone" =>
       nat \in Cones \/ (nat = "symmetric" /\ other_ep.port = FirstEp.port)
  /\ verdict.type = "full_cone" => nat = "full_cone"
  /\ verdict.type = "wan" => nat = "wan"
=============================================================================
