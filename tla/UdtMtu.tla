------------------------------- MODULE UdtMtu -------------------------------
(* The MTU prober (udt_mtu.cpp): echo requests of falling size, each sent     *)
(* Copies times, until one is answered.  A router that cannot forward a probe *)
(* refuses it, with its own MTU as a hint or without one.  The answers come   *)
(* back in order or not at all; the raw socket also receives the ICMP         *)
(* messages of others.                                                        *)
EXTENDS Naturals, Sequences

CONSTANTS Copies,       \* DEFAULT_SEND_COUNT
          Hops,         \* MTUs of routers
          SilentBelow,  \* bound: routers without hints have at least this MTU
          Limits        \* largest packets the local interface takes

ASSUME MtuAssumption ==
  /\ Copies \in Nat \ {0}
  /\ Hops \subseteq Nat \ {0} /\ Limits \subseteq Nat /\ SilentBelow \in Nat

PACKET_MAXIMUMS == <<1500, 1492, 1006, 576, 544, 512, 508, 296, 68, 0>>
IPHDR_SIZE_BYTE == 20

VARIABLES hop1, hop2, hinting, limit,           \* the route
          mtu, mtu_hint, current_mtu_idx,       \* the index is from 1
          mtuWaits,     \* the receive and the timer are pending
          replies,      \* what is on its way to the raw socket
          mtuQueue,     \* the completion queue of the io_service
          others,       \* ghost: a message that is no answer came
          broken,       \* the thread has left run() with an exception, or loops
          mtuAsks, mtuCalls,
          reported      \* what the caller's handler was told

mtuVars == <<hop1, hop2, hinting, limit, mtu, mtu_hint, current_mtu_idx, mtuWaits, replies,
             mtuQueue, others, broken, mtuAsks, mtuCalls, reported>>
routeVars == <<hop1, hop2, hinting, limit>>

MtuInit ==
  /\ hop1 \in Hops /\ hop2 \in Hops /\ limit \in Limits /\ hinting \in BOOLEAN
  /\ hinting \/ (hop1 >= SilentBelow /\ hop2 >= SilentBelow)
  /\ mtu = 0 /\ mtu_hint = 0 /\ current_mtu_idx = 1
  /\ mtuWaits = FALSE /\ replies = <<>> /\ mtuQueue = <<>>
  /\ others = FALSE /\ broken = FALSE /\ mtuAsks = 0 /\ mtuCalls = 0
  /\ reported = [mtu |-> 0, echo |-> FALSE]

-----------------------------------------------------------------------------
(* The answer of the network to a probe (external). *)
AnswerTo(size) ==
  LET refusal(h) == [type |-> "needfrag", hint |-> IF hinting THEN h ELSE 0]
  IN IF size > hop1 THEN refusal(hop1)
     ELSE IF size > hop2 THEN refusal(hop2) ELSE [type |-> "echo", hint |-> 0]

MtuHandler(op, arg) == [op |-> op, arg |-> arg]

(* Mutant: What is already queued when the caller is told runs nevertheless. *)
MtuNotifyKeeping(echo) ==
  /\ mtuQueue' = (IF mtuQueue = <<>> THEN <<>> ELSE Tail(mtuQueue))
                   \o <<MtuHandler("told", [mtu |-> mtu, echo |-> echo])>>
  /\ mtuWaits' = FALSE
  /\ UNCHANGED <<mtu, current_mtu_idx, replies, broken>>

(* notify(): the tracker is reset, which drops every completion that is queued. *)
MtuNotify(echo) ==
  /\ mtuQueue' = <<MtuHandler("told", [mtu |-> mtu, echo |-> echo])>>
  /\ mtuWaits' = FALSE
  /\ UNCHANGED <<mtu, current_mtu_idx, replies, broken>>

Indices == DOMAIN PACKET_MAXIMUMS
FirstFit(i, size) ==
  CHOOSE j \in Indices : /\ j >= i /\ PACKET_MAXIMUMS[j] <= size
                         /\ \A k \in i..j-1 : PACKET_MAXIMUMS[k] > size

(* prepare_data() and the sends: what the interface does not take is followed   *)
(* by the next smaller size, but a hint is taken again for ever.  A size below  *)
(* that of the IP header makes the resize of the buffer throw.                  *)
SendSize(hint) ==
  LET i == FirstFit(IF hint # 0 THEN 1 ELSE current_mtu_idx, IF hint # 0 THEN hint ELSE limit)
      size == IF hint # 0 THEN hint ELSE PACKET_MAXIMUMS[i]
      fails == size < IPHDR_SIZE_BYTE \/ size > limit
  IN /\ mtu' = size /\ current_mtu_idx' = i + 1
     /\ broken' = fails
     /\ mtuWaits' = ~fails
     /\ replies' = IF fails THEN replies ELSE replies \o [c \in 1..Copies |-> AnswerTo(size)]

(* send_echo(), when it answers the head of the queue or the first call. *)
SendEcho(hint, rest) ==
  \/ /\ hint # 0 \/ current_mtu_idx \in Indices
     /\ SendSize(hint)
     /\ mtuQueue' = rest
  \/ MtuNotify(FALSE)           \* the send fails

(* create() and async_probe_mtu() *)
AsyncProbeMtu ==
  /\ mtuAsks = 0
  /\ mtuAsks' = 1
  /\ SendEcho(0, <<>>)
  /\ UNCHANGED <<routeVars, mtu_hint, others, mtuCalls, reported>>

(* Mutant: Any ICMP message is taken for the echo reply. *)
IsEchoAlways(r) == TRUE

IsEcho(r) == r.type = "echo"

(* handle_recv *)
HandleRecv(r) ==
  \/ /\ IsEcho(r) \/ r.type = "other"
     /\ MtuNotify(IsEcho(r))
     /\ UNCHANGED mtu_hint
  \/ /\ ~IsEcho(r) /\ r.type = "needfrag"
     /\ mtu_hint' = r.hint
     /\ SendEcho(r.hint, Tail(mtuQueue))

(* handle_timeout *)
HandleTimeout == MtuNotify(FALSE) /\ UNCHANGED mtu_hint

HandlerTold(v) ==
  /\ mtuCalls' = mtuCalls + 1 /\ reported' = v
  /\ mtuQueue' = Tail(mtuQueue)
  /\ UNCHANGED <<mtu, mtu_hint, current_mtu_idx, mtuWaits, replies, broken>>

MtuRunOne ==
  /\ ~broken /\ mtuQueue # <<>>
  /\ LET h == Head(mtuQueue)
     IN \/ h.op = "told" /\ HandlerTold(h.arg)
        \/ /\ \/ h.op = "recv" /\ HandleRecv(h.arg)
              \/ h.op = "timer" /\ HandleTimeout
           /\ UNCHANGED <<mtuCalls, reported>>
  /\ UNCHANGED <<routeVars, others, mtuAsks>>

-----------------------------------------------------------------------------
(* A reply ends the receive, is lost on its way, or something else comes first. *)
(* The timer stays on until the handler cancels it.                             *)
Receiving == mtuWaits /\ \A i \in DOMAIN mtuQueue : mtuQueue[i].op # "recv"

ReplyArrives ==
  /\ Receiving
  /\ \/ /\ replies # <<>>
        /\ mtuQueue' = Append(mtuQueue, MtuHandler("recv", Head(replies)))
        /\ replies' = Tail(replies)
        /\ UNCHANGED others
     \/ /\ ~others /\ others' = TRUE
        /\ \E type \in {"echo", "other"} :
             mtuQueue' = Append(mtuQueue, MtuHandler("recv", [type |-> type, hint |-> 0]))
        /\ UNCHANGED replies
  /\ UNCHANGED <<routeVars, mtu, mtu_hint, current_mtu_idx, mtuWaits, broken, mtuAsks, mtuCalls,
                 reported>>

ReplyLost ==
  /\ replies # <<>>
  /\ replies' = Tail(replies)
  /\ UNCHANGED <<routeVars, mtu, mtu_hint, current_mtu_idx, mtuWaits, mtuQueue, others, broken,
                 mtuAsks, mtuCalls, reported>>

(* The timer of the current probe expires, once. *)
TimerExpires ==
  /\ mtuWaits /\ \A i \in DOMAIN mtuQueue : mtuQueue[i].op # "timer"
  /\ mtuQueue' = Append(mtuQueue, MtuHandler("timer", [type |-> "none", hint |-> 0]))
  /\ UNCHANGED <<routeVars, mtu, mtu_hint, current_mtu_idx, mtuWaits, replies, others, broken,
                 mtuAsks, mtuCalls, reported>>

MtuNext == AsyncProbeMtu \/ MtuRunOne \/ ReplyArrives \/ ReplyLost \/ TimerExpires

MtuFairness == WF_mtuVars(MtuRunOne) /\ WF_mtuVars(TimerExpires)

MtuSpec == MtuInit /\ [][MtuNext]_mtuVars
-----------------------------------------------------------------------------
(* The caller of async_probe_mtu is answered, once, whatever comes, is lost or   *)
(* times out: the reset of the tracker drops the completion that comes second.  *)
MtuShot == INSTANCE OneShot WITH asks <- mtuAsks, calls <- mtuCalls
MtuOneShot == MtuShot!OneSpec

(* A size that is reported because of an echo reply passes every router and the *)
(* interface, although mtu_ has been set for later probes by then, unless a     *)
(* message of somebody else was taken for an answer.                            *)
MtuFits ==
  reported.echo /\ ~others =>
    reported.mtu <= hop1 /\ reported.mtu <= hop2 /\ reported.mtu <= limit

(* The last entry of the table is a marker (udt_mtu.cpp:18) and is never probed. *)
MarkerIsNoMtu == current_mtu_idx > 1 => mtu # 0
=============================================================================
