# A TLA+ development of udt-boost

udt-boost is a reliable byte stream over UDP for Windows, written in C++ on
Boost.Asio and modelled on the BSD TCP code: sequence numbers, cumulative
acknowledgements with SACK, a retransmit and a persist timer, fast retransmit, a
FIN handshake.  Around it are an engine with one worker thread, UDP hole punching,
a client that learns its public address, a NAT type check and an MTU prober.
This directory holds TLA+ modules of the connection and of what surrounds it, the TLC
configurations that check them, and TLAPS proofs about the receive path, the
connection and the services.

Run a check with `tlc -config receiver.cfg MCUdtReceiver.tla`.  The configurations
`receiver*` belong to `MCUdtReceiver`, `services` to `MCUdtServices`, `mtu_end` to `UdtMtu`,
the others to `MCUdtConn`.  A proof is checked with `tlapm UdtReceiverProofs.tla`, or any other
module whose name ends in `Proofs`.

## 1. Inventory

| component | source | state | operations | what makes it correct |
|---|---|---|---|---|
| control block `udt_cb` | `udt_cb*.{h,cpp}`, `udt_timo.cpp`, `udt_sub.cpp`, `udt_usrreq.cpp` | state, flags, send and receive variables, four slow timers, last error | `input`, `output`, `connect`, `accept`, `shutdown`, `drop`, timers | the stream arrives complete and in order; nothing unacknowledged is forgotten; something always runs that sends again; both ends open and close |
| receive path | `udt_cb_input.cpp` (TCP_REASS, merge), `udt_buf.cpp` | `m_rcv_nxt`, `m_rcv_adv`, receive buffer, reassembly queue | window check, reassembly, copy to the application, window and SACK composition | no byte invented, skipped or repeated; no acknowledgement of a hole; no overrun; eof only at the end |
| send path | `udt_cb_output.cpp`, `udt_cb_input.cpp` (acknowledgements) | `m_snd_una/nxt/max/fack`, `m_retrans_data`, send buffer, `m_snd_wnd`, `m_snd_cwnd` | segmentation, retransmission, fast retransmit, SACK | `una <= nxt <= max`; the account of retransmitted data is exact; data is freed only when the peer has it |
| RTT estimator | `udt_sub.cpp`, `udt_cb.h` | `m_srtt`, `m_rttvar`, `m_rxtcur`, `m_rxtshift` in 16 bits | `xmit_timer`, back-off | the timeout stays in its bounds and recovers |
| socket `udt_socket` | `udt_socket.{h,cpp}` | queues of send and receive operations, three handlers, delayed-copy timer | `async_*`, `handle_receive`, `cancel`, `close`, `setsockopt` | every handler is called once, with the right bytes |
| option, header | `udt_option.*`, `udt_defs.*` | none | encode, decode, modular comparison | round trip; order across the wrap |
| engine | `udt_engine.*`, `singleton.h` | thread, socket set | `run`, `stop`, calls posted to the `io_service` | nobody waits for a handler that will not run; no use after delete |
| timers, trackers, invoke | `timer.*`, `tracker.h`, `utils.*` | a Boost timer, a weak reference | `start`, `stop`, `invoke_io_service` | no handler runs on a dead object |
| hole punching | `udp_hp_clt.*` | a state for each candidate endpoint | `async_hole_punch`, receive, timeout | both sides agree on an endpoint; the handler is called once |
| public address, NAT check | `udp_pub_addr.*`, `udp_chknat.*` | request id, answers, timer | one exchange, classification | an answer or a timeout, not both |
| MTU prober | `udt_mtu.*` | table index, hint | echo, reply, timeout | ends with a size that passed |
| errors, log, ticker, tests, analyzer | the rest | none | | |

How they interact.  The application calls `udt_socket`; the socket owns one
`udt_cb`, a send and a receive buffer, and the UDP socket below.  A datagram that
arrives runs `handle_receive`, which calls `udt_cb::input`; that calls `output` and
the call-backs `on_readable`, `on_writable`, `on_connected`, `on_disconnected` of the
socket from `commit_notifies`.  Two periodic timers (200 ms, 500 ms) drive delayed
acknowledgements and the four slow timers.  All this happens on the one thread of the
`io_service`, so a handler is atomic; the concurrency is that of two ends, the network
between them, the timers and the applications.  The other threads of the program
only post work (engine) or race in `singleton.h`.

What is hard: datagrams in any order, lost or repeated; timeouts that race the answer;
acknowledgements and windows that are old when they arrive; the nested call of
`output` in fast retransmit, which moves `m_snd_nxt` back and then restores it; closed
windows; FINs that overtake data; opening and closing from both sides at once.
`PROJECT.json` lists each of these under `hazards`, at its line.

## 2. Modules

| module | what it is |
|---|---|
| `UdtRcvBuf` | pure operators of the receive half: window check, append, reassembly and merge, copy, FIN mark, advertised window, SACK blocks |
| `UdtReceiver` | state machine of one receiving end against a network that may deliver any packet of a stream at any time; invariants of the proofs |
| `UdtRcvBufProofs`, `UdtReceiverProofs` | lemmas about the operators; the theorems |
| `UdtCb` | the control block as a record and `output` with its helpers (congestion window, timers, send buffer) |
| `UdtCbInput` | `input`, the timers, the calls of the application, on that record |
| `UdtConn` | two control blocks, the network, the applications: the composed system and its properties |
| `UdtStream` | abstract specification: two byte streams; `UdtConn` is proved to implement it |
| `UdtEngine` | the `io_service`, the thread that runs it, callers that post or wait, the socket set, and the one-shot clients of a socket (`udp_pub_addr`, `udp_hp_clt`) |
| `Singleton` | `get_instance` and `release_instance`, one step for each access of the shared pointer |
| `UdpHolePunch` | two hole punching clients, several paths, NATs |
| `UdpChkNat` | the NAT type check against a NAT and two servers |
| `UdtMtu` | the MTU prober against two routers |
| `UdtRtt` | the round trip estimate, the back-off and the shared shift count, in the arithmetic of a `short` |
| `OneShot` | abstract specification of an asynchronous operation: one handler call for each request; `UdpChkNat` and `UdtMtu` are shown to implement it |
| `UdtCbProofs` | the invariant of one control block, and that `output` and the helpers of the handlers keep it |
| `UdtConnProofs` | every handler and every step of `UdtConn` keeps it; the theorems about the connection |
| `UdtEngineProofs` | the theorems about `UdtEngine` and `Singleton` |
| `UdtFlowProofs` | the data of a connection: one direction, and what `output` and the ends that all handlers share do to the two streams |
| `UdtStreamProofs` | what every handler does to the two streams; the refinement of `UdtStream` |
| `ServiceProofs` | the theorems about `UdpChkNat` and `UdtMtu`, with what they owe to `OneShot`, and about `UdpHolePunch` and `UdtRtt` |
| `MCUdtReceiver`, `MCUdtConn`, `MCUdtServices` | instances for TLC |

State and code.  A field of the record of `UdtCb` is a member of `udt_cb` or of its
socket; the list is at the head of the module.  One operator of `UdtCb` and
`UdtCbInput` is one function of the code, and an action of `UdtConn` is a whole
handler, that is the operator of the function the `io_service` calls together with
everything it calls, `output` and the call-backs included.  What a handler reads that is
not modelled (the clock behind `is_pkt_lost_rate_incr` and `m_idle`, the
uninitialised `rcv_win`) is a record `u` chosen by the action.  Assertions of
the code are collected in `bad` and in `r.ok`, so that an invariant can say they
never fail.  `PROJECT.json` maps every definition to its lines.

In the modules of the services a completion queue (`queue`, `completions`, `mtuQueue`) is that of the
`io_service`, first in first out.  A handler of the code is one operator, run from the head of the
queue; `async_*` adds to what is pending, and a separate action of the
network, the resolver or the timer completes it, which appends the handler.  So an answer
and a timeout can both wait in the queue, and cancelling
reaches only what has not completed: the code relies on the tracker for the rest, and
the models say exactly which entries it drops.

- `UdtEngine`.  `stop` is three steps (the worker is deleted, the service is stopped, the thread is joined)
  that interleave with the thread; `thread_proc` is two (`RunReturn`, `Clear`).  `Invoke` is
  `invoke_io_service`: the caller is in `waits` until its handler has run.  An address in
  `Sockets` is given out again after a delete, so a late call or answer can hit another
  socket.  A client is named by its request; `Replace` and `HandleTold` delete by slot, as the
  code does.  `Delete` is the destructor of a client, `DeleteSocket` that of a socket; they differ in what they leave pending.
- `Singleton`.  Addresses are used again as soon as they are free (ABA).
- `UdpHolePunch`.  The state of each endpoint is `endpoint_info_t::state`.  `usable` paths carry
  datagrams; a `Natted` path lets one in only after its end has started.
- `UdpChkNat`.  `nat` ranges over all kinds, `other_ip` over two deployments of the servers.  `Sources`, `Admitted`
  and `SeenEp` are the external part: who answers a probe, and what the NAT lets in and shows.  An endpoint is an address and a port;
  a symmetric NAT shows the second server another address, another port, or both (`other_ep`).  The check of the index at
  `udp_chknat.cpp:158` is always true, so `Marked` says what an index just outside the table does to `resp_bitmap_`, which lies behind it.
  `nat_type` is `nat_info_.nat_type`: an error, or a datagram without a byte, tells the caller the verdict of the last check.
- `UdtMtu`.  Sizes are those of the code.  `broken` is the exception out of the resize, or the loop
  of `send_echo` when a hint is larger than the interface takes.
- `UdtRtt`.  Numbers are those of the code, with `Short` around each assignment to a short.  What is sent and what is
  acknowledged is free; `UdtCb` has that side, without the numbers.

Abstractions.  A byte of a stream is its sequence number, so order, holes and repetition
are visible.  Sequence numbers are naturals from `s_iss = 0`; the wrap is not modelled.  A timer is
armed or not; it may expire whenever it is armed and either no datagram is in flight to an end that
listens (`Idle`), or the bound `MaxEarly` allows one more early expiry: the timers are of
seconds, and a network is usually faster.  A datagram in flight is a record in a set, so
the network reorders freely; `Repeat` delivers one and keeps it.  Encoding
and byte order are left out.  An application has at most one receive pending and reads for
ever; it sends a fixed plan.

## 3. Runs

`receiver` (7 thousand states).  Nine bytes in five packets, the last one with its FIN, without
it, and a FIN alone; a buffer of 8 with segments of 2, so that the stream does not fit;
reads of 1 and 3.  Any packet may arrive in any state, which covers every loss, repetition and
order.  Two packets beyond a hole, a FIN beyond a hole, a full
buffer and a closed window all occur.

`services` (568 thousand states).  One part at a time makes steps, the variable `part` of `MCUdtServices` says which;
the others rest in their initial state.  The parts share no variable, so this
checks each of them completely and adds nothing to any.

| part | bounds | what happens within them |
|---|---|---|
| engine | 1 caller that waits, 1 address, 2 requests, 2 runs, 3 handlers queued, 1 round of a hole punch; junk datagrams without bound | stop while a caller waits; the `clear` of a run executed in the next; two requests on one slot; close and create on the same address under a posted answer |
| singleton | 3 threads, 3 addresses | a race of two calls, a release between the two reads, an address used again between capture and swap |
| hole punch | 2 paths, one behind a NAT, 2 timeouts, 1 loss, error or early timeout | every choice of usable and known endpoints, both orders of start |
| NAT check | 2 events in all, the first check included | after the first check a second one, or during it a datagram of a stranger, one with an index outside the table, an empty one, an error, or a server resolved by another object; all six kinds of NAT, a symmetric one with each of the other three endpoints |
| MTU | 4 router sizes, 2 interface sizes, 3 copies, silent routers of 1006 and more | hints, refusals without hints, an echo of an earlier size, a message of somebody else |
| timers | samples 1, 30, 102; 3 measurements | all thirteen timeouts, the clobbering at the fourth, persist states between |

`SilentBelow` keeps silent routers at 1006 and more in `services`; below it the search runs into
the end marker of the table, which is what the run `mtu_end` shows.

The runs of `MCUdtConn` but `transfer` use packets of one byte, so that a packet and a byte are the same thing
and the state space stays small; `transfer` has what that leaves out.

| run | shape | bounds | states |
|---|---|---|---|
| `opening` | from CLOSED; `a` connects, `b` connects or accepts; both may close as soon as they are up | 2 losses, 1 repetition, 3 expiries, no reads | 356 k |
| `recovery` | 3 packets one way, windows and buffers of 3, a read of 3 | fast retransmit at 1 duplicate, 1 early expiry, network of 3 | 324 k |
| `transfer` | sends of 3 and 2 bytes in packets of at most 2 into a buffer of 3, a send buffer of 5, reads of 2 | 1 loss, fast retransmit at 1 duplicate | 157 k |
| `duplex` | one byte each way, keepalive on, connections may be dropped | no loss but that of a full network | 487 k |
| `closing` | one byte, `a` closes, `b` follows after eof | 1 loss, 1 repetition | 77 k |

Why the bounds are enough.  `RexmtThresh` is 1 or 2 instead of 3 and `CwndSegs` 2 or 3
instead of 8, so that with two or three packets the thresholds are met, exceeded and missed; the
code compares with them and nothing else.  `NetCap` is the number of datagrams in flight to one end, at
least as many as a window holds; what is sent beyond it is lost, as in a full queue.
`MaxRxtShift` is large enough that the losses allowed do not end a connection, and small enough that the
last expiry happens.  `SendClamp` has the value of the code and is not reached.

Properties.  `StreamSpec` is the refinement: the two sockets implement `UdtStream`, with `Written`, `Arrived` and what
was copied to the application as the mapping.  `NoDataLost` relates the two ends: a byte is
in the send buffer, or accepted, or waits for reassembly.  `WindowHonest` compares what a
sender believes with the buffer of its peer.  `AckWithinSent` compares a datagram in flight with what its receiver has sent, `AcksTruthful` with what its
sender has; the second is true of every instance, the first is not (`fin_twice`).  In `transfer` a packet of one byte lies between packets of two, the window closes in front of a
packet that does not fit, and probes carry a whole packet; `SentWhole` says that `m_snd_max` still never lies inside one, which is what
`get_snd_pkt` asserts (`udt_cb_output.cpp:329`) and the account of retransmitted data needs.
`TimerArmed` and `TimersExclusive` are the two halves of the timer discipline; both are checked in `transfer`, where the window closes in front of
pending data and a loss keeps the retransmit timer busy.  `HandshakeAgreement` and `FinAgreement` compare the states of the two ends.
`SeqOrder`, `RetransAccount` and `NoAssertionFails` watch the send variables through nested calls of
`output`.  Each property of each run has a mutant in `PROJECT.json`: a
definition of the module, next to the one it replaces, with a bug that the property finds.

Of the services: `WaiterServed` is about the pointers in a queued `invoker_wrapper`, which lead into the
stack frame of the caller; `PendingOwned` says that an operation is pending only for a client and on a socket that exist,
whatever was replaced, closed or told late meanwhile, except for the receive that `udp_pub_addr::close` leaves on the socket, which dies with
the socket; `RunIsClean` says that a `clear` that is posted to a stopped service still
runs before its effect could be missed; `SlotOwned` survives reuse of addresses.  `Owned` and `GetIsLive` are the promise of
the lock-free singleton.  `PunchAgreement` relates what one end reports to what both have heard.  `NatVerdict` bounds what a
verdict promises; the converse is false, a lost answer makes a cone look restricted or symmetric, and so
is the promise in one case that it names: `analyze` takes a symmetric NAT that shows two addresses with one port for a cone (section 5).  `MtuFits` relates a reported
size to the route.  `RttFits`, `BackoffMonotone` and `Patience` say that timeouts do not wrap, do not
shrink in a series, and that only a full series drops a connection.

Deadlock is not checked: a connection that is closed, and an application whose plan is done, really
stop.

Fairness.  The `io_service` runs every ready handler and every timer that expires, and the applications go on with their
plans.  This is weak fairness of each action of each end; it is written with the enabling condition spelled
out, because TLC would evaluate ENABLED through the handlers.  The network owes
only that some datagram is delivered while one is in flight; losses are bounded by `MaxLoss`, without
which no liveness can hold.  Early timers, losses and repetitions are never owed.  `AllConnected` starts
from two ends that have opened while no timer has expired (`shift` is 0): an end that calls long before its peer
listens gives up, and rightly so.

The services: `EngFairness` has the worker thread, the caller of `stop` once it has begun, timers and the
resolver; nobody owes a datagram, a call of `run` or of `stop`.  So `InvokeReturns` and
`RequestAnswered` except an engine that is stopped; a caller that waits when nobody
calls `run` again waits for ever, in the model as in the code.  A timer expires unless it is started again for ever: each datagram that is no
answer makes `udp_pub_addr` start its timer anew (`udp_pub_addr.cpp:179` to 124), and the socket is shared with the data of a connection.
So `TimerFairness(r)` lets the timer of a request starve while such datagrams never stop (`Restarts`), and `RequestAnswered` promises nothing then.  `PunchFairness` has the handlers, the
timer, and the receipt of datagrams that can be delivered; `PunchBoth` excuses faults, because the last
acknowledgement is not sent again.  `NatFairness` and `MtuFairness` have the `io_service` and its timers
only, no answer is owed; the timer of the NAT check is started again by every datagram too, but there datagrams are bounded by the probes and
`MaxEvents`, and the liveness half of `NatOneShot` holds for that reason.  `MCSpec` is the conjunction; in a part that rests no action that these name
is enabled, so it meets them.

## 4. Proofs

`UdtReceiverProofs` proves, for every buffer size, segment size, maximal window, set of packets that cuts a stream, and set of read
sizes, that `Spec` of `UdtReceiver` implies `[]TypeOK`, `[]InOrderDelivery`, `[]AckHonest`, `[]SackHonest`,
`[]EofIsComplete`, and, when the junk in `rcv_win` is never positive, `[]AppendFits`.

Assumptions: the sizes are positive naturals (`RcvBufAssumption`); the packets of the peer
do not overlap unless they are the same bytes with and without FIN, and only the last carries a FIN
(`SegsAssumption`: the sender cuts its stream once and retransmits what it cut); reads are not
empty (`ReadsAssumption`); junk is an integer (`JunkAssumption`).  `NoPositiveJunk` is a hypothesis of
`NothingOverruns` alone.

None of the properties is inductive.  What arrives later must fit what waits in the reassembly queue, so
the invariant `IndInv` (with `RcvInv`) says what the receive half is at any moment: the delivered and
buffered bytes are exactly those below `m_rcv_nxt`; each of them was brought by a packet that arrived; what waits has arrived too, starts
beyond `m_rcv_nxt` and ends within the promised window; a FIN mark lies at the end of the
stream.  The one hard step is `merge_reasm_pkts`: `Frontier` is
the first sequence number that no packet holds, defined by CHOOSE over bounded numbers; the lemmas of `UdtRcvBufProofs`
(`LeastExists`, `LastOfExists`, `FrontierFacts`) show that it exists and that everything below it is
held, which gives both the appended bytes and the honesty of SACK blocks, whose right ends are frontiers too.
`FitInv` adds the bound of the buffer: the promised right edge never passes the free space.  It is
kept by every handler provided that the junk is not positive, and it is what the
uninitialised variable breaks.  There is one lemma per handler.

`Fitting` states the invariant `IndFits`, which is `IndInv` and `FitInv`, and `NothingOverruns` follows from it.  TLC checked
`IndFits` with `receiver.cfg` before it was proved.

`UdtConnProofs` proves for every value of the constants that `Spec` of `UdtConn` implies `[]TypeOK`, `[]SeqOrder`,
`[]RetransAccount`, `[]TimersExclusive`, `[]HandshakeAgreement` and `[]AccountAsserted` (the assertions of `enter_persist`
and `check_rexmt_data` never fail): any buffer and segment sizes, any congestion window and thresholds, any plan of sends, reads
and closes, any junk, any number of losses, repetitions and early timeouts, both ends closing in any way.

Assumptions: sizes are positive (`CbAssumption`, `RcvBufAssumption`), `min_cwnd()` is not above `TCP_MAXWIN` (without it `incr_cwnd`
shrinks the window; the code has 8 segments and a window of many), plans are sequences of naturals (`ConnAssumption`).

None of these is inductive.  `RetransAccount` survives `drop_acked_data` only if no two packets of the send buffer share a
sequence number, `SeqOrder` survives a SACK block only if it ends within `m_snd_max`, and that is a fact about the
reassembly queue of the other end, so about the datagrams it was sent.  `ConnInv` is the invariant: for each end `Good`, which is `Kept` with `nxt <= max`, and

- `Phased`: what the state says of this end.  An end that nothing has opened is `Fresh`; during the handshake at most the SYN is
  out and no persist timer runs; with a FIN out the state is one of those that have sent it, and until it is acknowledged `una < max`.
- `Opened`: what it says of the peer; an end is up only when both SYNs have been counted.
- `Buffered`: the packets of the send buffer are distinct, end within `m_seq`, are marked only if they have been sent, and `retrans` is their account.
- `Heard`, and `Sound` of each datagram on its way: sequence numbers lie within what its sender has counted in `m_snd_max`, SACK blocks within
  what its receiver has sent; what acknowledges comes from an end that has counted a SYN.
- `Wide` and `Acked`, which do not hold in the middle of `handle_ack` and are therefore apart.

An end knows of the other only `View`: its `m_snd_max` and whether it has counted a SYN, which both only grow (`ViewGrows`), so a step of one
end keeps the invariant of the other.  A handler is a chain of steps each of which `Leads` from one good control block to the next.  There is one lemma
for each function of the code, in the order of the calls: `UdtCbProofs` up to one call of `output` (`OutputKeeps`) and the operators of `handle_ack`, `UdtConnProofs`
from `recv_data` to `Input`, the timers and the calls of the application, then the network.  The loops (`consume_pending_data`,
the rounds of `output`) are functions over their round number, and `ChainKeeps` carries an invariant through them.  The nested `output` of
fast retransmit is the hard step there: `snd_nxt` goes back to the acknowledgement, `output` may move `snd_max`, and the old `snd_nxt` comes back,
which lies between them because `una` has not moved.

`UdtStreamProofs`, on the lemmas of `UdtFlowProofs`, proves, under the same assumptions, `Spec => StreamSpec`: the mapping of `UdtConn` into `UdtStream` takes initial states to
initial states and every handler to a step of one end or to a stutter, for any plans, losses, repetitions, orders and timeouts.  `[]NoDataLost`, `[]AcksTruthful`, `[]SentWhole` and `[]FinAgreement` come
from the same invariant, `StreamInv`, which is `ConnInv` and, for each end, `EndData`:

- `Flow`, of one direction, from a source (the send buffer, `m_seq`, whether a FIN has been sent) to a sink (what has been accepted, `m_rcv_nxt`, the reassembly
  queue, the FIN mark): every byte committed is in a packet of the source or with the sink, the sink ends at the end of a packet, and it counts a FIN only
  behind the last byte.  `Apart` is why a retransmission fits what has arrived: packets are cut once and never share some of their bytes.
- `Carries`, of a datagram on its way: data is a packet of the source, a FIN lies at the end of a finished stream, and neither the
  acknowledgement nor a SACK block covers a byte its sender does not have.  An acknowledgement may be beyond the data only when
  the stream is finished, which is what is left of `AckWithinSent` when a FIN is counted twice.  With `Flow` this is `AcksTruthful`.
- `Stage`: in which states a stream has begun, is being written, or has been finished; nothing is queued behind a FIN.
  Its part `Whole` (`m_snd_max` is at the edge of every packet it touches) is kept because a segment starts at a packet's edge or, with a FIN, behind
  them all, packets are `Apart`, and new ones are cut at `m_seq`, which `m_snd_max` passes only when nothing more is cut.
- `Ordered`, `Ended`: what is read and buffered are the bytes from 1 on; eof, and FIN_WAIT_2 and TIME_WAIT, mean that all of a finished stream is there.
- `AtRest`: between two handlers a failed end is closed, an end that has not been opened has nothing, and during the handshake
  only the SYN is out.

A datagram or a call meets an end that is at rest; in the middle of a handler it is not (`NOTIFY_DROP` waits for `commit_notifies`, `handle_ack` opens the stream before
the SACK blocks are used).  So each function has its own lemma: `Glides` for what moves neither the state nor what has arrived (`output`, `recv_data`, `on_writable`, the
acknowledgements), `Moves` for the rest, and `Does` for what a handler that is not `async_shutdown` may do.  They compose (`DoesTrans`) along the calls: `HandleAckDoes`,
`HandleFinDoes`, `InputSegmentDoes`, `CommitTidies`, `InputDoes`, then one for each timer and call.  The other end knows a stream only by
`SrcGrows` and `SnkGrows`: a stream grows until it is finished, a sink keeps what it has (`OtherData`, `CarriesOn`).  The hard steps are a FIN that is sent before or after
retransmitted data (`StartOf` and `FlagsForAck`), and the pieces of the reassembly queue that one segment lets in (`TcpReassTakes`, on
the `Frontier` of `UdtRcvBufProofs`).

The proof corrected the mapping: `finished` was "TF_SENTFIN is set", and the invariant fails for it, because a FIN can leave in a window probe, which does not set the flag (section 5).
It is now the ghost field `told`, a segment with a FIN has been sent.

The theorems about the services, each for every value of the constants:

- `UdtEngineProofs`: `EngTypeOK`, `WaiterServed`, `SlotOwned`, `PendingOwned`, `RunIsClean`.  `Served` is `WaiterServed` by index, so
  that popping the head shifts it; `CleanUp` is what makes `RunIsClean` inductive: whenever no `clear` is queued, the
  sockets are those of the run that goes on, and between runs there are none.  `PendingOwned` is inductive with `SlotOwned`, which gives
  each client the socket it works on: `HasOwner` follows one record through replacement (`DeleteOwned`), the end of its socket
  (`DeleteSocketOwned`) and the start of new operations (`StartedOwned`).
- `UdtEngineProofs`, of `Singleton`: `Owned`, `GetIsLive`, for any set of threads and addresses.  The invariant adds that a thread past its
  swap, in a call nobody has released during, has seen the pointer filled.
- `ServiceProofs`, of `UdpHolePunch`: `PunchAgreement`.  The invariant follows an ACK back: only an end that has had a SYN on a path sends an ACK
  there (`Acks`), so an established path was heard by both (`Opened`), and
  what is posted says nothing else (`PostedAgreed`).
- `ServiceProofs`, of `UdpChkNat`: `NatVerdict`.  The invariant says that what is recorded, on its way or queued, was let in by
  the NAT from a server that answers that probe; it does not need that the records are cleared between checks, which they are not.
  Endpoints are recorded only for probes that such a NAT lets a server answer (`Countable`), so `AnalyzeHonest` can conclude from them; the case of
  equal ports on two addresses is the exception that `NatVerdict` states.
  `NatOneShotSafe` is the safety part of the refinement of `OneShot`: initial states map to initial states, and every step to an `Ask`, an
  `Answer` or a stutter (`NatOnce`: at most one handler of a check is posted).
- `ServiceProofs`, of `UdtMtu`: `MtuFits` and the same part of the refinement (`MtuOneShotSafe`).  A refusal by the first router when the second has a smaller MTU (`Early`)
  comes before everything else that is on its way (`EarlyFirst`), an echo is on its way only when the current size fits and nothing that comes with it makes
  the size larger (`EchoFits`), and without hints the table is followed downwards (`Downwards`); so the size told at the end fits the route.
  The invariant `MtuInv` was checked by TLC before it was proved.
- `ServiceProofs`, of `UdtRtt`: `RttFits`, `Patience`, `BackoffMonotone`, for all samples from 1 to 102 ticks (51 s), the assumption `RttAssumption`.
  `Estimate` bounds mean and variance together (the clobbering moves one into the other), `Counters` ties
  `rxtshift` to the number of timeouts, and `Current` says that `rxtcur` is computed from them.

The bounds of these modules (`MaxRuns`, `MaxEvents`, `MaxFaults`, ...) are constants of the theorems, any natural number.

Only model-checked:

- Liveness, which the prover does not reach: `AllConnected`, `AllDelivered`, `AllClosed`, `InvokeReturns`, `RequestAnswered`, `PunchEnds`,
  `PunchBoth`, and the liveness half of `NatOneShot` and `MtuOneShot`.
- Invariants that hold in their runs and not of every instance, because of the findings: `NoAssertionFails` (a FIN out of order, see
  section 5; two of its assertions are proved by `ConnAccountAsserted`; what those of
  `get_snd_pkt` say of the send buffer is proved by `ConnSentWhole`, between two steps, not at each call inside one), `TimerArmed` (the run `stall`),
  `WindowHonest` (junk in `rcv_win`).  `AckWithinSent` is refuted by `fin_twice`; `AcksTruthful` is what is proved in its place.

## 5. Where the code and its comments part

Five runs end in a counterexample; each is a finding in `PROJECT.json`.

- `receiver_eof`: eof is reported, and reads are refused, while bytes are unread.
- `receiver_junk`: a data segment advertises an uninitialised window.
- `fin_twice`: in LAST_ACK the FIN of the peer is counted again; an orderly close of both ends, without a loss,
  ends with `malformed_packet`.
- `stall`: a closed window noticed while an acknowledgement is owed leaves no timer running.
- `mtu_end`: refusals without a hint move the MTU search onto the end marker of its table, which is
  then taken for a size of 0.

The model shows five more, for which no run is kept:

- `check_sack_option` (`udt_option.cpp:27`) asserts that a block is not empty; a FIN without data that overtakes data
  makes one that is.
- `handle_syn` (`udt_cb_input.cpp:302`) fails its default assertion for a repeated SYN|ACK that arrives
  in FIN_WAIT_1.
- TIME_WAIT ("in 2*msl quiet wait after close", `udt_cb.h:48`) sets `TF_NOTIFY_DROP`, so it lasts no longer than the
  handler; a late segment is answered with a reset.
- TF_SENTFIN ("have sent FIN", `udt_cb.h:135`) is not set when the FIN leaves in a window probe: `output` sets it only where it advances `m_snd_nxt`
  (`udt_cb_output.cpp:228-241`), and the FIN is not counted in `m_snd_max` either.  The peer counts it, and its acknowledgement is then beyond `m_snd_max`.
- In CLOSING the acknowledgement of the peer carries its old FIN and is dropped as out of window before
  its acknowledgement is read (`udt_cb_input.cpp:754`), and is answered with one of the same kind: two ends that close at the same time exchange
  these until their retransmit timers give up.

Around the connection the models show, without a run of their own:

- `async_hole_punch_` uses a socket that is gone (`udt_engine.cpp:215`): its log message says "not exist", and a `return` is missing.  The
  use is undefined; of its outcomes `AskHolePunch` has the one in which nothing comes of the request.  No property is about it.
- A deleted `udp_pub_addr` leaves its receive on the socket (`udp_pub_addr.cpp:67`), the exception of `PendingOwned`.  It takes a datagram
  that a later client waits for, and writes it into the deleted buffer; the write itself is undefined and not modelled.
- `docs/chknat.txt:18` says that a client is behind a symmetric NAT if the two endpoints returned, as pairs (IP,Port), differ; `analyze`
  compares the ports only (`udp_chknat.cpp:219`).  A symmetric NAT with two addresses that maps to the same port on both is told it is
  `nt_port_restrict_cone`.  Without its exception `NatVerdict` fails in a trace of 12 states: both servers resolved, four probes
  sent, the answers to A=0 and A=1 with two addresses and one port, timeout.  The exception is exact, so no run of its own repeats it.
- The check `idx >=0 || idx < 4` is always true (`udp_chknat.cpp:158`): an index outside the table writes the endpoint over `resp_bitmap_` or
  further.  `Marked` has the first index outside.
- An error, an empty datagram, or a resolver that finds nothing ends a NAT check with the verdict of an earlier one, and the last two without an
  error (`udp_chknat.cpp:97-101`, 175-178).
- An answer that is posted when its client is replaced or its socket closed and created again deletes the client that is there
  by then (`udt_engine.cpp:197`, 235), whose own request is not answered.  `RequestAnswered` therefore speaks of
  requests that had the slot to themselves.
- `udp_hp_clt::notify` does not reset its tracker, so a timeout that has completed may post the handler again; the second
  finds the slot empty, or deletes a newer client.
- The probe `C=3` asks for an answer from another port of the second server, and `handle_async_receive` takes only the two
  server endpoints (`udp_chknat.cpp:149`): the fourth bit is set only when an index outside the table has overwritten the bitmap,
  otherwise `finish` is never true, and a full cone is never reported although `docs/chknat.txt` has a step for it.  Every check without such a
  datagram ends by timeout or error.
- A hint larger than the local interface takes makes `send_echo` try the same size for ever (`udt_mtu.cpp:96-113`).
- `handle_mtu` sets 1006 whatever was found (`udt_socket.cpp:86`), so the result of the prober is not used.

This is why `NoAssertionFails` is checked where nobody closes, and `AllClosed` where one end follows the other.
`AllClosed` is checked without keepalive: an end in FIN_WAIT_2 whose peer has been dropped waits for ever.

## 6. Not modelled, and the plan

Not modelled: wrap-around of sequence numbers; several pending receives, `cancel`, `close` and reuse of a `udt_socket`,
`setsockopt` on an open connection; `stop` of an engine that does not run, and release of the engine under its callers; the class
`timer` on its own; `close` of an MTU prober and `cancel` of a NAT check under way; in a NAT check indices below 0 or further outside the table, the endpoints that
are handed over with the verdict, and the text of an answer (`parse_endpoint`, which takes the last colon for both of the colons it looks for
unless the server writes one in front of the address); a second `async_connect`,
which finds no prober (`udt_socket.cpp:70`).  Never: logging, formatting, the test programs, the
analyzer.  NAT, servers, routers, the resolver and the `io_service` itself are external and modelled by what the code
assumes of them.

Order of work:

1. `UdtSocket`: handlers as events: each is called once, through `cancel`, `close` and destruction under a
   posted handler, with several receives pending and sends larger than the buffer.
2. `UdtSeq`: the 32-bit comparisons against a reference definition.
