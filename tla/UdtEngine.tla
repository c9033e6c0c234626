------------------------------ MODULE UdtEngine ------------------------------
(* The engine: one io_service, the thread that runs it, the callers that post *)
(* to it or wait for it, the sockets it owns, and the one-shot clients        *)
(* (udp_pub_addr, udp_hp_clt) that complete through it.                       *)
(*                                                                           *)
(* queue is the completion queue of the io_service, first in first out; a    *)
(* handler is a record [op, of] and runs as one step of the worker.  An       *)
(* address in Sockets is what udt_engine_socket_set_ holds; the allocator may *)
(* return it again after a delete.  A client is named by the request it was   *)
(* made for, and pending holds the asynchronous operations it has started.    *)
EXTENDS Naturals, Sequences, FiniteSets

CONSTANTS Users,        \* threads that call the engine
          Sockets,      \* addresses of udt_engine_socket objects
          Reqs,         \* calls of async_pub_addr and async_hole_punch, in order
          NoSock,
          MaxRuns,      \* bound: calls of run()
          QueueMax,     \* bound: handlers queued and requests made, for a post
          MaxWork,      \* bound: requests and runs together
          MaxAgain      \* bound: rounds of a hole punch

ASSUME EngineAssumption ==
  /\ NoSock \notin Sockets
  /\ Reqs \subseteq Nat
  /\ MaxRuns \in Nat /\ MaxWork \in Nat /\ QueueMax \in Nat /\ MaxAgain \in Nat

VARIABLES thread,       \* thread_: none, in run(), out of run(), finished
          ctl,          \* the caller of stop(): idle, stopping, joining
          work,         \* worker_ exists
          halted,       \* the io_service is stopped
          runs,         \* calls of run() so far
          queue,
          waits,        \* callers blocked in invoke_io_service
          socks,        \* udt_engine_socket_set_
          born,         \* the run in which the object at an address was created
          req

engVars == <<thread, ctl, work, halted, runs, queue, waits, socks, born, req>>
ctlVars == <<thread, ctl, work, halted, runs>>

Kinds == {"pub_addr", "hp_clt"}
Operations == {"resolve", "receive", "timer"}

Request == [kind : Kinds, sock : Sockets \cup {NoSock},
            obj : {"none", "posted", "live", "gone"},
            pending : SUBSET Operations,
            again : 0..MaxAgain,
            calls : Nat,         \* how often the handler of the caller ran
            alone : BOOLEAN]     \* ghost: the socket's slot was its own throughout

Handlers ==
  [op : {"create", "query"}, of : Users] \cup
  [op : {"close", "io", "cancel"}, of : Sockets] \cup
  [op : {"ask", "resolve", "receive", "timer", "told"}, of : Reqs] \cup
  {[op |-> "clear", of |-> NoSock]}

EngTypeOK ==
  /\ thread \in {"none", "run", "left", "done"}
  /\ ctl \in {"idle", "stopping", "joining"}
  /\ work \in BOOLEAN /\ halted \in BOOLEAN
  /\ runs \in 0..MaxRuns
  /\ queue \in Seq(Handlers)
  /\ waits \subseteq Users
  /\ socks \subseteq Sockets
  /\ born \in [Sockets -> 0..MaxRuns]
  /\ req \in [Reqs -> Request]

EngInit ==
  /\ thread = "none" /\ ctl = "idle" /\ work = FALSE /\ halted = FALSE
  /\ runs = 0 /\ queue = <<>> /\ waits = {}
  /\ socks = {} /\ born = [s \in Sockets |-> 0]
  /\ req = [r \in Reqs |-> [kind |-> "pub_addr", sock |-> NoSock, obj |-> "none",
                            pending |-> {}, again |-> 0, calls |-> 0, alone |-> FALSE]]

Entry(op, of) == [op |-> op, of |-> of]
Queued == {queue[i] : i \in DOMAIN queue}

-----------------------------------------------------------------------------
(* run(), stop() and the thread.                                             *)

Asked == {r \in Reqs : req[r].obj # "none"}

(* Mutant: A stopped io_service is not reset by run(). *)
RunWithoutReset ==
  /\ ctl = "idle" /\ thread = "none" /\ runs < MaxRuns
  /\ work' = TRUE /\ thread' = "run" /\ runs' = runs + 1
  /\ UNCHANGED <<ctl, halted, queue, waits, socks, born, req>>

Run ==
  /\ ctl = "idle" /\ thread = "none"
  /\ runs < MaxRuns /\ Cardinality(Asked) + runs < MaxWork
  /\ halted' = FALSE /\ work' = TRUE /\ thread' = "run" /\ runs' = runs + 1
  /\ UNCHANGED <<ctl, queue, waits, socks, born, req>>

Stop ==
  /\ ctl = "idle" /\ thread # "none"
  /\ work' = FALSE /\ ctl' = "stopping"
  /\ UNCHANGED <<thread, halted, runs, queue, waits, socks, born, req>>

StopIos ==
  /\ ctl = "stopping"
  /\ halted' = TRUE /\ ctl' = "joining"
  /\ UNCHANGED <<thread, work, runs, queue, waits, socks, born, req>>

StopJoin ==
  /\ ctl = "joining" /\ thread = "done"
  /\ thread' = "none" /\ ctl' = "idle"
  /\ UNCHANGED <<work, halted, runs, queue, waits, socks, born, req>>

(* io_service::run returns when it is stopped or has nothing left to wait for. *)
RunReturn ==
  /\ thread = "run"
  /\ \/ halted
     \/ ~work /\ queue = <<>> /\ \A r \in Reqs : req[r].pending = {}
  /\ halted' = TRUE /\ thread' = "left"
  /\ UNCHANGED <<ctl, work, runs, queue, waits, socks, born, req>>

(* Mutant: clear() deletes the sockets only when run() ended for want of work. *)
ClearIfIdle ==
  /\ thread = "left"
  /\ queue' = IF ctl = "joining" THEN queue ELSE Append(queue, Entry("clear", NoSock))
  /\ thread' = "done"
  /\ UNCHANGED <<ctl, work, halted, runs, waits, socks, born, req>>

(* thread_proc calls clear() after run has returned: the handler is queued for *)
(* a later run of the io_service.                                              *)
Clear ==
  /\ thread = "left"
  /\ queue' = Append(queue, Entry("clear", NoSock))
  /\ thread' = "done"
  /\ UNCHANGED <<ctl, work, halted, runs, waits, socks, born, req>>

-----------------------------------------------------------------------------
(* Calls of the application.                                                 *)

(* Bound: nothing is posted after the last run. *)
Post(op, of) ==
  /\ Len(queue) + Cardinality(Asked) < QueueMax
  /\ thread # "none" \/ runs < MaxRuns
  /\ queue' = Append(queue, Entry(op, of))

(* Bound: a create is called only while an address is left for it. *)
Room == Cardinality(socks) + Cardinality({u \in Users : Entry("create", u) \in Queued})
          < Cardinality(Sockets)

(* create, and the calls that read or write a socket option and wait. *)
Invoke(u, op) ==
  /\ u \notin waits /\ (op = "create" => Room)
  /\ Post(op, u)
  /\ waits' = waits \cup {u}
  /\ UNCHANGED <<ctlVars, socks, born, req>>

(* A pointer the application has is one that create_ returned. *)
Known == {s \in Sockets : born[s] > 0}

PostTo(s, op) ==
  /\ s \in Known
  /\ Post(op, s)
  /\ UNCHANGED <<ctlVars, waits, socks, born, req>>

Ask(r, s, k) ==
  /\ s \in Known
  /\ r \notin Asked /\ \A q \in Reqs : q < r => q \in Asked
  /\ Cardinality(Asked) + runs < MaxWork
  /\ Post("ask", r)
  /\ req' = [req EXCEPT ![r] = [@ EXCEPT !.kind = k, !.sock = s, !.obj = "posted"]]
  /\ UNCHANGED <<ctlVars, waits, socks, born>>

-----------------------------------------------------------------------------
(* Clients.                                                                  *)

(* The client that pub_addr or hp_clt of the socket points to. *)
Slot(s, k) == {r \in Reqs : req[r].obj = "live" /\ req[r].sock = s /\ req[r].kind = k}

(* raw_sock.cancel(): no client keeps a receive on the socket. *)
CancelReceives(rq, s) ==
  [r \in Reqs |-> IF rq[r].sock = s
                  THEN [rq[r] EXCEPT !.pending = @ \ {"receive"}] ELSE rq[r]]

(* delete of the clients in R.  The timer and the resolver go with a client.  *)
(* udp_pub_addr::close does nothing, so its receive stays; udp_hp_clt::close  *)
(* cancels every receive of the socket it shares.                             *)
Delete(rq, R, s) ==
  LET gone == [r \in Reqs |-> IF r \in R
                 THEN [rq[r] EXCEPT !.obj = "gone", !.again = 0,
                                    !.pending = @ \cap {"receive"}]
                 ELSE rq[r]]
  IN IF \E r \in R : rq[r].kind = "hp_clt" THEN CancelReceives(gone, s) ELSE gone

(* Mutant: The raw socket is not closed, and receives of earlier clients stay. *)
DeleteClientsOnly(rq, S) ==
  [r \in Reqs |-> IF rq[r].sock \in S /\ rq[r].obj = "live"
     THEN [rq[r] EXCEPT !.obj = "gone", !.again = 0, !.pending = {},
                         !.alone = FALSE]
     ELSE rq[r]]

(* ~udt_engine_socket: raw_sock.close() aborts every receive, and the clients go. *)
DeleteSocket(rq, S) ==
  [r \in Reqs |-> IF rq[r].sock \in S /\ rq[r].obj \in {"live", "gone"}
     THEN [rq[r] EXCEPT !.obj = "gone", !.again = 0, !.pending = {},
                         !.alone = FALSE]
     ELSE rq[r]]

(* The client's operations and what it posts at once, with its new record. *)
Started(r, rq, ops, told) ==
  /\ req' = [rq EXCEPT ![r].pending = @ \cup ops]
  /\ queue' = Tail(queue) \o (IF told THEN <<Entry("told", r)>> ELSE <<>>)

-----------------------------------------------------------------------------
(* Handlers, each the head of the queue.                                     *)

Return(u) == waits' = waits \ {u}

CreateSock(u) ==
  /\ \E s \in Sockets \ socks :
       socks' = socks \cup {s} /\ born' = [born EXCEPT ![s] = runs]
  /\ Return(u)
  /\ queue' = Tail(queue)
  /\ UNCHANGED <<req>>

(* Mutant: Without the socket the handler returns before it signals the event. *)
QuerySilent(u) ==
  /\ waits' = IF socks = {} THEN waits ELSE waits \ {u}
  /\ queue' = Tail(queue)
  /\ UNCHANGED <<socks, born, req>>

(* setsockopt_, getsockopt_, pending_data_: an answer, or -1 without the socket *)
Query(u) ==
  /\ Return(u)
  /\ queue' = Tail(queue)
  /\ UNCHANGED <<socks, born, req>>

CloseSock(s) ==
  /\ socks' = socks \ {s}
  /\ req' = IF s \in socks THEN DeleteSocket(req, {s}) ELSE req
  /\ queue' = Tail(queue)
  /\ UNCHANGED <<waits, born>>

ClearSocks ==
  /\ socks' = {}
  /\ req' = DeleteSocket(req, socks)
  /\ queue' = Tail(queue)
  /\ UNCHANGED <<waits, born>>

SocketExists(s) == s \in socks

(* async_connect_, async_accept_, async_send_, async_receive_, async_shutdown_: *)
(* the call goes to the socket if it still exists.                              *)
SockIo(s) ==
  /\ queue' = Tail(queue)
  /\ UNCHANGED <<waits, socks, born, req>>

(* cancel_: udt_socket::cancel cancels the raw socket, which the clients share. *)
CancelSock(s) ==
  /\ req' = IF SocketExists(s) THEN CancelReceives(req, s) ELSE req
  /\ queue' = Tail(queue)
  /\ UNCHANGED <<waits, socks, born>>

(* Mutant: The previous client is forgotten instead of deleted. *)
ReplaceKeeping(r) == [req EXCEPT ![r].obj = "live", ![r].alone = TRUE]

(* A new client replaces the one the socket had. *)
Replace(r) ==
  LET s == req[r].sock
      k == req[r].kind
      free == /\ Slot(s, k) = {}
              /\ \A q \in Reqs : Entry("told", q) \in Queued
                                 => <<req[q].sock, req[q].kind>> # <<s, k>>
  IN [q \in Reqs |-> LET d == Delete(req, Slot(s, k), s)[q]
                     IN IF q = r THEN [d EXCEPT !.obj = "live", !.alone = free]
                        ELSE IF q \in Slot(s, k) THEN [d EXCEPT !.alone = FALSE] ELSE d]

(* async_pub_addr_ *)
AskPubAddr(r) ==
  /\ req[r].kind = "pub_addr"
  /\ \/ /\ ~SocketExists(req[r].sock)
        /\ req' = [req EXCEPT ![r].obj = "gone"]
        /\ queue' = Tail(queue)
     \/ /\ SocketExists(req[r].sock)
        /\ \/ Started(r, Replace(r), {"resolve"}, FALSE)
           \/ \E fails \in BOOLEAN : Started(r, Replace(r), {"receive", "timer"}, fails)
  /\ UNCHANGED <<waits, socks, born>>

(* async_hole_punch_ goes on although the socket does not exist. *)
AskHolePunch(r) ==
  /\ req[r].kind = "hp_clt"
  /\ \/ /\ ~SocketExists(req[r].sock)
        /\ req' = [req EXCEPT ![r].obj = "gone"]
        /\ queue' = Tail(queue)
     \/ /\ SocketExists(req[r].sock)
        /\ Started(r, Replace(r), {"receive", "timer"}, FALSE)
  /\ UNCHANGED <<waits, socks, born>>

(* A completion runs only while the tracker of its client does. *)
WrefExpired(r) == req[r].obj # "live"

Dropped(r) ==
  /\ WrefExpired(r)
  /\ queue' = Tail(queue)
  /\ UNCHANGED <<req>>

(* udp_pub_addr::handle_async_resolve *)
HandleResolve(r) ==
  /\ \/ Dropped(r)
     \/ /\ ~WrefExpired(r)
        /\ \/ Started(r, req, {}, TRUE)
           \/ \E fails \in BOOLEAN : Started(r, req, {"receive", "timer"}, fails)
  /\ UNCHANGED <<waits, socks, born>>

(* Mutant: A junk datagram is answered by a receive without a timer. *)
HandleReceiveUntimed(r) ==
  /\ \/ Dropped(r)
     \/ /\ ~WrefExpired(r)
        /\ \/ Started(r, req, {}, TRUE)
           \/ Started(r, [req EXCEPT ![r].pending = {}], {"receive"}, FALSE)
  /\ UNCHANGED <<waits, socks, born>>

(* handle_async_receive of the two clients: an answer or an error ends the     *)
(* request, anything else receives again; udp_pub_addr starts its timer again. *)
HandleReceive(r) ==
  /\ \/ Dropped(r)
     \/ /\ ~WrefExpired(r)
        /\ \/ Started(r, req, {}, TRUE)
           \/ /\ req[r].kind = "pub_addr"
              /\ Started(r, req, {"receive", "timer"}, FALSE)
           \/ /\ req[r].kind = "hp_clt"
              /\ Started(r, req, {"receive"}, FALSE)
  /\ UNCHANGED <<waits, socks, born>>

(* handle_async_wait of udp_pub_addr; handle_async_timeout of udp_hp_clt, which *)
(* starts the timer again until its count is used up.                           *)
HandleTimer(r) ==
  /\ \/ Dropped(r)
     \/ /\ ~WrefExpired(r)
        /\ \/ /\ req[r].kind = "pub_addr" \/ req[r].again = MaxAgain
              /\ Started(r, req, {}, TRUE)
           \/ /\ req[r].kind = "hp_clt" /\ req[r].again < MaxAgain
              /\ Started(r, [req EXCEPT ![r].again = @ + 1], {"timer"}, FALSE)
  /\ UNCHANGED <<waits, socks, born>>

(* handle_async_pub_addr, handle_async_hole_punch: posted by notify(), outside  *)
(* the tracker.  Whatever client the socket has by now is deleted.              *)
HandleTold(r) ==
  LET s == req[r].sock
  IN /\ req' = IF SocketExists(s)
               THEN [Delete(req, Slot(s, req[r].kind), s)
                       EXCEPT ![r].calls = @ + 1, ![r].alone = FALSE]
               ELSE req
     /\ queue' = Tail(queue)
     /\ UNCHANGED <<waits, socks, born>>

Execute(h) ==
  \/ h.op = "create" /\ CreateSock(h.of)
  \/ h.op = "query" /\ Query(h.of)
  \/ h.op = "close" /\ CloseSock(h.of)
  \/ h.op = "clear" /\ ClearSocks
  \/ h.op = "io" /\ SockIo(h.of)
  \/ h.op = "cancel" /\ CancelSock(h.of)
  \/ h.op = "ask" /\ (AskPubAddr(h.of) \/ AskHolePunch(h.of))
  \/ h.op = "resolve" /\ HandleResolve(h.of)
  \/ h.op = "receive" /\ HandleReceive(h.of)
  \/ h.op = "timer" /\ HandleTimer(h.of)
  \/ h.op = "told" /\ HandleTold(h.of)

RunOne ==
  /\ thread = "run" /\ ~halted /\ queue # <<>>
  /\ Execute(Head(queue))
  /\ UNCHANGED ctlVars

(* A resolver, a timer or a datagram completes an operation.  A datagram goes   *)
(* to some receive that is pending on the socket, and into the buffer of a      *)
(* client that may be gone.                                                     *)
Complete(r, op) ==
  /\ op \in req[r].pending
  /\ req' = [req EXCEPT ![r].pending = @ \ {op}]
  /\ queue' = Append(queue, Entry(op, r))
  /\ UNCHANGED <<ctlVars, waits, socks, born>>

EngNext ==
  \/ Run \/ Stop \/ StopIos \/ StopJoin \/ RunReturn \/ Clear
  \/ RunOne
  \/ \E u \in Users, op \in {"create", "query"} : Invoke(u, op)
  \/ \E s \in Sockets, op \in {"close", "io", "cancel"} : PostTo(s, op)
  \/ \E r \in Reqs, s \in Sockets, k \in Kinds : Ask(r, s, k)
  \/ \E r \in Reqs, op \in Operations : Complete(r, op)

EngSpec == EngInit /\ [][EngNext]_engVars
-----------------------------------------------------------------------------
(* A caller blocked in invoke_io_service has exactly one handler queued, the    *)
(* one that writes its result and sets its event, and nobody else has: the      *)
(* pointers in the handler (utils.h:65) are always to the frame of a caller     *)
(* that still waits, across stop and a second run too.                          *)
Invokes(u) ==
  {i \in DOMAIN queue : queue[i].op \in {"create", "query"} /\ queue[i].of = u}

WaiterServed ==
  \A u \in Users :
    /\ u \in waits => \E i \in DOMAIN queue : Invokes(u) = {i}
    /\ u \notin waits => Invokes(u) = {}

(* A client that exists belongs to a socket that exists, and is the only one of *)
(* its kind there: what ~udt_engine_socket and the replacement delete is exactly *)
(* what there is.                                                               *)
SlotOwned ==
  \A r \in Reqs : req[r].obj = "live" =>
    req[r].sock \in socks /\ Slot(req[r].sock, req[r].kind) = {r}

(* Whatever operation is pending belongs to a client that exists, on a socket   *)
(* that exists, through replacements, answers that come late or twice, closes,  *)
(* clears and reuse of an address.  The one exception is the receive of a       *)
(* deleted udp_pub_addr, whose close() cancels nothing (udp_pub_addr.cpp:67):   *)
(* it stays pending on the socket, which other clients share, and takes the     *)
(* next datagram, but it never outlives the socket.                             *)
PendingOwned ==
  \A r \in Reqs : req[r].pending # {} =>
    /\ req[r].sock \in socks
    /\ \/ req[r].obj = "live"
       \/ /\ req[r].obj = "gone" /\ req[r].kind = "pub_addr"
          /\ req[r].pending = {"receive"}

(* Once the handler of clear() has run, no socket of an earlier run is left:    *)
(* the clear of a run is always executed before the end of the next one's       *)
(* backlog, although thread_proc queues it when nobody runs the io_service.     *)
RunIsClean ==
  thread = "run" /\ Entry("clear", NoSock) \notin Queued =>
    \A s \in socks : born[s] = runs

(* A datagram that is no answer makes udp_pub_addr receive again and start its  *)
(* timer again.                                                                *)
Restarts(r) ==
  /\ queue # <<>> /\ Head(queue) = Entry("receive", r)
  /\ req[r].kind = "pub_addr" /\ ~WrefExpired(r)
  /\ RunOne /\ queue' = Tail(queue)

(* Resolvers answer in the end, with an error if need be.  A timer expires      *)
(* unless it is started again for ever.                                         *)
TimerFairness(r) == WF_engVars(Complete(r, "timer")) \/ []<><<Restarts(r)>>_engVars

EngFairness ==
  /\ WF_engVars(RunOne) /\ WF_engVars(RunReturn) /\ WF_engVars(Clear)
  /\ WF_engVars(StopIos) /\ WF_engVars(StopJoin)
  /\ \A r \in Reqs : WF_engVars(Complete(r, "resolve")) /\ TimerFairness(r)

EngLiveSpec == EngSpec /\ EngFairness

Stopping == ctl # "idle" \/ thread = "none"

(* A caller blocked in create or setsockopt comes back unless the engine is     *)
(* stopped meanwhile.                                                           *)
InvokeReturns == \A u \in Users : u \in waits ~> (u \notin waits \/ Stopping)

(* A request that has its socket's slot for itself is answered unless the       *)
(* socket is closed, another request replaces it or the engine is stopped; or   *)
(* unless datagrams that are no answer never stop coming, each of which starts  *)
(* the timer again (udp_pub_addr.cpp:179 to 124).                               *)
RequestAnswered ==
  \A r \in Reqs :
    \/ (req[r].obj = "live" /\ req[r].alone) ~>
         (req[r].calls > 0 \/ ~req[r].alone \/ Stopping)
    \/ []<><<Restarts(r)>>_engVars
=============================================================================
