---------------------------- MODULE UdtEngineProofs ----------------------------
(* UdtEngine: who owns what, for any number of callers, sockets, requests and   *)
(* runs: a blocked caller has its handler queued, a client its socket, and a    *)
(* run no sockets of an earlier one.  At the end Singleton, through which the   *)
(* callers get the engine: every object has one owner, for any threads and      *)
(* addresses.                                                                   *)
EXTENDS UdtEngine, Singleton, SequenceTheorems, TLAPS

Calls == {"create", "query"}
ClearEntry == Entry("clear", NoSock)

(* WaiterServed by index: who has a handler queued waits, who waits has one, *)
(* and no two are of the same caller.                                        *)
Served ==
  /\ \A i \in 1..Len(queue) : queue[i].op \in Calls => queue[i].of \in waits
  /\ \A u \in waits : \E i \in 1..Len(queue) : queue[i].op \in Calls /\ queue[i].of = u
  /\ \A i, j \in 1..Len(queue) :
       queue[i].op \in Calls /\ queue[j].op \in Calls /\ queue[i].of = queue[j].of => i = j

(* Whenever no clear is queued the sockets are those of the run that goes on,  *)
(* and between runs there are none.                                            *)
CleanUp ==
  (\A i \in 1..Len(queue) : queue[i] # ClearEntry) =>
     /\ thread = "run" => \A s \in socks : born[s] = runs
     /\ thread \in {"none", "done"} => socks = {}

(* PendingOwned for the record of one request, with the sockets in S. *)
HasOwner(q, S) ==
  q.pending # {} =>
    /\ q.sock \in S
    /\ q.obj = "live" \/ (q.obj = "gone" /\ q.kind = "pub_addr" /\ q.pending = {"receive"})

AllHaveOwners == \A r \in Reqs : HasOwner(req[r], socks)

EngInv == EngTypeOK /\ Served /\ CleanUp /\ SlotOwned /\ AllHaveOwners

-----------------------------------------------------------------------------
(* A handler is added at the end of the queue. *)
Added(e) == e \in Handlers /\ queue' = Append(queue, e)

(* The head of the queue is taken, and the answer of a request may be added. *)
Popped ==
  /\ queue # <<>>
  /\ \/ queue' = Tail(queue)
     \/ \E r \in Reqs : queue' = Append(Tail(queue), Entry("told", r))

(* The queue behind a post. *)
LEMMA AddedIs ==
  ASSUME queue \in Seq(Handlers), NEW e, Added(e)
  PROVE  /\ queue' \in Seq(Handlers) /\ Len(queue') = Len(queue) + 1 /\ Len(queue) \in Nat
         /\ queue'[Len(queue) + 1] = e
         /\ \A i \in 1..Len(queue) : queue'[i] = queue[i]
BY SMTT(60), AppendProperties DEF Added

(* The queue behind run_one. *)
LEMMA PoppedIs ==
  ASSUME queue \in Seq(Handlers), Popped
  PROVE  /\ queue' \in Seq(Handlers) /\ Len(queue) \in Nat \ {0} /\ Head(queue) = queue[1]
         /\ \/ Len(queue') = Len(queue) - 1
            \/ Len(queue') = Len(queue) /\ queue'[Len(queue)].op = "told"
         /\ \A i \in 1..Len(queue) - 1 : queue'[i] = queue[i + 1]
<1> DEFINE t == Tail(queue)
<1>1. /\ t \in Seq(Handlers) /\ Len(t) = Len(queue) - 1 /\ Len(queue) \in Nat \ {0}
      /\ Head(queue) = queue[1] /\ \A i \in 1..Len(t) : t[i] = queue[i + 1]
  BY HeadTailProperties DEF Popped
<1> HIDE DEF t
<1>2. CASE queue' = t
  BY <1>1, <1>2
<1>3. ASSUME NEW r \in Reqs, queue' = Append(t, Entry("told", r))
      PROVE  /\ queue' \in Seq(Handlers) /\ Len(queue') = Len(queue)
             /\ queue'[Len(queue)].op = "told"
             /\ \A i \in 1..Len(queue) - 1 : queue'[i] = queue[i + 1]
  <2>1. Entry("told", r) \in Handlers /\ Entry("told", r).op = "told"
    BY DEF Entry, Handlers
  <2>2. /\ queue' \in Seq(Handlers) /\ Len(queue') = Len(t) + 1
        /\ queue'[Len(t) + 1] = Entry("told", r)
        /\ \A i \in 1..Len(t) : queue'[i] = t[i]
    BY <1>1, <1>3, <2>1, AppendProperties
  <2> QED
    BY <1>1, <2>1, <2>2
<1> QED
  BY <1>1, <1>2, <1>3 DEF Popped, t

(* The callers, when a handler of somebody else, or their own, is added. *)
LEMMA ServedAdded ==
  ASSUME queue \in Seq(Handlers), Served, NEW e, Added(e),
         \/ e.op \notin Calls /\ waits' = waits
         \/ e.op \in Calls /\ e.of \notin waits /\ waits' = waits \cup {e.of}
  PROVE  Served'
<1>1. /\ Len(queue') = Len(queue) + 1 /\ Len(queue) \in Nat /\ queue'[Len(queue) + 1] = e
      /\ \A i \in 1..Len(queue) : queue'[i] = queue[i]
  BY AddedIs
<1>2. \A i \in 1..Len(queue') : i \in 1..Len(queue) \/ i = Len(queue) + 1
  BY <1>1
<1>3. \A i \in 1..Len(queue) : i \in 1..Len(queue')
  BY <1>1
<1>4. Len(queue) + 1 \in 1..Len(queue')
  BY <1>1
<1>5. \A i \in 1..Len(queue') : queue'[i].op \in Calls => queue'[i].of \in waits'
  BY <1>1, <1>2 DEF Served
<1>6. \A u \in waits' : \E i \in 1..Len(queue') : queue'[i].op \in Calls /\ queue'[i].of = u
  BY <1>1, <1>3, <1>4 DEF Served
<1>7. ASSUME NEW i \in 1..Len(queue'), NEW j \in 1..Len(queue'),
             queue'[i].op \in Calls, queue'[j].op \in Calls, queue'[i].of = queue'[j].of
      PROVE  i = j
  BY <1>1, <1>2, <1>7 DEF Served
<1> QED
  BY <1>5, <1>6, <1>7 DEF Served

(* The callers, when the head of the queue is taken. *)
LEMMA ServedPopped ==
  ASSUME queue \in Seq(Handlers), Served, Popped,
         \/ Head(queue).op \notin Calls /\ waits' = waits
         \/ Head(queue).op \in Calls /\ waits' = waits \ {Head(queue).of}
  PROVE  Served'
<1>1. /\ Len(queue) \in Nat \ {0} /\ Head(queue) = queue[1]
      /\ \/ Len(queue') = Len(queue) - 1
         \/ Len(queue') = Len(queue) /\ queue'[Len(queue)].op = "told"
      /\ \A i \in 1..Len(queue) - 1 : queue'[i] = queue[i + 1]
  BY PoppedIs
<1>2. ASSUME NEW i \in 1..Len(queue'), queue'[i].op \in Calls
      PROVE  i + 1 \in 1..Len(queue) /\ queue'[i] = queue[i + 1] /\ i + 1 # 1
  <2>1. i # Len(queue) \/ Len(queue') = Len(queue) - 1
    BY <1>1, <1>2 DEF Calls
  <2>2. i \in 1..Len(queue) - 1
    BY <1>1, <2>1
  <2> QED
    BY <1>1, <2>2
<1>3. 1 \in 1..Len(queue)
  BY <1>1
<1>4. \A i \in 1..Len(queue') : queue'[i].op \in Calls => queue'[i].of \in waits'
  BY <1>1, <1>2, <1>3 DEF Served
<1>5. ASSUME NEW u \in waits'
      PROVE  \E i \in 1..Len(queue') : queue'[i].op \in Calls /\ queue'[i].of = u
  <2>1. PICK j \in 1..Len(queue) : queue[j].op \in Calls /\ queue[j].of = u
    BY <1>5 DEF Served
  <2>2. j # 1
    BY <1>1, <1>5, <2>1
  <2>3. j - 1 \in 1..Len(queue) - 1 /\ (j - 1) + 1 = j
    BY <1>1, <2>2
  <2>4. j - 1 \in 1..Len(queue') /\ queue'[j - 1] = queue[j]
    BY <1>1, <2>3
  <2> QED
    BY <2>1, <2>4
<1>6. ASSUME NEW i \in 1..Len(queue'), NEW j \in 1..Len(queue'),
             queue'[i].op \in Calls, queue'[j].op \in Calls, queue'[i].of = queue'[j].of
      PROVE  i = j
  <2>1. i + 1 = j + 1
    BY <1>2, <1>6 DEF Served
  <2> QED
    BY <1>1, <2>1
<1> QED
  BY <1>4, <1>5, <1>6 DEF Served

(* The sockets of earlier runs, when the run goes on as before. *)
LEMMA CleanUpAdded ==
  ASSUME queue \in Seq(Handlers), CleanUp, NEW e, Added(e),
         UNCHANGED <<thread, socks, born, runs>>
  PROVE  CleanUp'
<1>1. \A i \in 1..Len(queue) : i \in 1..Len(queue') /\ queue'[i] = queue[i]
  BY AddedIs
<1> QED
  BY <1>1 DEF CleanUp, ClearEntry, Entry

(* What a handler leaves of CleanUp when it has run. *)
LEMMA CleanUpPopped ==
  ASSUME queue \in Seq(Handlers), CleanUp, Popped, thread = "run", UNCHANGED <<thread, runs>>,
         Head(queue) = ClearEntry => socks' = {},
         (\A s \in socks : born[s] = runs) => \A s \in socks' : born'[s] = runs
  PROVE  CleanUp'
<1> SUFFICES ASSUME \A i \in 1..Len(queue') : queue'[i] # ClearEntry
             PROVE  \A s \in socks' : born'[s] = runs
  BY DEF CleanUp, ClearEntry, Entry
<1>1. CASE Head(queue) = ClearEntry
  BY <1>1
<1>2. CASE Head(queue) # ClearEntry
  <2>1. ASSUME NEW i \in 1..Len(queue) PROVE queue[i] # ClearEntry
    <3>1. CASE i = 1
      BY <1>2, <3>1, PoppedIs
    <3>2. CASE i # 1
      <4>1. i - 1 \in 1..Len(queue) - 1 /\ (i - 1) + 1 = i
        BY <3>2, PoppedIs
      <4>2. i - 1 \in 1..Len(queue') /\ queue'[i - 1] = queue[i]
        BY SMTT(60), <4>1, PoppedIs
      <4> QED
        BY <4>2
    <3> QED
      BY <3>1, <3>2
  <2> QED
    BY <2>1 DEF CleanUp
<1> QED
  BY <1>1, <1>2

(* The clients, when none becomes live and no socket of a live one goes. *)
LEMMA SlotsKept ==
  ASSUME SlotOwned,
         \A r \in Reqs : req'[r].obj = "live" =>
            /\ req[r].obj = "live" /\ req'[r].sock = req[r].sock /\ req'[r].kind = req[r].kind
            /\ req[r].sock \in socks => req[r].sock \in socks'
  PROVE  SlotOwned'
BY DEF SlotOwned, Slot
-----------------------------------------------------------------------------
(* The clients: what the operations on them make of their records. *)
LEMMA CancelReceivesIs ==
  ASSUME NEW rq \in [Reqs -> Request], NEW s
  PROVE  /\ CancelReceives(rq, s) \in [Reqs -> Request]
         /\ \A r \in Reqs : /\ CancelReceives(rq, s)[r].obj = rq[r].obj
                            /\ CancelReceives(rq, s)[r].sock = rq[r].sock
                            /\ CancelReceives(rq, s)[r].kind = rq[r].kind
                            /\ CancelReceives(rq, s)[r].pending \subseteq rq[r].pending
                            /\ rq[r].sock = s => "receive" \notin CancelReceives(rq, s)[r].pending
BY DEF CancelReceives, Request

(* A record that loses operations only keeps its owner. *)
LEMMA OwnedLess ==
  ASSUME NEW p, NEW q, NEW S, NEW T, HasOwner(p, S), S \subseteq T,
         q.obj = p.obj, q.sock = p.sock, q.kind = p.kind, q.pending \subseteq p.pending
  PROVE  HasOwner(q, T)
BY DEF HasOwner

(* The changes of a single record. *)
LEMMA RecordIs ==
  ASSUME NEW q \in Request, NEW P \in SUBSET Operations
  PROVE  /\ [q EXCEPT !.obj = "gone", !.again = 0, !.pending = P] \in Request
         /\ [q EXCEPT !.obj = "gone", !.again = 0, !.pending = P, !.alone = FALSE] \in Request
         /\ \A b \in BOOLEAN : /\ [q EXCEPT !.obj = "live", !.alone = b] \in Request
                               /\ [q EXCEPT !.obj = "live", !.alone = b].sock = q.sock
                               /\ [q EXCEPT !.obj = "live", !.alone = b].kind = q.kind
         /\ [q EXCEPT !.alone = FALSE] \in Request
<1>1. 0 \in 0..MaxAgain
  BY EngineAssumption
<1>2. [q EXCEPT !.obj = "gone", !.again = 0, !.pending = P] \in Request
  BY <1>1, ZenonT(30) DEF Request
<1>3. [q EXCEPT !.obj = "gone", !.again = 0, !.pending = P, !.alone = FALSE] \in Request
  BY <1>1 DEF Request
<1>4. ASSUME NEW b \in BOOLEAN PROVE [q EXCEPT !.obj = "live", !.alone = b] \in Request
  BY DEF Request
<1>5. [q EXCEPT !.alone = FALSE] \in Request
  BY DEF Request
<1> QED
  BY <1>2, <1>3, <1>4, <1>5 DEF Request

(* A client that is deleted ends its operations, but for the receive of the socket. *)
LEMMA DeleteIs ==
  ASSUME NEW rq \in [Reqs -> Request], NEW s, NEW R \in SUBSET Reqs
  PROVE  /\ Delete(rq, R, s) \in [Reqs -> Request]
         /\ \A r \in Reqs : /\ Delete(rq, R, s)[r].obj = IF r \in R THEN "gone" ELSE rq[r].obj
                            /\ Delete(rq, R, s)[r].sock = rq[r].sock
                            /\ Delete(rq, R, s)[r].kind = rq[r].kind
                            /\ Delete(rq, R, s)[r].pending \subseteq rq[r].pending
                            /\ r \in R => Delete(rq, R, s)[r].pending \subseteq {"receive"}
                            /\ r \in R /\ rq[r].kind = "hp_clt" /\ rq[r].sock = s
                                 => Delete(rq, R, s)[r].pending = {}
<1> DEFINE gone == [r \in Reqs |-> IF r \in R
                      THEN [rq[r] EXCEPT !.obj = "gone", !.again = 0,
                                         !.pending = @ \cap {"receive"}]
                      ELSE rq[r]]
<1>1. /\ gone \in [Reqs -> Request]
      /\ \A r \in Reqs : /\ gone[r].obj = IF r \in R THEN "gone" ELSE rq[r].obj
                         /\ gone[r].sock = rq[r].sock /\ gone[r].kind = rq[r].kind
                         /\ gone[r].pending \subseteq rq[r].pending
                         /\ r \in R => gone[r].pending \subseteq {"receive"}
  <2>1. ASSUME NEW r \in Reqs
        PROVE  /\ gone[r] \in Request /\ gone[r].obj = IF r \in R THEN "gone" ELSE rq[r].obj
               /\ gone[r].sock = rq[r].sock /\ gone[r].kind = rq[r].kind
               /\ gone[r].pending \subseteq rq[r].pending
               /\ r \in R => gone[r].pending \subseteq {"receive"}
    <3>1. rq[r] \in Request /\ rq[r].pending \cap {"receive"} \in SUBSET Operations
      BY DEF Request, Operations
    <3>2. CASE r \in R
      <4>1. gone[r] = [rq[r] EXCEPT !.obj = "gone", !.again = 0,
                                    !.pending = rq[r].pending \cap {"receive"}]
        BY <3>2
      <4>2. gone[r] \in Request
        BY <3>1, <4>1, RecordIs
      <4> QED
        BY <3>1, <3>2, <4>1, <4>2 DEF Request
    <3>3. CASE r \notin R
      BY <3>1, <3>3
    <3> QED
      BY <3>2, <3>3
  <2> QED
    BY <2>1
<1> HIDE DEF gone
<1>2. Delete(rq, R, s) = IF \E r \in R : rq[r].kind = "hp_clt" THEN CancelReceives(gone, s) ELSE gone
  BY DEF Delete, gone
<1>3. CASE \E r \in R : rq[r].kind = "hp_clt"
  <2>1. Delete(rq, R, s) = CancelReceives(gone, s)
    BY <1>2, <1>3
  <2>2. /\ CancelReceives(gone, s) \in [Reqs -> Request]
        /\ \A r \in Reqs : /\ CancelReceives(gone, s)[r].obj = gone[r].obj
                           /\ CancelReceives(gone, s)[r].sock = gone[r].sock
                           /\ CancelReceives(gone, s)[r].kind = gone[r].kind
                           /\ CancelReceives(gone, s)[r].pending \subseteq gone[r].pending
                           /\ gone[r].sock = s => "receive" \notin CancelReceives(gone, s)[r].pending
    BY <1>1, CancelReceivesIs
  <2> QED
    BY <1>1, <2>1, <2>2
<1>4. CASE ~\E r \in R : rq[r].kind = "hp_clt"
  BY <1>1, <1>2, <1>4
<1> QED
  BY <1>3, <1>4

(* What a deleted client leaves pending is a receive of udp_pub_addr. *)
LEMMA DeleteOwned ==
  ASSUME NEW rq \in [Reqs -> Request], NEW s, NEW R \in SUBSET Reqs, NEW S, s \in S,
         \A r \in R : rq[r].sock = s, \A r \in Reqs : HasOwner(rq[r], S)
  PROVE  \A r \in Reqs : HasOwner(Delete(rq, R, s)[r], S)
<1> DEFINE d == Delete(rq, R, s)
<1>1. \A r \in Reqs : /\ d[r].obj = IF r \in R THEN "gone" ELSE rq[r].obj
                      /\ d[r].sock = rq[r].sock /\ d[r].kind = rq[r].kind
                      /\ d[r].pending \subseteq rq[r].pending
                      /\ r \in R => d[r].pending \subseteq {"receive"}
                      /\ r \in R /\ rq[r].kind = "hp_clt" /\ rq[r].sock = s => d[r].pending = {}
  BY DeleteIs
<1>2. \A r \in Reqs : rq[r].kind \in {"pub_addr", "hp_clt"}
  BY DEF Request, Kinds
<1> HIDE DEF d
<1>3. ASSUME NEW r \in Reqs PROVE HasOwner(d[r], S)
  <2>1. CASE r \in R
    BY <1>1, <1>2, <2>1 DEF HasOwner
  <2>2. CASE r \notin R
    BY <1>1, <2>2, OwnedLess
  <2> QED
    BY <2>1, <2>2
<1> QED
  BY <1>3 DEF d

(* The clients of a socket that is deleted are deleted with it. *)
LEMMA DeleteSocketIs ==
  ASSUME NEW rq \in [Reqs -> Request], NEW S
  PROVE  /\ DeleteSocket(rq, S) \in [Reqs -> Request]
         /\ \A r \in Reqs : /\ DeleteSocket(rq, S)[r].obj = "live" =>
                                 rq[r].obj = "live" /\ rq[r].sock \notin S
                            /\ DeleteSocket(rq, S)[r].sock = rq[r].sock
                            /\ DeleteSocket(rq, S)[r].kind = rq[r].kind
<1>1. ASSUME NEW r \in Reqs
      PROVE  /\ DeleteSocket(rq, S)[r] \in Request
             /\ DeleteSocket(rq, S)[r].obj = "live" =>
                  rq[r].obj = "live" /\ rq[r].sock \notin S
             /\ DeleteSocket(rq, S)[r].sock = rq[r].sock /\ DeleteSocket(rq, S)[r].kind = rq[r].kind
  <2>1. rq[r] \in Request /\ {} \in SUBSET Operations
    OBVIOUS
  <2>2. CASE rq[r].sock \in S /\ rq[r].obj \in {"live", "gone"}
    <3>1. DeleteSocket(rq, S)[r]
            = [rq[r] EXCEPT !.obj = "gone", !.again = 0, !.pending = {}, !.alone = FALSE]
      BY SMTT(60), <2>2 DEF DeleteSocket
    <3>2. DeleteSocket(rq, S)[r] \in Request
      BY ZenonT(60), <2>1, <3>1, RecordIs
    <3> QED
      BY <2>1, <3>1, <3>2 DEF Request
  <2>3. CASE ~(rq[r].sock \in S /\ rq[r].obj \in {"live", "gone"})
    <3>1. DeleteSocket(rq, S)[r] = rq[r]
      BY <2>3 DEF DeleteSocket
    <3> QED
      BY <2>1, <2>3, <3>1
  <2> QED
    BY <2>2, <2>3
<1>2. DeleteSocket(rq, S) = [r \in Reqs |-> DeleteSocket(rq, S)[r]]
  BY DEF DeleteSocket
<1>3. DeleteSocket(rq, S) \in [Reqs -> Request]
  <2>1. \A r \in Reqs : DeleteSocket(rq, S)[r] \in Request
    BY <1>1
  <2> QED
    BY <1>2, <2>1
<1> QED
  BY <1>1, <1>3

(* Nothing is left pending on a socket that is deleted. *)
LEMMA DeleteSocketOwned ==
  ASSUME NEW rq \in [Reqs -> Request], NEW S, NEW T, \A r \in Reqs : HasOwner(rq[r], T)
  PROVE  \A r \in Reqs : HasOwner(DeleteSocket(rq, S)[r], T \ S)
<1>1. ASSUME NEW r \in Reqs PROVE HasOwner(DeleteSocket(rq, S)[r], T \ S)
  <2>1. CASE rq[r].sock \in S /\ rq[r].obj \in {"live", "gone"}
    <3>1. DeleteSocket(rq, S)[r]
            = [rq[r] EXCEPT !.obj = "gone", !.again = 0, !.pending = {}, !.alone = FALSE]
      BY SMTT(60), <2>1 DEF DeleteSocket
    <3>2. DeleteSocket(rq, S)[r].pending = {}
      BY <3>1 DEF Request
    <3> QED
      BY <3>2 DEF HasOwner
  <2>2. CASE ~(rq[r].sock \in S /\ rq[r].obj \in {"live", "gone"})
    <3>1. DeleteSocket(rq, S)[r] = rq[r]
      BY <2>2 DEF DeleteSocket
    <3> QED
      BY <2>2, <3>1 DEF HasOwner
  <2> QED
    BY <2>1, <2>2
<1> QED
  BY <1>1

(* A new client replaces the one that its socket has of the kind. *)
LEMMA ReplaceIs ==
  ASSUME req \in [Reqs -> Request], NEW r \in Reqs
  PROVE  /\ Replace(r) \in [Reqs -> Request]
         /\ \A q \in Reqs : /\ Replace(r)[q].sock = req[q].sock /\ Replace(r)[q].kind = req[q].kind
                            /\ Replace(r)[q].obj = "live" =>
                                 q = r \/ (req[q].obj = "live" /\ q \notin Slot(req[r].sock, req[r].kind))
         /\ Replace(r)[r].obj = "live"
         /\ req[r].sock \in socks /\ AllHaveOwners => \A q \in Reqs : HasOwner(Replace(r)[q], socks)
<1> DEFINE s == req[r].sock
           k == req[r].kind
           d == Delete(req, Slot(s, k), s)
<1>1. PICK free \in BOOLEAN :
        Replace(r) = [q \in Reqs |-> IF q = r THEN [d[q] EXCEPT !.obj = "live", !.alone = free]
                                     ELSE IF q \in Slot(s, k) THEN [d[q] EXCEPT !.alone = FALSE]
                                     ELSE d[q]]
  BY DEF Replace
<1>2. Slot(s, k) \in SUBSET Reqs
  BY DEF Slot
<1>3. /\ d \in [Reqs -> Request]
      /\ \A q \in Reqs : /\ d[q].obj = IF q \in Slot(s, k) THEN "gone" ELSE req[q].obj
                         /\ d[q].sock = req[q].sock /\ d[q].kind = req[q].kind
  BY <1>2, DeleteIs
<1>31. s \in socks /\ AllHaveOwners => \A q \in Reqs : HasOwner(d[q], socks)
  BY <1>2, DeleteOwned DEF AllHaveOwners, Slot
<1> HIDE DEF d, s, k
<1>4. ASSUME NEW q \in Reqs
      PROVE  /\ Replace(r)[q] \in Request
             /\ Replace(r)[q].sock = req[q].sock /\ Replace(r)[q].kind = req[q].kind
             /\ Replace(r)[q].obj = "live" => q = r \/ (req[q].obj = "live" /\ q \notin Slot(s, k))
             /\ q = r => Replace(r)[q].obj = "live"
             /\ s \in socks /\ AllHaveOwners => HasOwner(Replace(r)[q], socks)
  <2>1. d[q] \in Request
    BY <1>3
  <2>2. CASE q = r
    <3>1. Replace(r)[q] = [d[q] EXCEPT !.obj = "live", !.alone = free]
      BY <1>1, <2>2
    <3>2. Replace(r)[q] \in Request /\ Replace(r)[q].sock = d[q].sock /\ Replace(r)[q].kind = d[q].kind
      BY ZenonT(60), <2>1, <3>1, {} \in SUBSET Operations, RecordIs
    <3>3. Replace(r)[q].obj = "live"
      BY <2>1, <3>1 DEF Request
    <3>4. s \in socks => HasOwner(Replace(r)[q], socks)
      BY <1>3, <2>2, <3>2, <3>3 DEF HasOwner, s
    <3> QED
      BY <1>3, <2>2, <3>2, <3>3, <3>4
  <2>3. CASE q # r /\ q \in Slot(s, k)
    <3>1. Replace(r)[q] = [d[q] EXCEPT !.alone = FALSE]
      BY <1>1, <2>3
    <3>2. Replace(r)[q] \in Request
      BY <2>1, <3>1, {} \in SUBSET Operations, RecordIs
    <3>3. /\ Replace(r)[q].obj = d[q].obj /\ Replace(r)[q].sock = d[q].sock
          /\ Replace(r)[q].kind = d[q].kind /\ Replace(r)[q].pending = d[q].pending
      BY <2>1, <3>1 DEF Request
    <3>4. HasOwner(d[q], socks) => HasOwner(Replace(r)[q], socks)
      BY <3>3, OwnedLess
    <3> QED
      BY <1>3, <1>31, <2>3, <3>2, <3>3, <3>4
  <2>4. CASE q # r /\ q \notin Slot(s, k)
    <3>1. Replace(r)[q] = d[q]
      BY <1>1, <2>4
    <3> QED
      BY <1>3, <1>31, <2>1, <2>4, <3>1
  <2> QED
    BY <2>2, <2>3, <2>4
<1>5. Replace(r) \in [Reqs -> Request]
  <2>1. DOMAIN Replace(r) = Reqs /\ Replace(r) = [q \in Reqs |-> Replace(r)[q]]
    BY <1>1
  <2> QED
    BY <1>4, <2>1
<1> QED
  BY <1>4, <1>5 DEF s, k

(* What Started makes of a record that it is given. *)
LEMMA StartedIs ==
  ASSUME NEW r \in Reqs, NEW rq \in [Reqs -> Request], NEW ops \in SUBSET Operations,
         NEW told \in BOOLEAN, Started(r, rq, ops, told),
         queue \in Seq(Handlers), queue # <<>>
  PROVE  /\ Popped
         /\ req' \in [Reqs -> Request]
         /\ \A q \in Reqs : /\ req'[q].obj = rq[q].obj /\ req'[q].sock = rq[q].sock
                            /\ req'[q].kind = rq[q].kind
<1>1. Popped
  <2>1. Tail(queue) \in Seq(Handlers)
    BY HeadTailProperties
  <2>2. Entry("told", r) \in Handlers
    BY DEF Entry, Handlers
  <2>3. CASE told
    <3>1. queue' = Tail(queue) \o <<Entry("told", r)>>
      BY <2>3 DEF Started
    <3>2. queue' = Append(Tail(queue), Entry("told", r))
      BY <2>1, <2>2, <3>1, AppendIsConcat
    <3> QED
      BY <3>2 DEF Popped
  <2>4. CASE ~told
    <3>1. queue' = Tail(queue) \o <<>>
      BY <2>4 DEF Started
    <3>2. queue' = Tail(queue)
      BY <2>1, <3>1
    <3> QED
      BY <3>2 DEF Popped
  <2> QED
    BY <2>3, <2>4
<1>2. req' = [rq EXCEPT ![r].pending = @ \cup ops]
  BY DEF Started
<1>3. rq[r] \in Request /\ [rq[r] EXCEPT !.pending = @ \cup ops] \in Request
  BY DEF Request
<1>4. req' \in [Reqs -> Request] /\ \A q \in Reqs : q # r => req'[q] = rq[q]
  BY <1>2, <1>3
<1>5. req'[r].obj = rq[r].obj /\ req'[r].sock = rq[r].sock /\ req'[r].kind = rq[r].kind
  BY <1>2, <1>3 DEF Request
<1> QED
  BY <1>1, <1>4, <1>5

(* The operations that are started belong to a client that exists. *)
LEMMA StartedOwned ==
  ASSUME NEW r \in Reqs, NEW rq \in [Reqs -> Request], NEW ops \in SUBSET Operations,
         NEW told \in BOOLEAN, Started(r, rq, ops, told),
         NEW S, rq[r].obj = "live", rq[r].sock \in S, \A q \in Reqs : HasOwner(rq[q], S)
  PROVE  \A q \in Reqs : HasOwner(req'[q], S)
<1>1. req' = [rq EXCEPT ![r].pending = @ \cup ops]
  BY DEF Started
<1>2. \A q \in Reqs : q # r => req'[q] = rq[q]
  BY <1>1
<1>3. req'[r].obj = rq[r].obj /\ req'[r].sock = rq[r].sock
  BY <1>1 DEF Request
<1>4. HasOwner(req'[r], S)
  BY <1>3 DEF HasOwner
<1> QED
  BY <1>2, <1>4

-----------------------------------------------------------------------------
(* What each handler does to what the invariant is about: req is typed and     *)
(* nobody's slot or operation loses its owner, the head of the queue is taken, and the sockets and  *)
(* the callers change as it says.                                              *)
Effects(gone, served) ==
  /\ Popped
  /\ req' \in [Reqs -> Request] /\ SlotOwned' /\ AllHaveOwners'
  /\ socks' \subseteq Sockets /\ born' \in [Sockets -> 0..MaxRuns]
  /\ (\A s \in socks : born[s] = runs) => \A s \in socks' : born'[s] = runs
  /\ gone => socks' = {}
  /\ waits' = waits \ served

Clients == UNCHANGED <<waits, socks, born>>

(* Most handlers leave the sockets and the callers alone. *)
LEMMA ClientEffects ==
  ASSUME EngTypeOK, SlotOwned, Clients, Popped, req' \in [Reqs -> Request],
         \A r \in Reqs : HasOwner(req'[r], socks),
         \A r \in Reqs : /\ req'[r].sock = req[r].sock /\ req'[r].kind = req[r].kind
                         /\ req'[r].obj = "live" => req[r].obj = "live"
  PROVE  Effects(FALSE, {})
<1>1. SlotOwned'
  BY SlotsKept DEF Clients
<1>2. AllHaveOwners'
  BY DEF AllHaveOwners, Clients
<1> QED
  BY <1>1, <1>2 DEF Effects, Clients, EngTypeOK

(* What the handlers of the sockets change. *)
LEMMA SocketEffects ==
  ASSUME EngTypeOK, SlotOwned, AllHaveOwners, NEW h \in Handlers, h = Head(queue), queue # <<>>,
         \/ h.op = "create" /\ CreateSock(h.of)
         \/ h.op = "query" /\ Query(h.of)
         \/ h.op = "close" /\ CloseSock(h.of)
         \/ h.op = "clear" /\ ClearSocks
  PROVE  Effects(h.op = "clear", IF h.op \in Calls THEN {h.of} ELSE {})
<1>0. queue' = Tail(queue) => Popped
  BY DEF Popped
<1>1. CASE h.op = "create" /\ CreateSock(h.of)
  <2>1. PICK s \in Sockets \ socks : socks' = socks \cup {s} /\ born' = [born EXCEPT ![s] = runs]
    BY <1>1 DEF CreateSock
  <2>2. waits' = waits \ {h.of} /\ queue' = Tail(queue) /\ req' = req
    BY <1>1 DEF CreateSock, Return
  <2>3. SlotOwned' /\ AllHaveOwners'
    BY <2>1, <2>2 DEF SlotOwned, Slot, AllHaveOwners, HasOwner
  <2>4. /\ born' \in [Sockets -> 0..MaxRuns] /\ born'[s] = runs
        /\ \A q \in socks : born'[q] = born[q]
    BY <2>1 DEF EngTypeOK
  <2> QED
    BY <1>0, <1>1, <2>1, <2>2, <2>3, <2>4 DEF Effects, EngTypeOK, Calls
<1>2. CASE h.op = "query" /\ Query(h.of)
  <2>1. /\ waits' = waits \ {h.of} /\ queue' = Tail(queue)
        /\ req' = req /\ socks' = socks /\ born' = born
    BY <1>2 DEF Query, Return
  <2>2. SlotOwned' /\ AllHaveOwners'
    BY <2>1 DEF SlotOwned, Slot, AllHaveOwners
  <2> QED
    BY <1>0, <1>2, <2>1, <2>2 DEF Effects, EngTypeOK, Calls
<1>3. CASE h.op = "close" /\ CloseSock(h.of)
  <2>1. /\ socks' = socks \ {h.of} /\ queue' = Tail(queue)
        /\ waits' = waits /\ born' = born
        /\ req' = IF h.of \in socks THEN DeleteSocket(req, {h.of}) ELSE req
    BY <1>3 DEF CloseSock
  <2>2. req \in [Reqs -> Request]
    BY DEF EngTypeOK
  <2>3. /\ req' \in [Reqs -> Request]
        /\ \A r \in Reqs : /\ req'[r].sock = req[r].sock /\ req'[r].kind = req[r].kind
                           /\ req'[r].obj = "live" =>
                                req[r].obj = "live" /\ (req[r].sock \in socks => req[r].sock # h.of)
    BY <2>1, <2>2, DeleteSocketIs
  <2>31. \A r \in Reqs : HasOwner(req'[r], socks')
    <3>1. CASE h.of \in socks
      BY <2>1, <2>2, <3>1, DeleteSocketOwned DEF AllHaveOwners
    <3>2. CASE h.of \notin socks
      <4>1. req' = req /\ socks' = socks
        BY <2>1, <3>2
      <4> QED
        BY <4>1 DEF AllHaveOwners
    <3> QED
      BY <3>1, <3>2
  <2>4. SlotOwned' /\ AllHaveOwners'
    BY <2>1, <2>3, <2>31, SlotsKept DEF AllHaveOwners
  <2> QED
    BY <1>0, <1>3, <2>1, <2>3, <2>4 DEF Effects, EngTypeOK, Calls
<1>4. CASE h.op = "clear" /\ ClearSocks
  <2>1. /\ socks' = {} /\ queue' = Tail(queue)
        /\ waits' = waits /\ born' = born /\ req' = DeleteSocket(req, socks)
    BY <1>4 DEF ClearSocks
  <2>2. req \in [Reqs -> Request]
    BY DEF EngTypeOK
  <2>3. /\ req' \in [Reqs -> Request]
        /\ \A r \in Reqs : req'[r].obj = "live" => req[r].obj = "live" /\ req[r].sock \notin socks
    BY <2>1, <2>2, DeleteSocketIs
  <2>31. ASSUME NEW r \in Reqs PROVE HasOwner(req'[r], socks')
    <3>1. HasOwner(req'[r], socks \ socks)
      BY <2>1, <2>2, DeleteSocketOwned DEF AllHaveOwners
    <3>2. socks \ socks = socks'
      BY <2>1
    <3> QED
      BY <3>1, <3>2
  <2>4. SlotOwned' /\ AllHaveOwners'
    BY <2>3, <2>31 DEF SlotOwned, AllHaveOwners
  <2> QED
    BY <1>0, <1>4, <2>1, <2>3, <2>4 DEF Effects, EngTypeOK, Calls
<1> QED
  BY <1>1, <1>2, <1>3, <1>4

(* Input, output and cancel on a socket change the clients only. *)
LEMMA CallEffects ==
  ASSUME EngTypeOK, SlotOwned, AllHaveOwners, NEW s, queue # <<>>, SockIo(s) \/ CancelSock(s)
  PROVE  Effects(FALSE, {})
<1>1. Popped /\ Clients
  BY DEF SockIo, CancelSock, Popped, Clients
<1>3. req' = req \/ req' = CancelReceives(req, s)
  BY DEF SockIo, CancelSock
<1>4. /\ req' \in [Reqs -> Request]
      /\ \A r \in Reqs : /\ req'[r].sock = req[r].sock /\ req'[r].kind = req[r].kind
                         /\ req'[r].obj = req[r].obj /\ req'[r].pending \subseteq req[r].pending
  BY <1>3, CancelReceivesIs DEF EngTypeOK
<1>5. \A r \in Reqs : HasOwner(req'[r], socks)
  BY <1>4, OwnedLess DEF AllHaveOwners
<1> QED
  BY <1>1, <1>4, <1>5, ClientEffects

(* What the handlers that start a client change. *)
LEMMA AskEffects ==
  ASSUME EngTypeOK, SlotOwned, AllHaveOwners, NEW r \in Reqs, queue # <<>>, AskPubAddr(r) \/ AskHolePunch(r)
  PROVE  Effects(FALSE, {})
<1>1. Clients
  BY DEF AskPubAddr, AskHolePunch, Clients
<1>2. CASE ~SocketExists(req[r].sock)
  <2>1. req' = [req EXCEPT ![r].obj = "gone"] /\ Popped
    BY <1>2 DEF AskPubAddr, AskHolePunch, Popped
  <2>2. /\ req' \in [Reqs -> Request]
        /\ \A q \in Reqs : /\ req'[q].sock = req[q].sock /\ req'[q].kind = req[q].kind
                           /\ req'[q].obj = "live" => req[q].obj = "live"
    BY ZenonT(60), <2>1 DEF EngTypeOK, Request
  <2>3. ASSUME NEW q \in Reqs PROVE HasOwner(req'[q], socks)
    <3>1. CASE q = r
      <4>1. req[r] \in Request /\ req[r].pending = {}
        BY <1>2 DEF AllHaveOwners, HasOwner, SocketExists, EngTypeOK
      <4>2. req'[r].pending = {}
        BY <2>1, <4>1 DEF EngTypeOK, Request
      <4> QED
        BY <3>1, <4>2 DEF HasOwner
    <3>2. CASE q # r
      BY <2>1, <3>2 DEF AllHaveOwners, EngTypeOK
    <3> QED
      BY <3>1, <3>2
  <2> QED
    BY <1>1, <2>1, <2>2, <2>3, ClientEffects
<1>3. CASE SocketExists(req[r].sock)
  <2>1. PICK ops \in SUBSET Operations, told \in BOOLEAN : Started(r, Replace(r), ops, told)
    BY <1>3 DEF AskPubAddr, AskHolePunch, Operations
  <2>2. req \in [Reqs -> Request] /\ queue \in Seq(Handlers)
    BY DEF EngTypeOK
  <2> DEFINE rp == Replace(r)
  <2>3. /\ rp \in [Reqs -> Request]
        /\ \A q \in Reqs : /\ rp[q].sock = req[q].sock /\ rp[q].kind = req[q].kind
                           /\ rp[q].obj = "live" =>
                                q = r \/ (req[q].obj = "live" /\ q \notin Slot(req[r].sock, req[r].kind))
        /\ rp[r].obj = "live" /\ rp[r].sock \in socks /\ \A q \in Reqs : HasOwner(rp[q], socks)
    BY <1>3, <2>2, ReplaceIs DEF SocketExists
  <2> HIDE DEF rp
  <2>31. Started(r, rp, ops, told)
    BY <2>1 DEF rp
  <2>32. /\ Popped /\ req' \in [Reqs -> Request]
         /\ \A q \in Reqs : /\ req'[q].obj = rp[q].obj /\ req'[q].sock = rp[q].sock
                            /\ req'[q].kind = rp[q].kind
    BY <2>2, <2>3, <2>31, StartedIs
  <2>33. \A q \in Reqs : HasOwner(req'[q], socks)
    BY <2>3, <2>31, StartedOwned
  <2>4. /\ Popped /\ req' \in [Reqs -> Request]
        /\ \A q \in Reqs : /\ req'[q].sock = req[q].sock /\ req'[q].kind = req[q].kind
                           /\ req'[q].obj = "live" =>
                                q = r \/ (req[q].obj = "live" /\ q \notin Slot(req[r].sock, req[r].kind))
    BY <2>3, <2>32
  <2>5. SlotOwned' /\ AllHaveOwners'
    BY <1>1, <1>3, <2>33, <2>4 DEF SlotOwned, Slot, SocketExists, Clients, AllHaveOwners
  <2> QED
    BY <1>1, <2>4, <2>5 DEF Effects, Clients, EngTypeOK
<1> QED
  BY <1>2, <1>3

(* What an operation that completes changes. *)
LEMMA CompletionEffects ==
  ASSUME EngTypeOK, SlotOwned, AllHaveOwners, NEW r \in Reqs, queue # <<>>,
         HandleResolve(r) \/ HandleReceive(r) \/ HandleTimer(r)
  PROVE  Effects(FALSE, {})
<1>1. Clients
  BY DEF HandleResolve, HandleReceive, HandleTimer, Clients
<1>3. CASE Dropped(r)
  BY <1>1, <1>3, ClientEffects DEF Dropped, Popped, EngTypeOK, AllHaveOwners
<1>4. CASE ~Dropped(r)
  <2>0. req[r].obj = "live" /\ req[r].sock \in socks
    BY <1>4 DEF HandleResolve, HandleReceive, HandleTimer, WrefExpired, SlotOwned
  <2>1. req \in [Reqs -> Request] /\ queue \in Seq(Handlers)
    BY DEF EngTypeOK
  <2>2. PICK ops \in SUBSET Operations, told \in BOOLEAN :
          \/ Started(r, req, ops, told)
          \/ req[r].again < MaxAgain /\ Started(r, [req EXCEPT ![r].again = @ + 1], ops, told)
    BY <1>4 DEF HandleResolve, HandleReceive, HandleTimer, Operations
  <2> DEFINE rq == [req EXCEPT ![r].again = @ + 1]
  <2>3. req[r].again < MaxAgain => /\ rq \in [Reqs -> Request]
           /\ \A q \in Reqs : /\ rq[q].sock = req[q].sock /\ rq[q].kind = req[q].kind
                              /\ rq[q].obj = req[q].obj /\ rq[q].pending = req[q].pending
    <3> SUFFICES ASSUME req[r].again < MaxAgain
                 PROVE  /\ rq \in [Reqs -> Request]
                        /\ \A q \in Reqs : /\ rq[q].sock = req[q].sock /\ rq[q].kind = req[q].kind
                                           /\ rq[q].obj = req[q].obj
                                           /\ rq[q].pending = req[q].pending
      OBVIOUS
    <3> DEFINE a == req[r].again + 1
    <3>1. a \in 0..MaxAgain
      BY <2>1, EngineAssumption DEF Request
    <3>2. rq = [req EXCEPT ![r] = [req[r] EXCEPT !.again = a]]
      BY <2>1
    <3> HIDE DEF rq, a
    <3>3. /\ [req[r] EXCEPT !.again = a] \in Request
          /\ [req[r] EXCEPT !.again = a].sock = req[r].sock
          /\ [req[r] EXCEPT !.again = a].kind = req[r].kind
          /\ [req[r] EXCEPT !.again = a].obj = req[r].obj
          /\ [req[r] EXCEPT !.again = a].pending = req[r].pending
      BY <2>1, <3>1 DEF Request
    <3> QED
      BY <2>1, <3>2, <3>3
  <2> HIDE DEF rq
  <2>4. /\ Popped /\ req' \in [Reqs -> Request]
        /\ \A q \in Reqs : /\ req'[q].sock = req[q].sock /\ req'[q].kind = req[q].kind
                           /\ req'[q].obj = req[q].obj
        /\ \A q \in Reqs : HasOwner(req'[q], socks)
    <3>1. CASE Started(r, req, ops, told)
      <4>1. \A q \in Reqs : HasOwner(req'[q], socks)
        BY <2>0, <2>1, <3>1, StartedOwned DEF AllHaveOwners
      <4> QED
        BY <2>1, <3>1, <4>1, StartedIs
    <3>2. CASE req[r].again < MaxAgain /\ Started(r, rq, ops, told)
      <4>1. \A q \in Reqs : HasOwner(rq[q], socks)
        BY <2>3, <3>2, OwnedLess DEF AllHaveOwners
      <4>2. \A q \in Reqs : HasOwner(req'[q], socks)
        BY <2>0, <2>1, <2>3, <3>2, <4>1, StartedOwned
      <4> QED
        BY <2>1, <2>3, <3>2, <4>2, StartedIs
    <3> QED
      BY <2>2, <3>1, <3>2 DEF rq
  <2> QED
    BY <1>1, <2>4, ClientEffects
<1> QED
  BY <1>3, <1>4

(* What telling the caller of a request changes. *)
LEMMA ToldEffects ==
  ASSUME EngTypeOK, SlotOwned, AllHaveOwners, NEW r \in Reqs, queue # <<>>, HandleTold(r)
  PROVE  Effects(FALSE, {})
<1> DEFINE s == req[r].sock
           d == Delete(req, Slot(s, req[r].kind), s)
<1>1. Popped /\ Clients
  BY DEF HandleTold, Popped, Clients
<1>2. req' = req \/ (s \in socks /\ req' = [d EXCEPT ![r].calls = @ + 1, ![r].alone = FALSE])
  BY DEF HandleTold, SocketExists
<1>3. req \in [Reqs -> Request] /\ Slot(s, req[r].kind) \in SUBSET Reqs
  BY DEF EngTypeOK, Slot
<1>4. /\ d \in [Reqs -> Request]
      /\ \A q \in Reqs : /\ d[q].sock = req[q].sock /\ d[q].kind = req[q].kind
                         /\ d[q].obj = "live" => req[q].obj = "live"
  BY <1>3, DeleteIs
<1>41. s \in socks => \A q \in Reqs : HasOwner(d[q], socks)
  BY <1>3, DeleteOwned DEF AllHaveOwners, Slot
<1> HIDE DEF d, s
<1>5. /\ req' \in [Reqs -> Request]
      /\ \A q \in Reqs : /\ req'[q].sock = req[q].sock /\ req'[q].kind = req[q].kind
                         /\ req'[q].obj = "live" => req[q].obj = "live"
                         /\ HasOwner(req'[q], socks)
  <2> DEFINE c == d[r].calls + 1
  <2>1. d[r] \in Request /\ c \in Nat
    BY <1>4 DEF Request
  <2>2. [d EXCEPT ![r].calls = @ + 1, ![r].alone = FALSE]
          = [d EXCEPT ![r] = [d[r] EXCEPT !.calls = c, !.alone = FALSE]]
    BY <1>4
  <2> HIDE DEF c
  <2>3. /\ [d[r] EXCEPT !.calls = c, !.alone = FALSE] \in Request
        /\ [d[r] EXCEPT !.calls = c, !.alone = FALSE].sock = d[r].sock
        /\ [d[r] EXCEPT !.calls = c, !.alone = FALSE].kind = d[r].kind
        /\ [d[r] EXCEPT !.calls = c, !.alone = FALSE].obj = d[r].obj
        /\ [d[r] EXCEPT !.calls = c, !.alone = FALSE].pending = d[r].pending
    BY <2>1 DEF Request
  <2>4. CASE req' = req
    BY <1>3, <2>4 DEF AllHaveOwners
  <2>5. CASE s \in socks /\ req' = [d EXCEPT ![r] = [d[r] EXCEPT !.calls = c, !.alone = FALSE]]
    <3>1. req' \in [Reqs -> Request]
      BY <1>4, <2>3, <2>5
    <3>2. ASSUME NEW q \in Reqs
          PROVE  /\ req'[q].sock = d[q].sock /\ req'[q].kind = d[q].kind /\ req'[q].obj = d[q].obj
                 /\ req'[q].pending = d[q].pending
      BY <1>4, <2>3, <2>5
    <3>3. \A q \in Reqs : HasOwner(req'[q], socks)
      BY <1>41, <2>5, <3>2, OwnedLess
    <3> QED
      BY <1>4, <3>1, <3>2, <3>3
  <2> QED
    BY <1>2, <2>2, <2>4, <2>5
<1> QED
  BY <1>1, <1>5, ClientEffects
(* The head of the queue runs. *)
LEMMA RunOneInv == ASSUME EngInv, RunOne PROVE EngInv'
<1> DEFINE h == Head(queue)
<1>1. /\ EngTypeOK /\ SlotOwned /\ AllHaveOwners /\ Served /\ CleanUp
      /\ thread = "run" /\ queue # <<>> /\ Execute(h)
      /\ thread' = thread /\ ctl' = ctl /\ work' = work /\ halted' = halted /\ runs' = runs
  BY DEF EngInv, RunOne, ctlVars
<1>2. queue \in Seq(Handlers) /\ h \in Handlers
  BY <1>1, HeadTailProperties DEF EngTypeOK
<1> HIDE DEF h
<1>3. h.op \in {"ask", "resolve", "receive", "timer", "told"} => h.of \in Reqs
  BY <1>2 DEF Handlers
<1>4. Effects(h.op = "clear", IF h.op \in Calls THEN {h.of} ELSE {})
  <2>1. CASE h.op \in {"create", "query", "close", "clear"}
    BY <1>1, <1>2, <2>1, SocketEffects DEF Execute, h
  <2>2. ASSUME Effects(FALSE, {}), h.op \notin {"create", "query", "clear"}
        PROVE  Effects(h.op = "clear", IF h.op \in Calls THEN {h.of} ELSE {})
    BY <2>2 DEF Effects, Calls
  <2>3. CASE h.op \in {"io", "cancel"}
    BY <1>1, <2>2, <2>3, CallEffects DEF Execute
  <2>4. CASE h.op \in {"ask", "resolve", "receive", "timer", "told"}
    BY <1>1, <1>3, <2>2, <2>4, AskEffects, CompletionEffects, ToldEffects DEF Execute
  <2> QED
    BY <1>1, <2>1, <2>3, <2>4 DEF Execute
<1>5. Popped /\ queue' \in Seq(Handlers)
  BY <1>2, <1>4, PoppedIs DEF Effects
<1>6. EngTypeOK'
  BY <1>1, <1>4, <1>5 DEF EngTypeOK, Effects
<1>7. Served'
  <2>1. CASE h.op \in Calls
    BY <1>1, <1>2, <1>4, <1>5, <2>1, ServedPopped DEF Effects, h
  <2>2. CASE h.op \notin Calls
    BY <1>1, <1>2, <1>4, <1>5, <2>2, ServedPopped DEF Effects, h
  <2> QED
    BY <2>1, <2>2
<1>8. CleanUp'
  <2>1. h = ClearEntry => h.op = "clear"
    BY DEF ClearEntry, Entry
  <2>2. h = ClearEntry => socks' = {}
    BY <1>4, <2>1 DEF Effects
  <2>3. (\A s \in socks : born[s] = runs) => \A s \in socks' : born'[s] = runs
    BY <1>4 DEF Effects
  <2> QED
    BY <1>1, <1>2, <1>5, <2>2, <2>3, CleanUpPopped DEF h
<1> QED
  BY <1>4, <1>6, <1>7, <1>8 DEF EngInv, Effects

(* A handler is posted by a thread of the application, or by the io_service. *)
LEMMA AddedInv ==
  ASSUME EngInv, NEW e, Added(e), UNCHANGED <<ctlVars, socks, born>>,
         req' \in [Reqs -> Request],
         \A r \in Reqs : req'[r].obj = "live" =>
            req[r].obj = "live" /\ req'[r].sock = req[r].sock /\ req'[r].kind = req[r].kind,
         \A r \in Reqs : HasOwner(req[r], socks) => HasOwner(req'[r], socks),
         \/ e.op \notin Calls /\ waits' = waits
         \/ e.op \in Calls /\ e.of \in Users \ waits /\ waits' = waits \cup {e.of}
  PROVE  EngInv'
<1>1. /\ EngTypeOK /\ SlotOwned /\ Served /\ CleanUp /\ queue \in Seq(Handlers)
      /\ UNCHANGED <<thread, ctl, work, halted, runs, socks, born>>
  BY DEF EngInv, ctlVars, EngTypeOK
<1>2. queue' \in Seq(Handlers)
  BY <1>1, AddedIs
<1>3. EngTypeOK'
  BY <1>1, <1>2 DEF EngTypeOK
<1>4. Served'
  BY <1>1, ServedAdded
<1>5. CleanUp'
  BY <1>1, CleanUpAdded
<1>6. SlotOwned' /\ AllHaveOwners'
  BY <1>1, SlotsKept DEF EngInv, AllHaveOwners
<1> QED
  BY <1>3, <1>4, <1>5, <1>6 DEF EngInv
-----------------------------------------------------------------------------
(* The engine starts without sockets, handlers and callers. *)
LEMMA EngInitInv == EngInit => EngInv
<1> SUFFICES ASSUME EngInit PROVE EngInv
  OBVIOUS
<1>1. EngTypeOK
  <2>1. <<>> \in Seq(Handlers)
    OBVIOUS
  <2>2. 0 \in 0..MaxRuns /\ 0 \in 0..MaxAgain
    BY EngineAssumption
  <2>3. [kind |-> "pub_addr", sock |-> NoSock, obj |-> "none", pending |-> {}, again |-> 0,
         calls |-> 0, alone |-> FALSE] \in Request
    BY <2>2 DEF Request, Kinds
  <2> QED
    BY <2>1, <2>2, <2>3 DEF EngInit, EngTypeOK
<1>2. Served
  BY DEF EngInit, Served
<1>3. CleanUp
  BY DEF EngInit, CleanUp
<1>4. SlotOwned
  BY DEF EngInit, SlotOwned
<1>5. AllHaveOwners
  BY DEF EngInit, AllHaveOwners, HasOwner
<1> QED
  BY <1>1, <1>2, <1>3, <1>4, <1>5 DEF EngInv

(* run(), stop() and the thread: only clear() touches the queue. *)
LEMMA ControlInv ==
  ASSUME EngInv, Run \/ Stop \/ StopIos \/ StopJoin \/ RunReturn
  PROVE  EngInv'
<1>1. UNCHANGED <<queue, waits, socks, born, req>>
  BY DEF Run, Stop, StopIos, StopJoin, RunReturn
<1>2. Served' /\ SlotOwned' /\ AllHaveOwners'
  BY <1>1 DEF EngInv, Served, SlotOwned, Slot, AllHaveOwners
<1>3. EngTypeOK /\ CleanUp
  BY DEF EngInv
<1>4. CASE Run
  <2>1. runs + 1 \in 0..MaxRuns
    BY <1>3, <1>4, EngineAssumption DEF Run, EngTypeOK
  <2>2. EngTypeOK'
    BY <1>1, <1>3, <1>4, <2>1 DEF Run, EngTypeOK
  <2>3. CleanUp'
    BY <1>1, <1>3, <1>4 DEF Run, CleanUp, ClearEntry, Entry
  <2> QED
    BY <1>1, <1>2, <2>2, <2>3 DEF EngInv
<1>5. CASE Stop \/ StopIos \/ StopJoin \/ RunReturn
  <2>1. EngTypeOK'
    BY <1>1, <1>3, <1>5 DEF Stop, StopIos, StopJoin, RunReturn, EngTypeOK
  <2>2. CleanUp'
    BY <1>1, <1>3, <1>5 DEF Stop, StopIos, StopJoin, RunReturn, CleanUp, ClearEntry, Entry
  <2> QED
    BY <1>1, <1>2, <2>1, <2>2 DEF EngInv
<1> QED
  BY <1>4, <1>5

(* The clear handler empties udt_engine_socket_set_ at the end of a run. *)
LEMMA ClearInv == ASSUME EngInv, Clear PROVE EngInv'
<1>1. /\ EngTypeOK /\ SlotOwned /\ Served /\ queue \in Seq(Handlers)
      /\ queue' = Append(queue, ClearEntry) /\ thread' = "done"
      /\ UNCHANGED <<ctl, work, halted, runs, waits, socks, born, req>>
  BY DEF EngInv, EngTypeOK, Clear, ClearEntry
<1>2. ClearEntry \in Handlers /\ ClearEntry.op \notin Calls
  BY DEF ClearEntry, Entry, Handlers, Calls
<1>3. Added(ClearEntry)
  BY <1>1, <1>2 DEF Added
<1>4. EngTypeOK'
  BY <1>1, <1>3, AddedIs DEF EngTypeOK
<1>5. Served'
  BY <1>1, <1>2, <1>3, ServedAdded
<1>6. CleanUp'
  <2>1. Len(queue) + 1 \in 1..Len(queue') /\ queue'[Len(queue) + 1] = ClearEntry
    BY <1>1, <1>3, AddedIs
  <2> QED
    BY <2>1 DEF CleanUp, ClearEntry, Entry
<1>7. SlotOwned' /\ AllHaveOwners'
  BY <1>1 DEF EngInv, SlotOwned, Slot, AllHaveOwners
<1> QED
  BY <1>4, <1>5, <1>6, <1>7 DEF EngInv

(* Posting a handler keeps the invariant. *)
LEMMA PostInv ==
  ASSUME EngInv,
         \/ \E u \in Users, op \in {"create", "query"} : Invoke(u, op)
         \/ \E s \in Sockets, op \in {"close", "io", "cancel"} : PostTo(s, op)
         \/ \E r \in Reqs, s \in Sockets, k \in Kinds : Ask(r, s, k)
  PROVE  EngInv'
<1>1. req \in [Reqs -> Request]
  BY DEF EngInv, EngTypeOK
<1>2. ASSUME NEW u \in Users, NEW op \in {"create", "query"}, Invoke(u, op) PROVE EngInv'
  <2> DEFINE e == Entry(op, u)
  <2>1. e \in Handlers /\ e.op \in Calls /\ e.of = u
    BY DEF Entry, Handlers, Calls
  <2>2. /\ queue' = Append(queue, e) /\ waits' = waits \cup {u} /\ u \notin waits
        /\ UNCHANGED <<ctlVars, socks, born, req>>
    BY <1>2 DEF Invoke, Post
  <2> HIDE DEF e
  <2> QED
    BY <1>1, <2>1, <2>2, AddedInv DEF Added
<1>3. ASSUME NEW s \in Sockets, NEW op \in {"close", "io", "cancel"}, PostTo(s, op) PROVE EngInv'
  <2> DEFINE e == Entry(op, s)
  <2>1. e \in Handlers /\ e.op \notin Calls
    BY DEF Entry, Handlers, Calls
  <2>2. /\ queue' = Append(queue, e)
        /\ waits' = waits /\ req' = req /\ UNCHANGED <<ctlVars, socks, born>>
    BY <1>3 DEF PostTo, Post
  <2> HIDE DEF e
  <2> QED
    BY <1>1, <2>1, <2>2, AddedInv DEF Added
<1>4. ASSUME NEW r \in Reqs, NEW s \in Sockets, NEW k \in Kinds, Ask(r, s, k) PROVE EngInv'
  <2> DEFINE e == Entry("ask", r)
             q == [req[r] EXCEPT !.kind = k, !.sock = s, !.obj = "posted"]
  <2>1. e \in Handlers /\ e.op \notin Calls
    BY DEF Entry, Handlers, Calls
  <2>2. /\ queue' = Append(queue, e) /\ req' = [req EXCEPT ![r] = q]
        /\ waits' = waits /\ UNCHANGED <<ctlVars, socks, born>>
    BY <1>4 DEF Ask, Post
  <2>3. q \in Request /\ q.obj = "posted" /\ q.pending = req[r].pending /\ req[r].obj = "none"
    BY <1>1, <1>4 DEF Request, Ask, Asked
  <2> HIDE DEF e, q
  <2>4. /\ req' \in [Reqs -> Request]
        /\ \A p \in Reqs : req'[p].obj = "live" => p # r /\ req'[p] = req[p]
    BY <1>1, <2>2, <2>3
  <2>5. ASSUME NEW p \in Reqs, HasOwner(req[p], socks) PROVE HasOwner(req'[p], socks)
    BY <1>1, <2>2, <2>3, <2>5 DEF HasOwner
  <2> QED
    BY <2>1, <2>2, <2>4, <2>5, AddedInv DEF Added
<1> QED
  BY <1>2, <1>3, <1>4

(* Completing an operation keeps the invariant. *)
LEMMA CompleteInv ==
  ASSUME EngInv, NEW r \in Reqs, NEW op \in Operations, Complete(r, op)
  PROVE  EngInv'
<1> DEFINE e == Entry(op, r)
           q == [req[r] EXCEPT !.pending = @ \ {op}]
<1>1. req \in [Reqs -> Request]
  BY DEF EngInv, EngTypeOK
<1>2. e \in Handlers /\ e.op \notin Calls
  BY DEF Entry, Handlers, Calls, Operations
<1>3. /\ queue' = Append(queue, e)
      /\ req' = [req EXCEPT ![r] = q] /\ waits' = waits /\ UNCHANGED <<ctlVars, socks, born>>
  BY <1>1 DEF Complete
<1>4. q \in Request /\ q.obj = req[r].obj /\ q.sock = req[r].sock /\ q.kind = req[r].kind
      /\ q.pending \subseteq req[r].pending
  BY <1>1 DEF Request
<1> HIDE DEF e, q
<1>5. /\ req' \in [Reqs -> Request]
      /\ \A p \in Reqs : /\ req'[p].obj = req[p].obj /\ req'[p].sock = req[p].sock
                         /\ req'[p].kind = req[p].kind
                         /\ req'[p].pending \subseteq req[p].pending
  BY <1>1, <1>3, <1>4
<1>6. \A p \in Reqs : HasOwner(req[p], socks) => HasOwner(req'[p], socks)
  BY <1>5, OwnedLess
<1> QED
  BY <1>2, <1>3, <1>5, <1>6, AddedInv DEF Added

(* Every step of the worker, the callers and the clients keeps the invariant. *)
LEMMA EngNextInv == EngInv /\ [EngNext]_engVars => EngInv'
<1> SUFFICES ASSUME EngInv, [EngNext]_engVars PROVE EngInv'
  OBVIOUS
<1>1. CASE UNCHANGED engVars
  BY <1>1 DEF engVars, EngInv, EngTypeOK, Served, CleanUp, SlotOwned, Slot, AllHaveOwners
<1> QED
  BY <1>1, ControlInv, ClearInv, RunOneInv, PostInv, CompleteInv DEF EngNext

(* The inductive invariant of the engine. *)
THEOREM EngInvariant == EngSpec => []EngInv
BY EngInitInv, EngNextInv, PTL DEF EngSpec

(* Every value of the engine's state is of the type its module gives. *)
THEOREM EngTyping == EngSpec => []EngTypeOK
<1>1. EngInv => EngTypeOK
  BY DEF EngInv
<1> QED
  BY EngInvariant, <1>1, PTL

(* A caller blocked in invoke_io_service always has one handler queued. *)
THEOREM WaiterServedAlways == EngSpec => []WaiterServed
<1>1. EngInv => WaiterServed
  <2> SUFFICES ASSUME EngInv, NEW u \in Users
               PROVE  /\ u \in waits => \E i \in DOMAIN queue : Invokes(u) = {i}
                      /\ u \notin waits => Invokes(u) = {}
    BY DEF WaiterServed
  <2>1. Served /\ DOMAIN queue = 1..Len(queue)
    BY DEF EngInv, EngTypeOK
  <2>2. Invokes(u) = {i \in 1..Len(queue) : queue[i].op \in Calls /\ queue[i].of = u}
    BY <2>1 DEF Invokes, Calls
  <2> QED
    BY <2>1, <2>2 DEF Served
<1> QED
  BY EngInvariant, <1>1, PTL

(* A client belongs to a socket that exists and is alone in its slot. *)
THEOREM SlotOwnedAlways == EngSpec => []SlotOwned
<1>1. EngInv => SlotOwned
  BY DEF EngInv
<1> QED
  BY EngInvariant, <1>1, PTL

(* An operation is pending only for a client and a socket that exist, but for the *)
(* receive that udp_pub_addr::close leaves on the socket.                         *)
THEOREM PendingOwnedAlways == EngSpec => []PendingOwned
<1>1. EngInv => PendingOwned
  BY DEF EngInv, AllHaveOwners, HasOwner, PendingOwned
<1> QED
  BY EngInvariant, <1>1, PTL

(* No run goes on with the sockets of an earlier one. *)
THEOREM RunIsCleanAlways == EngSpec => []RunIsClean
<1>1. EngInv => RunIsClean
  <2> SUFFICES ASSUME EngInv, thread = "run", ClearEntry \notin Queued
               PROVE  \A s \in socks : born[s] = runs
    BY DEF RunIsClean, ClearEntry
  <2>1. DOMAIN queue = 1..Len(queue) /\ CleanUp
    BY DEF EngInv, EngTypeOK
  <2> QED
    BY <2>1 DEF CleanUp, Queued
<1> QED
  BY EngInvariant, <1>1, PTL
-----------------------------------------------------------------------------
(* A thread that a call to get_instance has brought past the swap, and during    *)
(* whose call nobody has released, has seen the pointer filled.                  *)
Filled ==
  \A t \in Threads : at[t] \in {"discard", "return"} /\ quiet[t] => s_instance # NULL

(* Who holds an object, or is about to take it, has an address, which NULL is not. *)
HeldAreAddrs ==
  \A t \in Threads : t \in Holders \/ at[t] = "swap" => instance[t] \in Addrs

SglInv == SglTypeOK /\ Owned /\ HeldAreAddrs /\ Filled

(* s_instance starts as a null pointer. *)
LEMMA SglInitInv == SglInit => SglInv
BY SingletonAssumption
   DEF SglInit, SglInv, SglTypeOK, Owned, HeldAreAddrs, Filled, Holders, Places

(* Every step of get_instance and release_instance keeps what is owned. *)
LEMMA SglNextInv == SglInv /\ [SglNext]_sglVars => SglInv'
<1> SUFFICES ASSUME SglInv, [SglNext]_sglVars PROVE SglInv'
  OBVIOUS
<1> USE SingletonAssumption DEF SglInv
<1>1. ASSUME NEW t \in Threads, GetRead(t) PROVE SglInv'
  BY <1>1 DEF GetRead, Goto, SglTypeOK, Owned, HeldAreAddrs, Filled, Holders, Places
<1>2. ASSUME NEW t \in Threads, GetNew(t) PROVE SglInv'
  BY <1>2 DEF GetNew, Goto, SglTypeOK, Owned, HeldAreAddrs, Filled, Holders, Places
<1>3. ASSUME NEW t \in Threads, GetCas(t) PROVE SglInv'
  BY <1>3 DEF GetCas, Goto, SglTypeOK, Owned, HeldAreAddrs, Filled, Holders, Places
<1>4. ASSUME NEW t \in Threads, GetDiscard(t) PROVE SglInv'
  BY <1>4 DEF GetDiscard, Goto, SglTypeOK, Owned, HeldAreAddrs, Filled, Holders, Places
<1>5. ASSUME NEW t \in Threads, GetReturn(t) PROVE SglInv'
  BY <1>5 DEF GetReturn, Goto, SglTypeOK, Owned, HeldAreAddrs, Filled, Holders, Places
<1>6. ASSUME NEW t \in Threads, ReleaseRead(t) PROVE SglInv'
  BY <1>6 DEF ReleaseRead, Goto, SglTypeOK, Owned, HeldAreAddrs, Filled, Holders, Places
<1>7. ASSUME NEW t \in Threads, ReleaseCas(t) PROVE SglInv'
  <2>1. CASE s_instance # instance[t]
    BY <1>7, <2>1 DEF ReleaseCas, Goto, SglTypeOK, Owned, HeldAreAddrs, Filled, Holders, Places
  <2>2. CASE s_instance = instance[t]
    <3>1. /\ at[t] = "swap" /\ s_instance \in Addrs /\ s_instance' = NULL
          /\ Holders' = Holders \cup {t} /\ t \notin Holders
          /\ instance' = instance /\ alive' = alive
      BY <1>7, <2>2 DEF ReleaseCas, Goto, SglTypeOK, HeldAreAddrs, Holders, Places
    <3>2. (SglTypeOK /\ HeldAreAddrs /\ Filled)'
      BY <1>7, <2>2, <3>1 DEF ReleaseCas, Goto, SglTypeOK, HeldAreAddrs, Filled, Holders, Places
    <3>3. alive' = {instance'[o] : o \in Holders'} \cup ({s_instance'} \ {NULL})
      BY <2>2, <3>1 DEF Owned
    <3>4. /\ \A o \in Holders' : instance'[o] # s_instance'
          /\ \A o, q \in Holders' : instance'[o] = instance'[q] => o = q
      BY <2>2, <3>1, <3>2 DEF Owned, HeldAreAddrs, Holders
    <3> QED
      BY <3>2, <3>3, <3>4 DEF Owned
  <2> QED
    BY <2>1, <2>2
<1>8. ASSUME NEW t \in Threads, ReleaseDelete(t) PROVE SglInv'
  BY <1>8 DEF ReleaseDelete, Goto, SglTypeOK, Owned, HeldAreAddrs, Filled, Holders, Places
<1>9. CASE UNCHANGED sglVars
  BY <1>9 DEF sglVars, SglTypeOK, Owned, HeldAreAddrs, Filled, Holders
<1> QED
  BY <1>1, <1>2, <1>3, <1>4, <1>5, <1>6, <1>7, <1>8, <1>9 DEF SglNext

(* The inductive invariant of the swaps on s_instance. *)
THEOREM SglInvariant == SglSpec => []SglInv
<1>1. SglInit => SglInv
  BY SglInitInv
<1>2. SglInv /\ [SglNext]_sglVars => SglInv'
  BY SglNextInv
<1> QED
  BY <1>1, <1>2, PTL DEF SglSpec

(* Nothing is deleted twice, leaked, or deleted while it is published. *)
THEOREM OwnedAlways == SglSpec => []Owned
<1>1. SglInv => Owned
  BY DEF SglInv
<1> QED
  BY SglInvariant, <1>1, PTL

(* The second read of s_instance in get_instance finds an object that exists *)
(* unless a release came between.                                            *)
THEOREM GetIsLiveAlways == SglSpec => []GetIsLive
<1>1. SglInv => GetIsLive
  BY SingletonAssumption DEF SglInv, SglTypeOK, Owned, Filled, GetIsLive
<1> QED
  BY SglInvariant, <1>1, PTL
=============================================================================
