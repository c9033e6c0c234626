------------------------------ MODULE MCUdtConn ------------------------------
(***************************************************************************)
(* UdtConn for TLC: packets of one byte, or up to two in the run transfer, *)
(* and either the whole life of a connection from Init or its life from an *)
(* established connection on.                                              *)
(***************************************************************************)
EXTENDS UdtConn

Plan(a, b) == [e \in Ends |-> IF e = "a" THEN a ELSE b]
NoSends == Plan(<< >>, << >>)
OneByte == Plan(<<1>>, << >>)
OneEach == Plan(<<1>>, <<1>>)
TwoBytes == Plan(<<2>>, << >>)
ThreeBytes == Plan(<<3>>, << >>)
Shorts == Plan(<<3, 2>>, << >>)

\* The three datagrams of the handshake, none of them lost: end a connects,
\* end b accepts.  What end b answers to the third may still be on its way.
Calm(inp) == [junk |-> 0, loss |-> FALSE, idle |-> FALSE, force |-> FALSE, inp |-> inp]
Quiet(c) == [c EXCEPT !.out = << >>]
Connecting == Connect(CbInit, Calm(FALSE))
Accepting == Input(Accept(CbInit), Connecting.out[1], Calm(TRUE))
Connected == Input(Quiet(Connecting), Accepting.out[1], Calm(TRUE))
Accepted == Input(Quiet(Accepting), Connected.out[1], Calm(TRUE))

From(a, b, toA, toB) ==
  /\ ep = [e \in Ends |-> Quiet(IF e = "a" THEN a ELSE b)]
  /\ net = [e \in Ends |-> Range(IF e = "a" THEN toA ELSE toB)]
  /\ app = [e \in Ends |-> [sent |-> 0, closed |-> FALSE]]
  /\ faults = [lost |-> 0, dup |-> 0, early |-> 0]

FairSpec == Spec /\ Fairness

\* Both ends are established.
EstInit == From(Connected, Accepted, Accepted.out, << >>)
EstSpec == EstInit /\ [][Next]_vars
FairEstSpec == EstSpec /\ Fairness
=============================================================================
