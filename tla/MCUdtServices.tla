---------------------------- MODULE MCUdtServices ----------------------------
(* What surrounds the control block, one part at a time: part says which one a *)
(* behaviour is about, and the rest keeps its initial state.                   *)
EXTENDS UdtEngine, Singleton, UdpHolePunch, UdpChkNat, UdtMtu, UdtRtt

VARIABLE part

vars == <<engVars, sglVars, punchVars, natVars, mtuVars, rttVars, part>>

(* Every part has one initial state when it is not the one the behaviour is about. *)
Others(p) ==
  /\ p # "punch" => usable = {}
  /\ p # "nat" => nat = "wan" /\ other_ip = "n1"    \* and other_ep = FirstEp
  /\ p # "mtu" => /\ hop1 = CHOOSE h \in Hops : TRUE
                  /\ hop2 = hop1 /\ hinting = TRUE
                  /\ limit = CHOOSE l \in Limits : TRUE

MCInit ==
  /\ part \in {"engine", "singleton", "punch", "nat", "mtu", "rtt"}
  /\ EngInit /\ SglInit /\ PunchInit /\ NatInit /\ MtuInit /\ RttInit
  /\ Others(part)

MCNext ==
  \/ /\ part = "engine" /\ EngNext
     /\ UNCHANGED <<sglVars, punchVars, natVars, mtuVars, rttVars, part>>
  \/ /\ part = "singleton" /\ SglNext
     /\ UNCHANGED <<engVars, punchVars, natVars, mtuVars, rttVars, part>>
  \/ /\ part = "punch" /\ PunchNext
     /\ UNCHANGED <<engVars, sglVars, natVars, mtuVars, rttVars, part>>
  \/ /\ part = "nat" /\ NatNext
     /\ UNCHANGED <<engVars, sglVars, punchVars, mtuVars, rttVars, part>>
  \/ /\ part = "mtu" /\ MtuNext
     /\ UNCHANGED <<engVars, sglVars, punchVars, natVars, rttVars, part>>
  \/ /\ part = "rtt" /\ RttNext
     /\ UNCHANGED <<engVars, sglVars, punchVars, natVars, mtuVars, part>>

(* The fairness of each module.  No action it names is enabled in a part's      *)
(* initial state, so a part that rests meets it.                                *)
MCSpec ==
  /\ MCInit /\ [][MCNext]_vars
  /\ EngFairness /\ PunchFairness /\ NatFairness /\ MtuFairness
=============================================================================
