------------------------------ MODULE Singleton ------------------------------
(* singleton<T> of singleton.h: one shared pointer, s_instance, that several  *)
(* threads fill and empty with a compare-and-swap (capture, try, discard).    *)
(* The allocator may hand out an address again as soon as it is free, so a    *)
(* pointer read before the swap may name another object by then (ABA).        *)
EXTENDS Naturals, FiniteSets

CONSTANTS Threads,      \* threads that call get_instance and release_instance
          Addrs,        \* addresses the allocator can return
          NULL

ASSUME SingletonAssumption == NULL \notin Addrs

VARIABLES s_instance,   \* the shared pointer
          alive,        \* addresses of objects that exist
          at,           \* where each thread stands in its call
          instance,     \* the local variable of the call
          quiet         \* ghost: no release has taken the pointer during the call

sglVars == <<s_instance, alive, at, instance, quiet>>

Places == {"idle", "new", "cas", "discard", "return", "swap", "delete"}

SglTypeOK ==
  /\ s_instance \in Addrs \cup {NULL}
  /\ alive \subseteq Addrs
  /\ at \in [Threads -> Places]
  /\ instance \in [Threads -> Addrs \cup {NULL}]
  /\ quiet \in [Threads -> BOOLEAN]

SglInit ==
  /\ s_instance = NULL
  /\ alive = {}
  /\ at = [t \in Threads |-> "idle"]
  /\ instance = [t \in Threads |-> NULL]
  /\ quiet = [t \in Threads |-> TRUE]

Goto(t, place) == at' = [at EXCEPT ![t] = place]

(* get_instance() *)
GetRead(t) ==
  /\ at[t] = "idle"
  /\ Goto(t, IF s_instance = NULL THEN "new" ELSE "return")
  /\ instance' = [instance EXCEPT ![t] = s_instance]
  /\ quiet' = [quiet EXCEPT ![t] = TRUE]
  /\ UNCHANGED <<s_instance, alive>>

GetNew(t) ==
  /\ at[t] = "new"
  /\ \E a \in Addrs \ alive :
       /\ alive' = alive \cup {a}
       /\ instance' = [instance EXCEPT ![t] = a]
  /\ Goto(t, "cas")
  /\ UNCHANGED <<s_instance, quiet>>

GetCas(t) ==
  /\ at[t] = "cas"
  /\ \/ /\ s_instance = NULL
        /\ s_instance' = instance[t]
        /\ Goto(t, "return")
     \/ /\ s_instance # NULL
        /\ Goto(t, "discard")
        /\ UNCHANGED s_instance
  /\ UNCHANGED <<alive, instance, quiet>>

(* Mutant: The loser of the race deletes the published object instead of its own. *)
GetDiscardPublished(t) ==
  /\ at[t] = "discard"
  /\ alive' = alive \ {s_instance}
  /\ Goto(t, "return")
  /\ UNCHANGED <<s_instance, instance, quiet>>

GetDiscard(t) ==
  /\ at[t] = "discard"
  /\ alive' = alive \ {instance[t]}
  /\ Goto(t, "return")
  /\ UNCHANGED <<s_instance, instance, quiet>>

(* s_instance is read again for the result *)
GetReturn(t) ==
  /\ at[t] = "return"
  /\ Goto(t, "idle")
  /\ UNCHANGED <<s_instance, alive, instance, quiet>>

(* release_instance() *)
ReleaseRead(t) ==
  /\ at[t] = "idle"
  /\ s_instance # NULL
  /\ Goto(t, "swap")
  /\ instance' = [instance EXCEPT ![t] = s_instance]
  /\ UNCHANGED <<s_instance, alive, quiet>>

(* Mutant: The swap of release_instance without its comparand. *)
ReleaseCasBlind(t) ==
  /\ at[t] = "swap"
  /\ s_instance' = NULL
  /\ quiet' = [o \in Threads |-> FALSE]
  /\ Goto(t, "delete")
  /\ UNCHANGED <<alive, instance>>

ReleaseCas(t) ==
  /\ at[t] = "swap"
  /\ \/ /\ s_instance = instance[t]
        /\ s_instance' = NULL
        /\ quiet' = [o \in Threads |-> FALSE]
        /\ Goto(t, "delete")
     \/ /\ s_instance # instance[t]
        /\ Goto(t, "idle")
        /\ UNCHANGED <<s_instance, quiet>>
  /\ UNCHANGED <<alive, instance>>

ReleaseDelete(t) ==
  /\ at[t] = "delete"
  /\ alive' = alive \ {instance[t]}
  /\ Goto(t, "idle")
  /\ UNCHANGED <<s_instance, instance, quiet>>

SglNext ==
  \E t \in Threads :
    \/ GetRead(t) \/ GetNew(t) \/ GetCas(t) \/ GetDiscard(t) \/ GetReturn(t)
    \/ ReleaseRead(t) \/ ReleaseCas(t) \/ ReleaseDelete(t)

SglSpec == SglInit /\ [][SglNext]_sglVars

-----------------------------------------------------------------------------
(* Threads that hold an object nobody else may use or delete. *)
Holders == {t \in Threads : at[t] \in {"cas", "discard", "delete"}}

(* Every object that exists has exactly one owner, the shared pointer or one  *)
(* thread, and every owner's object exists: nothing is deleted twice, nothing *)
(* published is deleted, nothing leaks, although addresses are used again     *)
(* between the capture and the swap of singleton.h:35-40.                     *)
Owned ==
  /\ alive = {instance[t] : t \in Holders} \cup ({s_instance} \ {NULL})
  /\ \A t \in Holders : instance[t] # s_instance
  /\ \A t, o \in Holders : instance[t] = instance[o] => t = o

(* A call of get_instance that no successful release_instance overlaps returns *)
(* an object that exists; its second read of s_instance (singleton.h:28) is    *)
(* safe only then.                                                             *)
GetIsLive ==
  \A t \in Threads : at[t] = "return" /\ quiet[t] => s_instance \in alive
=============================================================================
