------------------------------- MODULE OneShot -------------------------------
(* What a caller of an asynchronous one-shot operation is promised: for every *)
(* call its handler runs once.  udp_chknat and udt_mtu are shown to keep this *)
(* promise.                                                                   *)
EXTENDS Naturals

VARIABLES asks,         \* calls so far
          calls         \* handlers run so far

oneVars == <<asks, calls>>

OneInit == asks = 0 /\ calls = 0

Ask == asks = calls /\ asks' = asks + 1 /\ UNCHANGED calls

Answer == calls < asks /\ calls' = calls + 1 /\ UNCHANGED asks

OneSpec == OneInit /\ [][Ask \/ Answer]_oneVars /\ WF_oneVars(Answer)
=============================================================================
