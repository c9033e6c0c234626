------------------------------- MODULE UdtRtt -------------------------------
(* The round trip estimate and the timers that depend on it (udt_sub.cpp,     *)
(* udt_timo.cpp, udt_cb.h): srtt and rttvar in fixed point, the backoff of    *)
(* the retransmit timer, and m_rxtshift, which retransmission and persistence *)
(* share.  The rest of the control block appears through what it may do next: *)
(* send, time a segment, have its data or its window acknowledged.            *)
EXTENDS Integers

CONSTANTS Samples,      \* values m_rtt may have when the timed segment is echoed
          MaxSamples    \* bound: measurements

TCP_RTT_SCALE == 8
TCP_RTTVAR_SCALE == 4
TCP_MAXRXTSHIFT == 12
TCPTV_MIN == 2
TCPTV_REXMTMAX == 32
TCPTV_PERSMIN == 10
TCPTV_PERSMAX == 120
SHRT_MAX == 32767

(* Round trips up to this many ticks, 51 s, stay within a short in all that     *)
(* follows; the code has no such limit.                                         *)
MaxTicks == 102

ASSUME RttAssumption == Samples \subseteq 1..MaxTicks /\ MaxSamples \in Nat

VARIABLES srtt, rttvar, rxtcur,
          rxtshift,     \* m_rxtshift
          timing,       \* m_rtt # 0: a segment is being timed
          rexmt,        \* m_timers[TCPT_REXMT] is running
          persist,      \* the interval that m_timers[TCPT_PERSIST] was set to, or 0
          dropped,      \* the connection was dropped
          samples,
          streak        \* ghost: timeouts since a measurement or a persist state

rttVars == <<srtt, rttvar, rxtcur, rxtshift, timing, rexmt, persist, dropped, samples, streak>>

(* Mutant: The table goes on doubling. *)
s_tcp_backoff_unlimited ==
  [i \in 0..TCP_MAXRXTSHIFT |->
     <<1, 2, 4, 8, 16, 32, 64, 128, 256, 512, 1024, 2048, 4096>>[i + 1]]

s_tcp_backoff ==
  [i \in 0..TCP_MAXRXTSHIFT |-> <<1, 2, 4, 8, 16, 32, 64, 64, 64, 64, 64, 64, 64>>[i + 1]]

Short(x) == ((x + SHRT_MAX + 1) % (2 * (SHRT_MAX + 1))) - (SHRT_MAX + 1)

TCPT_RANGESET(value, tvmin, tvmax) ==
  IF value < tvmin THEN tvmin ELSE IF value > tvmax THEN tvmax ELSE value

(* TCP_REXMTVAL() *)
RexmtVal(mean, var) == Short(mean \div TCP_RTT_SCALE + var)

(* rexmt_timer_value() *)
RexmtTimerValue(mean, var, n) ==
  TCPT_RANGESET(Short(RexmtVal(mean, var) * s_tcp_backoff[n]), TCPTV_MIN, TCPTV_REXMTMAX)

(* enter_persist() *)
PersistValue(n) ==
  TCPT_RANGESET(Short(((srtt \div 4 + rttvar) \div 2) * s_tcp_backoff[n]),
                TCPTV_PERSMIN, TCPTV_PERSMAX)

RttInit ==
  /\ srtt = 0 /\ rttvar = 12 /\ rxtcur = 6 /\ rxtshift = 0
  /\ timing = FALSE /\ rexmt = FALSE /\ persist = 0 /\ dropped = FALSE
  /\ samples = 0 /\ streak = 0

-----------------------------------------------------------------------------
(* xmit_timer(): the new mean and variance. *)
AtLeastOne(x) == IF x <= 0 THEN 1 ELSE x
Abs(x) == IF x < 0 THEN -x ELSE x

Delta(rtt) == Short(rtt - 1 - srtt \div TCP_RTT_SCALE)

NewSrtt(rtt) ==
  IF srtt # 0 THEN AtLeastOne(Short(srtt + Delta(rtt))) ELSE Short(rtt * TCP_RTT_SCALE)

NewRttvar(rtt) ==
  IF srtt # 0
  THEN AtLeastOne(Short(rttvar + Short(Abs(Delta(rtt)) - rttvar \div TCP_RTTVAR_SCALE)))
  ELSE Short(rtt * (TCP_RTTVAR_SCALE \div 2))

Unmeasured == UNCHANGED <<srtt, rttvar, rxtcur, samples>>

Measured(rtt) ==
  /\ samples < MaxSamples
  /\ samples' = samples + 1
  /\ srtt' = NewSrtt(rtt) /\ rttvar' = NewRttvar(rtt)
  /\ rxtcur' = RexmtTimerValue(NewSrtt(rtt), NewRttvar(rtt), 0)

(* Mutant: The persist state is left with the shift it has reached. *)
LeavePersistShift(n) == n

(* leave_persist(): the shift when data goes out. *)
LeaveShift(n) == IF persist # 0 THEN 0 ELSE n

(* output(), which ends most handlers: t, n, k and r are what the handler has made *)
(* of timing, rxtshift, streak and rexmt before.                                   *)
RttSends(t, n, k) ==
  /\ \E new \in BOOLEAN : timing' = (t \/ new)
  /\ rexmt' = TRUE /\ persist' = 0
  /\ rxtshift' = LeaveShift(n) /\ streak' = k

RttPersists(t) ==
  /\ persist = 0
  /\ timing' = t /\ rexmt' = FALSE
  /\ persist' = PersistValue(0)
  /\ rxtshift' = 1 /\ streak' = 0

RttNothing(t, n, k, r) ==
  /\ timing' = t /\ rxtshift' = n /\ streak' = k /\ UNCHANGED persist
  /\ rexmt' \in {r, FALSE}

RttOutput(t, n, k, r) ==
  RttSends(t, n, k) \/ RttPersists(t) \/ RttNothing(t, n, k, r)

(* A call of the application. *)
RttSend ==
  /\ ~dropped
  /\ RttOutput(timing, rxtshift, streak, rexmt)
  /\ Unmeasured /\ UNCHANGED dropped

(* input(): update_rtt, reset_rexmt_timer and output *)
RttInput ==
  /\ ~dropped
  /\ \E outstanding \in BOOLEAN :
       LET r == outstanding /\ persist = 0
       IN \/ /\ Unmeasured
             /\ RttOutput(timing, rxtshift, streak, r)
          \/ /\ timing
             /\ \E rtt \in Samples : Measured(rtt)
             /\ RttOutput(FALSE, 0, 0, r)
  /\ UNCHANGED dropped

(* do_fast_rexmt() *)
RttFastRexmt ==
  /\ ~dropped /\ rexmt
  /\ RttOutput(FALSE, rxtshift, streak, FALSE)
  /\ Unmeasured /\ UNCHANGED dropped

(* Mutant: The mean stays when it has been added to the variance. *)
ClobberKeeping(n) ==
  IF n > TCP_MAXRXTSHIFT \div 4
  THEN rttvar' = Short(rttvar + srtt \div TCP_RTT_SCALE) /\ UNCHANGED srtt
  ELSE UNCHANGED <<srtt, rttvar>>

Clobber(n) ==
  IF n > TCP_MAXRXTSHIFT \div 4
  THEN rttvar' = Short(rttvar + srtt \div TCP_RTT_SCALE) /\ srtt' = 0
  ELSE UNCHANGED <<srtt, rttvar>>

(* handle_slow_timo: TCPT_REXMT *)
RttTimeout ==
  /\ ~dropped /\ rexmt
  /\ \/ /\ rxtshift < TCP_MAXRXTSHIFT
        /\ rxtcur' = RexmtTimerValue(srtt, rttvar, rxtshift + 1)
        /\ Clobber(rxtshift + 1)
        /\ UNCHANGED <<samples, dropped>>
        /\ RttOutput(FALSE, rxtshift + 1, streak + 1, TRUE)
     \/ /\ rxtshift = TCP_MAXRXTSHIFT
        /\ dropped' = TRUE /\ streak' = streak + 1
        /\ rexmt' = FALSE
        /\ Unmeasured /\ UNCHANGED <<rxtshift, timing, persist>>

(* handle_slow_timo: TCPT_PERSIST; the forced segment arms no other timer. *)
RttPersist ==
  /\ ~dropped /\ persist # 0
  /\ persist' = PersistValue(rxtshift)
  /\ rxtshift' = IF rxtshift < TCP_MAXRXTSHIFT THEN rxtshift + 1 ELSE rxtshift
  /\ Unmeasured /\ UNCHANGED <<timing, rexmt, dropped, streak>>

RttNext == RttSend \/ RttInput \/ RttFastRexmt \/ RttTimeout \/ RttPersist

RttSpec == RttInit /\ [][RttNext]_rttVars
-----------------------------------------------------------------------------
(* Whatever is measured and however often the estimate was clobbered, no product  *)
(* of the timer calculation leaves the range of a short: a wrapped one would give *)
(* the shortest timeout after the longest wait.                                   *)
RttFits ==
  /\ srtt \in 0..8 * MaxTicks /\ rttvar \in 0..5 * MaxTicks
  /\ (srtt \div 8 + rttvar) * 64 <= SHRT_MAX

(* A retransmission timeout that follows another one, with nothing measured and no *)
(* persist state between, never waits less than the one before, the clobbering of  *)
(* the estimate at the fourth (udt_timo.cpp:76) included.                          *)
BackoffMonotone == [][streak > 0 /\ streak' > streak => rxtcur' >= rxtcur]_rttVars

(* A connection is dropped only after all its timeouts: what the persist timer has *)
(* counted in the shared m_rxtshift shortens no later series.                      *)
Patience == dropped => streak > TCP_MAXRXTSHIFT
=============================================================================
