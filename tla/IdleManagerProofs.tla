-------------------------- MODULE IdleManagerProofs --------------------------
(***************************************************************************)
(* That the workspace is stopped only for the reason that is given, for    *)
(* all timeouts and retry periods.  The inductive invariant is TimersInv   *)
(* with the types: a timer set to the retry period after a failed stop is  *)
(* shorter than the timeout, and harmless only because the timeout has     *)
(* been exceeded by then and every tick received sets the timer again.     *)
(***************************************************************************)
EXTENDS IdleManager, TLAPS

IInv == TypeOK /\ TimersInv

\* The constants of the two managers.
LEMMA TimeoutType == \A m \in Managers : Timeout(m) \in Nat
  BY TimeoutAssumption DEF Timeout, Managers

\* Every step keeps the types.
LEMMA TypeNext == TypeOK /\ [Next]_vars => TypeOK'
<1> SUFFICES ASSUME TypeOK, [Next]_vars PROVE TypeOK'
  OBVIOUS
<1> USE TimeoutAssumption
<1>1. CASE Pass
  BY <1>1 DEF Pass, TypeOK, CountUp, CountDown
<1>2. CASE Tick
  BY <1>2 DEF Tick, TypeOK, PC
<1>3. CASE Rearm
  BY <1>3 DEF Rearm, TypeOK, PC
<1>4. CASE Sigterm
  BY <1>4 DEF Sigterm, TypeOK
<1>5. ASSUME NEW m \in Managers,
             Select(m) \/ TimerFires(m) \/ StopSucceeds(m) \/ StopFails(m) \/ Shutdown(m)
      PROVE  TypeOK'
  BY <1>5 DEF Select, TimerFires, StopSucceeds, StopFails, Shutdown, Patch, TypeOK, PC
<1>6. CASE UNCHANGED vars
  BY <1>6 DEF vars, TypeOK
<1>7. QED
  BY <1>1, <1>2, <1>3, <1>4, <1>5, <1>6 DEF Next

\* Every step keeps the timers long enough.
LEMMA TimersNext == IInv /\ [Next]_vars => TimersInv'
<1> SUFFICES ASSUME TypeOK, TimersInv, [Next]_vars PROVE TimersInv'
  BY DEF IInv
<1> USE TimeoutAssumption
<1>m. Inactivity \in Managers /\ RunIdle \in Managers /\ Inactivity # RunIdle
  BY DEF Managers, Inactivity, RunIdle
<1>1. CASE Pass
  BY <1>1, <1>m DEF Pass, TypeOK, TimersInv, CountUp, CountDown
<1>2. CASE Tick
  BY <1>2, <1>m DEF Tick, TypeOK, TimersInv
<1>3. CASE Rearm
  BY <1>3, <1>m DEF Rearm, TypeOK, TimersInv
<1>4. CASE Sigterm
  BY <1>4 DEF Sigterm, TimersInv
<1>5. ASSUME NEW m \in Managers, Select(m) \/ StopSucceeds(m) \/ Shutdown(m)
      PROVE  TimersInv'
  BY <1>5, <1>m DEF Select, StopSucceeds, Shutdown, TypeOK, TimersInv
<1>6. ASSUME NEW m \in Managers, TimerFires(m)
      PROVE  TimersInv'
  BY <1>6, <1>m DEF TimerFires, TypeOK, TimersInv
<1>7. ASSUME NEW m \in Managers, StopFails(m)
      PROVE  TimersInv'
  BY <1>7, <1>m DEF StopFails, TypeOK, TimersInv
<1>8. CASE UNCHANGED vars
  BY <1>8 DEF vars, TimersInv
<1>9. QED
  BY <1>1, <1>2, <1>3, <1>4, <1>5, <1>6, <1>7, <1>8 DEF Next

\* The inductive invariant holds in every reachable state.
LEMMA InvariantHolds == Spec => []IInv
<1>1. Init => IInv
  <2> SUFFICES ASSUME Init PROVE IInv
    OBVIOUS
  <2>1. TypeOK
    <3>1. \A m \in Managers : (IF Timeout(m) = 0 THEN "off" ELSE "looping") \in PC
      BY DEF PC
    <3>2. pc \in [Managers -> PC]
      BY <3>1 DEF Init
    <3>3. left \in [Managers -> Nat]
      BY TimeoutType DEF Init
    <3>4. started \in BOOLEAN /\ sigterm \in BOOLEAN /\ stoppedBy \in Managers \cup {"none"}
      BY Zenon DEF Init
    <3>5. quiet \in 0 .. IdleTimeout /\ silent \in 0 .. IdleTimeout /\ age \in 0 .. RunTimeout
      <4>1. quiet = 0 /\ silent = 0 /\ age = 0
        BY DEF Init
      <4>2. QED
        BY <4>1, TimeoutAssumption
    <3>6. QED
      BY <3>2, <3>3, <3>4, <3>5 DEF TypeOK
  <2>2. /\ Inactivity \in Managers /\ Timeout(Inactivity) = IdleTimeout
        /\ RunIdle \in Managers /\ Timeout(RunIdle) = RunTimeout
    BY DEF Managers, Timeout, Inactivity, RunIdle
  <2>3. TimersInv
    BY <2>2, TimeoutAssumption DEF Init, TimersInv
  <2>4. QED
    BY <2>1, <2>3 DEF IInv
<1>2. IInv /\ [Next]_vars => IInv'
  BY TypeNext, TimersNext DEF IInv
<1>3. QED
  BY <1>1, <1>2, PTL DEF Spec

\* The variables of both managers keep their types, also across retries.
THEOREM TypeCorrect == Spec => []TypeOK
  BY InvariantHolds, PTL DEF IInv

\* No timer runs out early, whatever ticks, failed stops and signals come between.
THEOREM TimersAreLongEnough == Spec => []TimersInv
  BY InvariantHolds, PTL DEF IInv

\* A workspace is stopped for inactivity only when no tick was received for the
\* whole idle timeout, and for its run time only when that is over.
THEOREM StopsOnlyForItsReason == Spec => StoppedForItsReason
<1>1. IInv /\ [Next]_vars =>
        [stoppedBy' # stoppedBy =>
            \/ stoppedBy' = Inactivity /\ quiet = IdleTimeout
            \/ stoppedBy' = RunIdle /\ age = RunTimeout]_vars
  <2> SUFFICES ASSUME IInv, Next, stoppedBy' # stoppedBy
               PROVE  \/ stoppedBy' = Inactivity /\ quiet = IdleTimeout
                      \/ stoppedBy' = RunIdle /\ age = RunTimeout
    OBVIOUS
  <2>1. PICK m \in Managers : pc[m] = "stopping" /\ stoppedBy' = m
    BY DEF Next, Pass, Tick, Rearm, Sigterm, Select, TimerFires, StopSucceeds,
           StopFails, Shutdown, Patch
  <2>2. QED
    BY <2>1 DEF IInv, TimersInv, Managers
<1>2. QED
  BY <1>1, InvariantHolds, PTL DEF Spec, StoppedForItsReason
=============================================================================
