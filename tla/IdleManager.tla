------------------------------ MODULE IdleManager ------------------------------
(***************************************************************************)
(* The two idle managers of the process (package timeout): one stops the   *)
(* DevWorkspace when no activity is reported for IdleTimeout, the other    *)
(* when the process has run for RunTimeout.  Each is one goroutine in a    *)
(* select over its timer and the SIGTERM channel; the first also receives  *)
(* ticks, which HTTP handlers and the CLI watcher offer without waiting.   *)
(* Both stop the workspace by a patch sent to the Kubernetes API, during   *)
(* which they are not in the select, and retry after RetryPeriod when it   *)
(* fails.                                                                  *)
(*                                                                         *)
(* Time is discrete and relative: left[m] is what remains on m's timer,    *)
(* and the ages quiet, silent and age stop counting at the timeout they    *)
(* are compared with, so that the state stays finite and time does not.    *)
(***************************************************************************)
EXTENDS Integers

CONSTANTS
    IdleTimeout,   \* idleTimeout; 0 stands for every value <= 0: the no-op manager
    RunTimeout,    \* runTimeout, the same
    RetryPeriod    \* stopRetryPeriod

\* Both constructors refuse a retry period <= 0, and main exits.
ASSUME TimeoutAssumption ==
    /\ IdleTimeout \in Nat
    /\ RunTimeout \in Nat
    /\ RetryPeriod \in Nat \ {0}

\* The managers, named by the reason each puts in the stopped-by annotation.
Inactivity == "inactivity"
RunIdle    == "run-timeout"
Managers   == {Inactivity, RunIdle}

Timeout(m) == IF m = Inactivity THEN IdleTimeout ELSE RunTimeout

VARIABLES
    pc,         \* where each manager's goroutine is
    left,       \* what remains until each timer fires
    started,    \* spec.started of the DevWorkspace
    stoppedBy,  \* its annotation controller.devfile.io/stopped-by, or "none"
    sigterm,    \* the process has received SIGTERM
    quiet,      \* time since the last tick the manager received, or since Start
    silent,     \* time since the last tick anybody offered, or since Start
    age         \* time since Start

vars == <<pc, left, started, stoppedBy, sigterm, quiet, silent, age>>

PC == {"off", "looping", "parked", "rearming", "stopping", "returned"}

\* NewInactivityIdleManager, NewRunIdleManager and their Start.
Init ==
    /\ pc = [m \in Managers |-> IF Timeout(m) = 0 THEN "off" ELSE "looping"]
    /\ left = [m \in Managers |-> Timeout(m)]
    /\ started = TRUE
    /\ stoppedBy = "none"
    /\ sigterm = FALSE
    /\ quiet = 0
    /\ silent = 0
    /\ age = 0

-----------------------------------------------------------------------------
CountUp(n, cap) == IF n < cap THEN n + 1 ELSE n
CountDown(n)    == IF n > 0 THEN n - 1 ELSE n

\* A unit of time goes by; it may do so between any two steps of the goroutines.
Pass ==
    /\ left' = [m \in Managers |-> CountDown(left[m])]
    /\ quiet' = CountUp(quiet, IdleTimeout)
    /\ silent' = CountUp(silent, IdleTimeout)
    /\ age' = CountUp(age, RunTimeout)
    /\ UNCHANGED <<pc, started, stoppedBy, sigterm>>

\* Tick: the send succeeds if the goroutine is parked in its select, and the
\* tick is dropped if it is anywhere else.
Tick ==
    /\ pc[Inactivity] # "off"
    /\ silent' = 0
    /\ IF pc[Inactivity] = "parked"
         THEN pc' = [pc EXCEPT ![Inactivity] = "rearming"] /\ quiet' = 0
         ELSE UNCHANGED <<pc, quiet>>
    /\ UNCHANGED <<left, started, stoppedBy, sigterm, age>>

\* Mutant: a tick sets the timer to the retry period.
RearmToRetry ==
    /\ pc[Inactivity] = "rearming"
    /\ pc' = [pc EXCEPT ![Inactivity] = "looping"]
    /\ left' = [left EXCEPT ![Inactivity] = RetryPeriod]
    /\ UNCHANGED <<started, stoppedBy, sigterm, quiet, silent, age>>

\* Mutant: a tick postpones both managers.
RearmBoth ==
    /\ pc[Inactivity] = "rearming"
    /\ pc' = [pc EXCEPT ![Inactivity] = "looping"]
    /\ left' = [m \in Managers |-> Timeout(m)]
    /\ UNCHANGED <<started, stoppedBy, sigterm, quiet, silent, age>>

\* The activityC case: the timer is stopped and set to the full timeout.  (From
\* Go 1.23 on, Stop leaves no value behind, so the drain never blocks.)
Rearm ==
    /\ pc[Inactivity] = "rearming"
    /\ pc' = [pc EXCEPT ![Inactivity] = "looping"]
    /\ left' = [left EXCEPT ![Inactivity] = IdleTimeout]
    /\ UNCHANGED <<started, stoppedBy, sigterm, quiet, silent, age>>

\* The goroutine comes round the loop and enters its select.
Select(m) ==
    /\ pc[m] = "looping"
    /\ pc' = [pc EXCEPT ![m] = "parked"]
    /\ UNCHANGED <<left, started, stoppedBy, sigterm, quiet, silent, age>>

\* The timer.C case: the timer has run out and stopWorkspace is called.
TimerFires(m) ==
    /\ pc[m] = "parked"
    /\ left[m] = 0
    /\ pc' = [pc EXCEPT ![m] = "stopping"]
    /\ UNCHANGED <<left, started, stoppedBy, sigterm, quiet, silent, age>>

\* Mutant: both managers give the same reason.
PatchSameReason(m) == started' = FALSE /\ stoppedBy' = Inactivity

\* The patch is applied: the workspace is asked to stop, for reason m.
Patch(m) == started' = FALSE /\ stoppedBy' = m

\* stopWorkspace returns nil and the goroutine ends.
StopSucceeds(m) ==
    /\ pc[m] = "stopping"
    /\ Patch(m)
    /\ pc' = [pc EXCEPT ![m] = "returned"]
    /\ UNCHANGED <<left, sigterm, quiet, silent, age>>

\* Mutant: the goroutine ends on an error too.
StopFailsForGood(m) ==
    /\ pc[m] = "stopping"
    /\ Patch(m) \/ UNCHANGED <<started, stoppedBy>>
    /\ pc' = [pc EXCEPT ![m] = "returned"]
    /\ UNCHANGED <<left, sigterm, quiet, silent, age>>

\* Mutant: the time already waited is taken off the retry period.
StopFailsCountsBack(m) ==
    /\ pc[m] = "stopping"
    /\ Patch(m) \/ UNCHANGED <<started, stoppedBy>>
    /\ pc' = [pc EXCEPT ![m] = "looping"]
    /\ left' = [left EXCEPT ![m] = RetryPeriod - quiet]
    /\ UNCHANGED <<sigterm, quiet, silent, age>>

\* It returns an error, whether the patch was rejected or applied and only the
\* answer lost: the manager tries again after the retry period.
StopFails(m) ==
    /\ pc[m] = "stopping"
    /\ Patch(m) \/ UNCHANGED <<started, stoppedBy>>
    /\ pc' = [pc EXCEPT ![m] = "looping"]
    /\ left' = [left EXCEPT ![m] = RetryPeriod]
    /\ UNCHANGED <<sigterm, quiet, silent, age>>

\* Kubernetes terminates the pod, because the workspace was stopped or for a
\* reason of its own.
Sigterm ==
    /\ ~sigterm
    /\ sigterm' = TRUE
    /\ UNCHANGED <<pc, left, started, stoppedBy, quiet, silent, age>>

\* Mutant: the two managers share one channel, so one signal ends one of them.
ShutdownShared(m) ==
    /\ pc[m] = "parked"
    /\ sigterm
    /\ sigterm' = FALSE
    /\ pc' = [pc EXCEPT ![m] = "returned"]
    /\ UNCHANGED <<left, started, stoppedBy, quiet, silent, age>>

\* The shutdownChan case.  When the timer has run out too, select takes either.
Shutdown(m) ==
    /\ pc[m] = "parked"
    /\ sigterm
    /\ pc' = [pc EXCEPT ![m] = "returned"]
    /\ UNCHANGED <<left, started, stoppedBy, sigterm, quiet, silent, age>>

Next ==
    \/ Pass
    \/ Tick
    \/ Rearm
    \/ Sigterm
    \/ \E m \in Managers :
          Select(m) \/ TimerFires(m) \/ StopSucceeds(m) \/ StopFails(m) \/ Shutdown(m)

Spec == Init /\ [][Next]_vars

(***************************************************************************)
(* Fairness.  Time passes and goroutines run.  A select with several ready *)
(* cases picks one at random, so a case that is ready again and again is   *)
(* taken (strong fairness).  That the API server does not reject every     *)
(* attempt for ever is an assumption on the environment (ApiAnswers), and  *)
(* the properties that need it say so.                                     *)
(***************************************************************************)
ManagerRuns(m) ==
    /\ WF_vars(Select(m))
    /\ SF_vars(TimerFires(m))
    /\ SF_vars(Shutdown(m))
    /\ WF_vars(StopSucceeds(m) \/ StopFails(m))

ApiAnswers(m) == SF_vars(StopSucceeds(m))

FairSpec == Spec /\ WF_vars(Pass) /\ WF_vars(Rearm) /\ \A m \in Managers : ManagerRuns(m)

-----------------------------------------------------------------------------
(***************************************************************************)
(* Properties.                                                             *)
(***************************************************************************)

\* Every variable has its type.
TypeOK ==
    /\ pc \in [Managers -> PC]
    /\ left \in [Managers -> Nat]
    /\ started \in BOOLEAN
    /\ stoppedBy \in Managers \cup {"none"}
    /\ sigterm \in BOOLEAN
    /\ quiet \in 0 .. IdleTimeout
    /\ silent \in 0 .. IdleTimeout
    /\ age \in 0 .. RunTimeout

\* The workspace is stopped for the reason that is given, and for no other: the
\* annotation becomes inactivity only when the manager has received no tick for
\* the whole idle timeout (the retries of a failed stop included: a tick received
\* between two of them grants a full timeout again), and run-timeout only when
\* the process has run that long (stopWorkspace, inactivity.go:101-123, run.go:82-98).
StoppedForItsReason ==
    [][stoppedBy' # stoppedBy =>
          \/ stoppedBy' = Inactivity /\ quiet = IdleTimeout
          \/ stoppedBy' = RunIdle /\ age = RunTimeout]_vars

\* What the timers guarantee: outside a stop, a timer never runs out before the
\* timeout has passed since the last tick received (or, for the other manager,
\* since Start), and a stop is under way only once it has.
TimersInv ==
    /\ pc[Inactivity] \in {"looping", "parked"} => left[Inactivity] + quiet >= IdleTimeout
    /\ pc[Inactivity] = "stopping" => quiet = IdleTimeout
    /\ pc[RunIdle] \in {"looping", "parked"} => left[RunIdle] + age >= RunTimeout
    /\ pc[RunIdle] = "stopping" => age = RunTimeout

\* Manager m has done its work, or was told to leave it.
Settled(m) == pc[m] = "off" \/ (pc[m] = "returned" /\ (~started \/ sigterm))

\* A workspace nobody uses is stopped: if from some time on no tick is offered,
\* the inactivity manager stops it, retrying as long as it must, unless the
\* process is terminated first.
IdleIsStopped ==
    ApiAnswers(Inactivity) /\ <>[](silent = IdleTimeout) => <>Settled(Inactivity)

\* A workspace cannot be kept running past its run timeout by ticks, nor by any
\* number of failed attempts to stop it.
RunIsBounded == ApiAnswers(RunIdle) => <>Settled(RunIdle)

\* SIGTERM ends both managers, even one whose stop attempts keep failing.
SigtermEndsManagers ==
    sigterm ~> \A m \in Managers : pc[m] \in {"off", "returned"}
=============================================================================
