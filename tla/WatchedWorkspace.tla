--------------------------- MODULE WatchedWorkspace ---------------------------
(***************************************************************************)
(* A workspace whose only activity is what the CLI watcher sees: the       *)
(* watcher of CliWatcher reports to the inactivity manager of IdleManager, *)
(* which started it.  The run timeout and SIGTERM are left to IdleManager. *)
(*                                                                         *)
(* Time passes only when the goroutines have nothing to do but wait: what  *)
(* they do takes much less than a step of the clock.  A scan may take      *)
(* longer, because a source may wait for the answer of another process,    *)
(* and so may the request that stops the workspace.                        *)
(***************************************************************************)
EXTENDS CliWatcher

CONSTANTS
    RetryPeriod,  \* stopRetryPeriod in steps of the clock
    Subject,      \* the activity source the properties follow
    MaxScan       \* bound: steps of the clock one scan takes

IdleTimeout == Idle \div Unit
RunTimeout  == 0

\* The clock tells a check period from the idle timeout, and the sources answer in
\* less than what a check period leaves of it.
ASSUME WorkspaceAssumption ==
    /\ RetryPeriod \in Nat \ {0} /\ MaxScan \in Nat
    /\ IdleTimeout >= 4 /\ IdleTimeout \div 4 + MaxScan < IdleTimeout

VARIABLES pc, left, workspaceStarted, stoppedBy, sigterm, quiet, silent, age

M == INSTANCE IdleManager WITH started <- workspaceStarted

VARIABLES
    busyFor,   \* (history) time for which Subject has been active with detection on
    retrying,  \* (history) a stop has failed since the last tick received
    scanTime   \* steps of the clock the scan has taken

managerVars == <<pc, left, workspaceStarted, stoppedBy, sigterm, quiet, silent, age>>
vars == <<wvars, managerVars, busyFor, retrying, scanTime>>

SourceNames == {allActivitySources[i] : i \in DOMAIN allActivitySources}

Init ==
    /\ WInit /\ M!Init
    /\ busyFor = 0
    /\ retrying = FALSE /\ scanTime = 0

\* Detection is on and Subject is one of the sources asked.
SubjectWatched ==
    /\ started /\ ~Disabled /\ period # 0
    /\ Subject \in {sources[i] : i \in DOMAIN sources}

\* A check period and two scans: what the watcher may take to notice.
Notice == IdleTimeout \div 4 + 2 * MaxScan

ManagerAtRest ==
    \/ pc[M!Inactivity] \in {"stopping", "returned"}
    \/ pc[M!Inactivity] = "parked" /\ left[M!Inactivity] # 0

AtRest ==
    /\ ManagerAtRest
    /\ \/ loop \in {"inert", "stopped"}
       \/ loop = "select" /\ ~pending /\ stopChan = "open"
       \/ loop = "scanning" /\ scanTime < MaxScan

Pass ==
    /\ AtRest
    /\ Elapse /\ M!Pass
    /\ busyFor' = IF Subject \in busy /\ SubjectWatched THEN M!CountUp(busyFor, Notice + 1) ELSE 0
    /\ scanTime' = IF loop = "scanning" THEN scanTime + 1 ELSE scanTime
    /\ UNCHANGED retrying

\* The sources become active and cease to be.  This, like a change of a file or a
\* Stop, is let happen only where the next step of the watcher can tell it from later.
ActivityStep ==
    /\ ManagerAtRest
    /\ loop = "scanning" \/ (loop = "select" /\ ~pending)
    /\ \E set \in SUBSET SourceNames : SetBusy(set)
    /\ busyFor' = IF Subject \in busy' THEN busyFor ELSE 0
    /\ UNCHANGED <<managerVars, retrying, scanTime>>

EnvironmentStep ==
    /\ ManagerAtRest
    /\ \/ loop \in {"load", "stat", "read"} /\ FileStep
       \/ loop = "off" /\ (\E given \in Environs : Start(given))
       \/ loop \in {"inert", "select"} /\ StopWatcher
    /\ UNCHANGED <<managerVars, busyFor, retrying, scanTime>>

WatcherStep ==
    /\ LoopStep
    /\ scanTime' = IF loop' = "scanning" THEN scanTime ELSE 0
    /\ UNCHANGED <<managerVars, busyFor, retrying>>

\* m.Tick is called by the watcher.
ReportStep ==
    /\ Report /\ M!Tick
    /\ retrying' = (retrying /\ pc[M!Inactivity] # "parked")
    /\ UNCHANGED <<busyFor, scanTime>>

ManagerStep ==
    /\ \/ M!Rearm \/ M!Select(M!Inactivity) \/ M!TimerFires(M!Inactivity)
       \/ M!StopSucceeds(M!Inactivity) \/ M!StopFails(M!Inactivity)
    /\ retrying' = (retrying \/ (pc[M!Inactivity] = "stopping" /\ pc'[M!Inactivity] = "looping"))
    /\ UNCHANGED <<wvars, busyFor, scanTime>>

\* A panic of the watcher ends the process.
Next ==
    /\ loop # "crashed"
    /\ \/ Pass \/ ActivityStep \/ EnvironmentStep \/ WatcherStep \/ ReportStep \/ ManagerStep

Spec == Init /\ [][Next]_vars

-----------------------------------------------------------------------------
(***************************************************************************)
(* Properties.                                                             *)
(***************************************************************************)

\* The watcher and the manager keep their types.
TypeOK ==
    /\ WTypeOK /\ M!TypeOK
    /\ busyFor \in 0 .. Notice + 1
    /\ retrying \in BOOLEAN /\ scanTime \in 0 .. MaxScan

\* The idle timeout and the administrator's check period leave the watcher time to
\* notice activity.
TimelyEnv == Idle >= 4 * Second /\ (env.period # 0 => env.period \in Second .. Idle \div 4)

\* A workspace in use is not stopped: when the idle timer runs out, no enabled
\* source has been active for longer than a check period and two scans, whatever
\* became of the configuration and its period meanwhile.  After a failed stop,
\* attempts go on at the retry period until the next tick is received
\* (cli-watcher.go:321-377, inactivity.go:95-118).
BusyIsNotStopped ==
    [][TimelyEnv /\ ~retrying /\ pc[M!Inactivity] = "parked" /\ pc'[M!Inactivity] = "stopping"
          => busyFor <= Notice]_vars
=============================================================================
