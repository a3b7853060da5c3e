----------------------------- MODULE TtyActivity -----------------------------
(***************************************************************************)
(* The activity source "tty" (package timeout): a scan of /proc for a      *)
(* process that a user started from a terminal and that counts as active.  *)
(* The scan looks at one process after the other, and at each of them      *)
(* several times, while processes start and exit and PIDs are used again;  *)
(* what it remembers of a process from one scan to the next it keeps       *)
(* under the PID alone.                                                    *)
(*                                                                         *)
(* PID 1 and the watcher itself, which the scan skips, are not in the      *)
(* table of processes.  The clock counts steps much longer than the two    *)
(* seconds for which a terminal is cached, so a cached terminal is fresh   *)
(* exactly in the step it was cached in.                                   *)
(***************************************************************************)
EXTENDS WatcherConfig, FiniteSets

CONSTANTS
    Pids,        \* PIDs that come and go, in the order of the directory
    Main,        \* the PID of a process of the container that has no terminal ...
    Shell,       \* ... and of the shell it runs on a terminal
    Terminals, NoTty,
    Kinds,       \* what processes do: see Process
    Nothing,     \* no process, or nothing cached
    WatchFile,   \* the file with the watched and ignored commands
    Window, Grace, MaxAge,  \* the settings, in steps of the clock
    Atime,       \* whether reading from a terminal updates its access time
    maxDepth,    \* 64 in the code
    CleanupAt,   \* 800 in the code
    MaxTime, MaxTicks, MaxSpawns  \* bounds

\* What is taken of the constants.
TtyAssumption ==
    /\ Pids \subseteq Nat /\ IsFiniteSet(Pids)
    /\ Main \in Nat \ Pids /\ Shell \in Nat \ (Pids \cup {Main})
    /\ {Window, Grace, MaxAge, maxDepth, CleanupAt} \subseteq Nat \ {0}
    /\ {MaxTime, MaxTicks, MaxSpawns} \subseteq Nat
    /\ Atime \in BOOLEAN
    /\ Kinds \subseteq [name : STRING, fg : BOOLEAN, wait : {"tty", "poll", "nothing"}, tty : BOOLEAN]

AllPids == Pids \cup {Main, Shell}

VARIABLES
    now,      \* the clock
    proc,     \* the process of each PID, or Nothing
    spawned,  \* processes started so far, which also tells them apart
    atime,    \* access time of each terminal
    ttyCache, \* ttyPathCache: a terminal, or NoTty, and when it was cached
    cpuCache, \* cpuActivityCache: ticks, when they last grew, and (history) of which process
    pc,       \* "idle", "identify" or "judge"
    todo,     \* entries of the directory still to be visited
    subject,  \* the process under examination: PID, name, and (history) which process it was
    peak      \* (history) most processes the scan could visit there were at a time

scanVars == <<pc, todo, subject>>
vars == <<now, proc, spawned, atime, ttyCache, cpuCache, scanVars, peak>>

\* A process: its command, whether it is in the foreground, what it waits for
\* ("tty", "poll" or "nothing"), its terminal, parent, times and CPU ticks.
Process(kind, parent, tty, n) ==
    [name |-> kind.name, fg |-> kind.fg, wait |-> kind.wait, tty |-> tty, parent |-> parent,
     born |-> now, id |-> n, ticks |-> 0, used |-> now]

Alive(p) == proc[p] # Nothing
Live     == {p \in AllPids : Alive(p)}
NoSubject == [pid |-> Main, name |-> None, id |-> 0]

Init ==
    /\ now = 0 /\ spawned = 0 /\ peak = 0
    /\ \E t \in Terminals :
          LET kind == [name |-> "sh", fg |-> TRUE, wait |-> "nothing"]
          IN  proc = [p \in AllPids |->
                        CASE p = Main  -> Process(kind, 1, NoTty, 0)
                          [] p = Shell -> Process(kind, Main, t, 0)
                          [] OTHER     -> Nothing]
    /\ atime = [t \in Terminals |-> 0]
    /\ ttyCache = [p \in AllPids |-> Nothing]
    /\ cpuCache = [p \in AllPids |-> Nothing]
    /\ pc = "idle" /\ todo = {} /\ subject = NoSubject

-----------------------------------------------------------------------------
(***************************************************************************)
(* Whose process it is.                                                    *)
(***************************************************************************)
processHasTTY(p) == IF p \in Live THEN proc[p].tty # NoTty ELSE FALSE
ParentOf(p)      == IF p \in Live THEN proc[p].parent ELSE 1

\* getMainUserProcess climbs from p until a parent without a terminal, in at most
\* maxDepth steps; it gives up at PID 1, and at a process that is its own ancestor.
Ancestor(p) ==
    LET up[n \in Nat] == IF n = 0 THEN p ELSE ParentOf(up[n - 1]) IN up

HasMainUserProcess(p) ==
    \E n \in 1 .. maxDepth :
        LET up == Ancestor(p)
        IN  /\ up[n] # 1 /\ ~processHasTTY(up[n])
            /\ \A k \in 1 .. n - 1 : processHasTTY(up[k]) /\ up[k] # p

\* A shell is not user work: its parent has no terminal.
isUserInitiatedProcess(p) ==
    /\ processHasTTY(p)
    /\ ParentOf(p) # 1 /\ processHasTTY(ParentOf(p))
    /\ HasMainUserProcess(p)

Visible == Live \cap Pids
Peak == peak' = AtLeast(peak, Cardinality(Visible'))

-----------------------------------------------------------------------------
(***************************************************************************)
(* The processes and the users.                                            *)
(***************************************************************************)
Pass ==
    /\ pc = "idle" /\ now < MaxTime
    /\ now' = now + 1
    /\ UNCHANGED <<proc, spawned, atime, ttyCache, cpuCache, scanVars, peak>>

Spawn(p, parent, kind) ==
    /\ ~Alive(p) /\ Alive(parent) /\ spawned < MaxSpawns
    /\ spawned' = spawned + 1
    /\ proc' = [proc EXCEPT ![p] =
                  Process(kind, parent, IF kind.tty THEN proc[parent].tty ELSE NoTty, spawned + 1)]
    /\ Peak
    /\ UNCHANGED <<now, atime, ttyCache, cpuCache, scanVars>>

\* Its children become those of PID 1.
Exit(p) ==
    /\ Alive(p)
    /\ proc' = [q \in AllPids |->
                  IF q = p \/ ~Alive(q) THEN IF q = p THEN Nothing ELSE proc[q]
                  ELSE IF proc[q].parent = p THEN [proc[q] EXCEPT !.parent = 1] ELSE proc[q]]
    /\ UNCHANGED <<now, spawned, atime, ttyCache, cpuCache, scanVars, peak>>

\* CPU time during a scan is as good as CPU time before or after it.
Compute(p) ==
    /\ pc = "idle" /\ Alive(p) /\ proc[p].ticks < MaxTicks
    /\ proc' = [proc EXCEPT ![p].ticks = @ + 1, ![p].used = now]
    /\ UNCHANGED <<now, spawned, atime, ttyCache, cpuCache, scanVars, peak>>

\* Somebody types, and a process reads it; between two entries of the directory
\* that is as good as before or after them.
ReadTerminal(t) ==
    /\ Atime /\ atime[t] # now /\ pc # "identify"
    /\ atime' = [atime EXCEPT ![t] = now]
    /\ UNCHANGED <<now, proc, spawned, ttyCache, cpuCache, scanVars, peak>>

-----------------------------------------------------------------------------
(***************************************************************************)
(* The verdict on a process.                                               *)
(***************************************************************************)

\* getProcessAge: 0 also when the process cannot be found any more.
Age(p) == IF p \in Live THEN now - proc[p].born ELSE 0

\* getCachedTTYInfo, without the time, which is always read afresh.
Cached(p) == IF ttyCache[p] = Nothing THEN FALSE ELSE ttyCache[p].at = now
TtyOf(p)  == IF Cached(p) THEN ttyCache[p].tty ELSE IF p \in Live THEN proc[p].tty ELSE NoTty

\* A terminal read since the process started: is the access time any good?
AtimeReliable(p) ==
    IF p \in Live /\ TtyOf(p) # NoTty THEN atime[TtyOf(p)] > proc[p].born ELSE FALSE

hasEverReadFromTTY(p) ==
    IF p \in Live /\ TtyOf(p) # NoTty THEN AtimeReliable(p) \/ proc[p].wait = "poll" ELSE FALSE

isInteractiveProcess(p) ==
    IF p \in Live THEN proc[p].fg /\ (proc[p].wait = "tty" \/ hasEverReadFromTTY(p)) ELSE FALSE

\* Mutant: the first sample of a process does not count as activity.
RecentCpuNoBenefit(p) ==
    IF p \notin Live THEN FALSE
    ELSE IF cpuCache[p] = Nothing THEN FALSE
    ELSE proc[p].ticks > cpuCache[p].ticks \/ now - cpuCache[p].at < Window

\* hasRecentCPUActivity, its answer ...
hasRecentCPUActivity(p) ==
    IF p \notin Live THEN FALSE
    ELSE IF cpuCache[p] = Nothing THEN TRUE
    ELSE proc[p].ticks > cpuCache[p].ticks \/ now - cpuCache[p].at < Window

\* Mutant: the cache is never cleaned up.
SampleWithoutCleanup(p) ==
    IF p \notin Live THEN cpuCache
    ELSE IF cpuCache[p] # Nothing /\ proc[p].ticks <= cpuCache[p].ticks THEN cpuCache
    ELSE [cpuCache EXCEPT ![p] = [ticks |-> proc[p].ticks, at |-> now, id |-> proc[p].id]]

\* ... and the sample it leaves.  A new entry, when there are many, first drives out
\* those of PIDs that are not in use; the old entry of a reused PID stays.
Sample(p) ==
    LET entries == {q \in AllPids : cpuCache[q] # Nothing}
        cleaned == IF Cardinality(entries) >= CleanupAt
                     THEN [q \in AllPids |-> IF q \in Live THEN cpuCache[q] ELSE Nothing]
                     ELSE cpuCache
    IN  IF p \notin Live THEN cpuCache
        ELSE IF cpuCache[p] = Nothing
          THEN [cleaned EXCEPT ![p] = [ticks |-> proc[p].ticks, at |-> now, id |-> proc[p].id]]
        ELSE IF proc[p].ticks > cpuCache[p].ticks
          THEN [cpuCache EXCEPT ![p].ticks = proc[p].ticks, ![p].at = now]
        ELSE cpuCache

hasTTYActivity(p) ==
    IF AtimeReliable(p) THEN atime[TtyOf(p)] > now - Window ELSE hasRecentCPUActivity(p)

\* The first entry of the configuration that has exactly this name.
Entries(name) == {i \in DOMAIN WatchedCommands(WatchFile) : WatchedCommands(WatchFile)[i].name = name}
ModeOf(name) ==
    IF Entries(name) = {} THEN "auto"
    ELSE WatchedCommands(WatchFile)[CHOOSE i \in Entries(name) : \A j \in Entries(name) : i <= j].mode

\* applyPolicy: the activity of an interactive process is looked at, any other
\* counts as active.
LooksAtActivity(p, name) ==
    CASE ModeOf(name) = "auto"           -> isInteractiveProcess(p)
      [] ModeOf(name) \in {"true", "yes"} -> TRUE
      [] OTHER                            -> FALSE

JudgedByAge(p) == Age(p) > MaxAge \/ Age(p) < Grace

\* Scan, steps 3 to 5.
Verdict(p, name) ==
    CASE Age(p) > MaxAge                          -> FALSE
      [] Age(p) <= MaxAge /\ Age(p) < Grace        -> TRUE
      [] OTHER -> LooksAtActivity(p, name) => hasTTYActivity(p)

-----------------------------------------------------------------------------
(***************************************************************************)
(* The scan.                                                               *)
(***************************************************************************)
\* The entries of Main and Shell are left out: neither ever passes the first check.
ScanBegin ==
    /\ pc = "idle"
    /\ pc' = "identify"
    /\ todo' = Visible
    /\ UNCHANGED <<now, proc, spawned, atime, ttyCache, cpuCache, subject, peak>>

NextPid == CHOOSE p \in todo : \A q \in todo : p <= q

\* Scan, steps 1 and 2: the lists are compared with the name as it is.
Ignored(name) == name \in alwaysIgnoredCommands \cup IgnoredCommands(WatchFile)

Passes(p) == IF isUserInitiatedProcess(p) THEN ~Ignored(proc[p].name) ELSE FALSE

\* Mutant: a process that is to be judged stays in the list.
IdentifyTwice ==
    /\ pc = "identify" /\ todo # {}
    /\ IF Passes(NextPid)
         THEN /\ pc' = "judge" /\ UNCHANGED todo
              /\ subject' = [pid |-> NextPid, name |-> proc[NextPid].name, id |-> proc[NextPid].id]
         ELSE UNCHANGED <<pc, subject>> /\ todo' = todo \ {NextPid}
    /\ UNCHANGED <<now, proc, spawned, atime, ttyCache, cpuCache, peak>>

Identify ==
    /\ pc = "identify" /\ todo # {}
    /\ todo' = todo \ {NextPid}
    /\ IF Passes(NextPid)
         THEN /\ pc' = "judge"
              /\ subject' = [pid |-> NextPid, name |-> proc[NextPid].name, id |-> proc[NextPid].id]
         ELSE UNCHANGED <<pc, subject>>
    /\ UNCHANGED <<now, proc, spawned, atime, ttyCache, cpuCache, peak>>

\* What the verdict reads goes into the caches.  The terminal is looked up for the
\* activity of a process, and to tell whether it is interactive.
Judge ==
    LET p == subject.pid
        name == subject.name
        looks == ~JudgedByAge(p) /\ LooksAtActivity(p, name)
        resolves == looks \/ (~JudgedByAge(p) /\ ModeOf(name) = "auto" /\ p \in Live /\ proc[p].fg)
    IN  /\ pc = "judge"
        /\ ttyCache' = IF resolves THEN [ttyCache EXCEPT ![p] = [tty |-> TtyOf(p), at |-> now]] ELSE ttyCache
        /\ cpuCache' = IF looks /\ ~AtimeReliable(p) THEN Sample(p) ELSE cpuCache
        /\ IF Verdict(p, name) THEN pc' = "idle" /\ todo' = {} ELSE pc' = "identify" /\ UNCHANGED todo
        /\ subject' = NoSubject
        /\ UNCHANGED <<now, proc, spawned, atime, peak>>

ScanEnd ==
    /\ pc = "identify" /\ todo = {}
    /\ pc' = "idle"
    /\ UNCHANGED <<now, proc, spawned, atime, ttyCache, cpuCache, todo, subject, peak>>

Next ==
    \/ Pass
    \/ \E p \in Pids, parent \in AllPids, kind \in Kinds : Spawn(p, parent, kind)
    \/ \E p \in Pids \cup {Shell} : Exit(p)
    \/ \E p \in Pids : Compute(p)
    \/ \E t \in Terminals : ReadTerminal(t)
    \/ ScanBegin \/ Identify \/ Judge \/ ScanEnd

-----------------------------------------------------------------------------
(***************************************************************************)
(* Properties.                                                             *)
(***************************************************************************)

\* Every variable has its type; times lie in the past, and a scan looks at a
\* process once.
TypeOK ==
    /\ now \in 0 .. MaxTime /\ spawned \in 0 .. MaxSpawns
    /\ \A p \in Live : proc[p].born <= now /\ proc[p].used \in proc[p].born .. now /\ proc[p].ticks \in 0 .. MaxTicks
    /\ \A t \in Terminals : atime[t] \in 0 .. now
    /\ \A p \in AllPids : cpuCache[p] # Nothing => cpuCache[p].at <= now /\ cpuCache[p].ticks <= MaxTicks
    /\ pc \in {"idle", "identify", "judge"} /\ todo \subseteq AllPids /\ subject.pid \in AllPids
    /\ pc = "idle" => todo = {}
    /\ pc = "judge" => subject.pid \notin todo

\* What a user would say of his process: it is young, it does work of its own, or
\* somebody or something used it within the window.
InUse(p) ==
    LET q == proc[p]
        read == q.tty # NoTty /\ atime[q.tty] > q.born
    IN  \/ now - q.born < Grace
        \/ ModeOf(q.name) \in {"false", "no"}
        \/ ModeOf(q.name) = "auto" /\ ~(q.fg /\ (q.wait \in {"tty", "poll"} \/ read))
        \/ IF read THEN atime[q.tty] > now - Window ELSE q.used > now - Window

\* The process under examination is the one that was identified, and what is
\* cached under its PID is its own.
NotReused(p) ==
    /\ IF p \in Live THEN proc[p].id = subject.id ELSE FALSE
    /\ cpuCache[p] # Nothing => cpuCache[p].id = proc[p].id
    /\ Cached(p) => ttyCache[p].tty = proc[p].tty

\* No process in use is found inactive, as long as it is not too old, whatever the
\* samples of earlier scans, broken off at the first active process, have seen of
\* its CPU time; PIDs that were used again apart
\* (activity_source_tty.go:42-145, 576-646).
ActivityIsSeen ==
    pc = "judge" /\ NotReused(subject.pid) /\ Age(subject.pid) <= MaxAge /\ InUse(subject.pid)
        => Verdict(subject.pid, subject.name)

\* The samples do not pile up: there are never more than the number at which they
\* are cleaned up, or than there have been processes at a time
\* (activity_source_tty.go:602-612, 630-635).
CpuCacheBounded ==
    Cardinality({p \in AllPids : cpuCache[p] # Nothing}) <= AtLeast(peak, CleanupAt)
=============================================================================
