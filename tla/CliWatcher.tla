------------------------------ MODULE CliWatcher ------------------------------
(***************************************************************************)
(* The CLI watcher (package timeout): one goroutine in a select over a     *)
(* ticker and the stop channel.  At each tick it loads its configuration   *)
(* again, restarts the ticker if the check period has changed, and asks    *)
(* the activity sources in turn until one is active; then it reports one   *)
(* tick of activity.  Files come, change and go between any two of its     *)
(* steps: getConfigPath looks at one place after the other, and os.Stat    *)
(* and os.ReadFile look again at the place where it found one.             *)
(***************************************************************************)
EXTENDS WatcherConfig

CONSTANTS
    Idle,       \* the idle timeout, in milliseconds
    Unit,       \* milliseconds of one step of the clock
    Environs,   \* what the administrator may have set in the environment
    Contents,   \* what a configuration file may say ...
    Broken,     \* ... or something that cannot be parsed
    Path, Stop, \* the directories from $PROJECT_SOURCE upwards, and $PROJECTS_ROOT
    Home,       \* $HOME
    Absent,
    NoConfig,   \* the nil configuration
    MaxChanges  \* bound: changes of the files

Places == {Path[i] : i \in DOMAIN Path} \cup {Home}

\* Configurations there may be: from a file or not, its modification time, the settings.
Configs ==
    [fromFile : BOOLEAN, mtime : Nat,
     set : {Resolve(file, LoadEnv(given), Idle) : file \in Contents \cup {NoFile}, given \in Environs}]

ASSUME WatcherAssumption ==
    /\ Idle \in Nat \ {0} /\ Unit \in Nat \ {0} /\ MaxChanges \in Nat
    /\ Path \in Seq(Places) \ {<<>>} /\ None \notin Places
    /\ NoConfig \notin Configs
    /\ \A e \in Environs : {e.period, e.window, e.grace, e.age} \subseteq Int
    /\ \A e \in Environs : Len(e.sources) \in Nat /\ DOMAIN e.sources = 1 .. Len(e.sources)
    /\ \A f \in Contents : {f.period, f.seconds, f.window, f.grace, f.age} \subseteq Int

VARIABLES
    loop,      \* where the goroutine is
    started,   \* w.started
    stopChan,  \* "open" or "closed"
    env,       \* w.envConfig
    sources,   \* w.activeActivitySources, by name
    files,     \* the file at each place: Absent, or its modification time and content
    changes,   \* changes of the files so far, which is also the time they tell
    config,    \* w.config
    reading,   \* of a load: the next place to look at, the path found, the time seen there
    period,    \* chkPeriod in seconds, 0 before the ticker is made
    due,       \* steps of the clock until the ticker fires
    pending,   \* a tick is in the channel of the ticker
    cursor,    \* the activity source to be asked
    busy,      \* the sources that would report activity
    stable,    \* (history) no file has changed since the last load began
    newest,    \* (history) latest modification time of a file that counted or was to be read
    rewound    \* (history) the file that counts is no later than another such file was

timerVars == <<period, due, pending>>
fileVars  == <<files, changes, newest, rewound>>
wvars == <<loop, started, stopChan, env, sources, fileVars, config, reading, timerVars, cursor, busy, stable>>

\* The path of the file that counts, when the files are fs.
FoundIn(fs) == ConfigPath(None, Path, Stop, Home, {p \in Places : fs[p] # Absent})
TimeIn(fs)  == IF FoundIn(fs) = None THEN 0 ELSE fs[FoundIn(fs)].mtime

NoReading == [next |-> 1, path |-> None, mtime |-> 0]

WInit ==
    /\ loop = "off" /\ started = FALSE /\ stopChan = "open"
    /\ env = LoadEnv([enabled |-> "unset", period |-> 0, window |-> 0, grace |-> 0, age |-> 0])
    /\ sources = <<>>
    /\ files = [p \in Places |-> Absent] /\ changes = 0
    /\ newest = 0 /\ rewound = FALSE
    /\ config = NoConfig /\ reading = NoReading
    /\ period = 0 /\ due = 0 /\ pending = FALSE
    /\ cursor = 0 /\ busy = {} /\ stable = FALSE

-----------------------------------------------------------------------------
(***************************************************************************)
(* The files, and the activity that the sources would see.                 *)
(***************************************************************************)
ChangeFile(p, file) ==
    LET fs == [files EXCEPT ![p] = file]
        same == FoundIn(fs) = FoundIn(files) /\ FoundIn(fs) # p
    IN  /\ changes < MaxChanges
        /\ changes' = changes + 1
        /\ files' = fs
        /\ stable' = FALSE
        /\ rewound' = (FoundIn(fs) # None /\ (IF same THEN rewound ELSE TimeIn(fs) <= newest))
        /\ newest' = AtLeast(newest, TimeIn(fs))
        /\ UNCHANGED <<loop, started, stopChan, env, sources, config, reading, timerVars, cursor, busy>>

\* Saving a file gives it a new modification time ...
Save(p, content) == ChangeFile(p, [mtime |-> changes + 1, content |-> content])

\* ... moving one there, or unpacking it, leaves it the time it had.
MoveIn(p, content, mtime) == ChangeFile(p, [mtime |-> mtime, content |-> content])

Remove(p) == files[p] # Absent /\ ChangeFile(p, Absent)

SetBusy(set) ==
    /\ set # busy
    /\ busy' = set
    /\ UNCHANGED <<loop, started, stopChan, env, sources, fileVars, config, reading, timerVars, cursor, stable>>

-----------------------------------------------------------------------------
(***************************************************************************)
(* Start and Stop.                                                         *)
(***************************************************************************)
Start(given) ==
    /\ ~started /\ loop = "off"
    /\ started' = TRUE
    /\ env' = LoadEnv(given)
    /\ sources' = ResolveSources(ParseSelectors(given.sources))
    /\ loop' = IF sources' = <<>> THEN "inert" ELSE "load"
    /\ UNCHANGED <<stopChan, fileVars, config, reading, timerVars, cursor, busy, stable>>

StopWatcher ==
    /\ started
    /\ started' = FALSE
    /\ stopChan' = "closed"
    /\ UNCHANGED <<loop, env, sources, fileVars, config, reading, timerVars, cursor, busy, stable>>

\* The cases of the select; with both ready, either is taken.
SelectStop ==
    /\ loop = "select" /\ stopChan = "closed"
    /\ loop' = "stopped"
    /\ UNCHANGED <<started, stopChan, env, sources, fileVars, config, reading, timerVars, cursor, busy, stable>>

SelectTick ==
    /\ loop = "select" /\ pending
    /\ loop' = "load"
    /\ pending' = FALSE
    /\ UNCHANGED <<started, stopChan, env, sources, fileVars, config, reading, period, due, cursor, busy, stable>>

-----------------------------------------------------------------------------
(***************************************************************************)
(* loadConfig.                                                             *)
(***************************************************************************)
Loaded(file, mtime, fromFile) ==
    [fromFile |-> fromFile, mtime |-> mtime, set |-> Resolve(file, env, Idle)]

Present     == {p \in Places : files[p] # Absent}
Gone(p)     == p \notin Present
Readable(p) == p \in {q \in Present : files[q].content # Broken}

\* findUpward looks at one directory after the other and takes the first that has a
\* file.  Between two looks any of them may change.
LookUpward ==
    /\ loop = "load" /\ reading.next \in Visited(Path, Stop)
    /\ IF Path[reading.next] \in Present
         THEN loop' = "stat" /\ reading' = [NoReading EXCEPT !.path = Path[reading.next]]
         ELSE reading' = [reading EXCEPT !.next = @ + 1] /\ UNCHANGED loop
    /\ stable' = (stable \/ reading.next = 1)
    /\ UNCHANGED <<started, stopChan, env, sources, fileVars, config, timerVars, cursor, busy>>

\* The last look of getConfigPath is at $HOME.
LookHome ==
    /\ loop = "load" /\ reading.next \notin Visited(Path, Stop)
    /\ loop' = "stat"
    /\ reading' = [NoReading EXCEPT !.path = IF Home \in Present THEN Home ELSE None]
    /\ UNCHANGED <<started, stopChan, env, sources, fileVars, config, timerVars, cursor, busy, stable>>

\* Mutant: a configuration survives its file.
StatMissingKeeps ==
    /\ loop = "stat" /\ Gone(reading.path)
    /\ loop' = "loaded"
    /\ config' = IF config # NoConfig THEN config ELSE Loaded(NoFile, 0, FALSE)
    /\ reading' = NoReading
    /\ UNCHANGED <<started, stopChan, env, sources, fileVars, timerVars, cursor, busy, stable>>

\* There is no file: the settings come from the environment and the defaults.
StatMissing ==
    /\ loop = "stat" /\ Gone(reading.path)
    /\ loop' = "loaded"
    /\ config' = IF config # NoConfig /\ ~config.fromFile THEN config ELSE Loaded(NoFile, 0, FALSE)
    /\ reading' = NoReading
    /\ UNCHANGED <<started, stopChan, env, sources, fileVars, timerVars, cursor, busy, stable>>

IsNewer(p) == ~(config # NoConfig /\ files[p].mtime <= config.mtime)

StatUnchanged ==
    /\ loop = "stat" /\ ~Gone(reading.path) /\ ~IsNewer(reading.path)
    /\ loop' = "loaded"
    /\ reading' = NoReading
    /\ UNCHANGED <<started, stopChan, env, sources, fileVars, config, timerVars, cursor, busy, stable>>

\* The file found may have ceased to count meanwhile; it is read all the same.
StatChanged ==
    LET mtime == files[reading.path].mtime
        other == FoundIn(files) \notin {None, reading.path}
    IN  /\ loop = "stat" /\ ~Gone(reading.path) /\ IsNewer(reading.path)
        /\ loop' = "read"
        /\ reading' = [reading EXCEPT !.mtime = mtime]
        /\ newest' = AtLeast(newest, mtime)
        /\ rewound' = (rewound \/ (other /\ TimeIn(files) <= mtime))
        /\ UNCHANGED <<started, stopChan, env, sources, files, changes, config, timerVars, cursor, busy, stable>>

\* The file went away, or cannot be parsed: the configuration stays as it is.
ReadFails ==
    /\ loop = "read" /\ ~Readable(reading.path)
    /\ loop' = "loaded"
    /\ reading' = NoReading
    /\ UNCHANGED <<started, stopChan, env, sources, fileVars, config, timerVars, cursor, busy, stable>>

\* The time remembered is that of os.Stat, before the file was read.
ReadNew ==
    /\ loop = "read" /\ Readable(reading.path)
    /\ loop' = "loaded"
    /\ config' = Loaded(files[reading.path].content, reading.mtime, TRUE)
    /\ reading' = NoReading
    /\ UNCHANGED <<started, stopChan, env, sources, fileVars, timerVars, cursor, busy, stable>>

-----------------------------------------------------------------------------
(***************************************************************************)
(* The loop.                                                               *)
(***************************************************************************)
Steps(seconds) == AtLeast((seconds * Second) \div Unit, 1)

NewTicker(seconds) == period' = seconds /\ due' = Steps(seconds) /\ pending' = FALSE

KeepOrRestartTicker(seconds) ==
    IF seconds = period THEN UNCHANGED timerVars ELSE NewTicker(seconds)

DefaultSeconds == DefaultCheckPeriod \div Second

\* After the first load.  Below a second the period is 0, and NewTicker panics.
FirstTicker ==
    LET seconds == IF config = NoConfig THEN DefaultSeconds ELSE config.set.period \div Second
    IN  /\ loop = "loaded" /\ period = 0
        /\ IF seconds = 0
             THEN loop' = "crashed" /\ UNCHANGED timerVars
             ELSE loop' = "select" /\ NewTicker(seconds)
        /\ UNCHANGED <<started, stopChan, env, sources, fileVars, config, reading, cursor, busy, stable>>

Disabled == ~(config # NoConfig /\ config.set.enabled)

SkipScan ==
    /\ loop = "loaded" /\ period # 0 /\ Disabled
    /\ loop' = "select"
    /\ KeepOrRestartTicker(DefaultSeconds)
    /\ UNCHANGED <<started, stopChan, env, sources, fileVars, config, reading, cursor, busy, stable>>

\* Mutant: whether detection is enabled is not looked at.
BeginScanAnyway ==
    /\ loop = "loaded" /\ period # 0 /\ config # NoConfig
    /\ loop' = "scanning"
    /\ cursor' = 1
    /\ KeepOrRestartTicker(IF config.set.period \div Second > 0 THEN config.set.period \div Second ELSE period)
    /\ UNCHANGED <<started, stopChan, env, sources, fileVars, config, reading, busy, stable>>

\* A period of less than a second leaves the ticker as it was.
BeginScan ==
    /\ loop = "loaded" /\ period # 0 /\ ~Disabled
    /\ loop' = "scanning"
    /\ cursor' = 1
    /\ KeepOrRestartTicker(IF config.set.period \div Second > 0 THEN config.set.period \div Second ELSE period)
    /\ UNCHANGED <<started, stopChan, env, sources, fileVars, config, reading, busy, stable>>

\* Mutant: the first source without activity ends the scan.
ScanFirstOnly ==
    /\ loop = "scanning"
    /\ loop' = IF sources[cursor] \in busy THEN "ticking" ELSE "select"
    /\ cursor' = 0
    /\ UNCHANGED <<started, stopChan, env, sources, fileVars, config, reading, timerVars, busy, stable>>

\* The source at the cursor is asked; the first that is active ends the scan.
Scan ==
    /\ loop = "scanning"
    /\ IF sources[cursor] \in busy THEN loop' = "ticking" /\ cursor' = 0
       ELSE IF cursor < Len(sources) THEN cursor' = cursor + 1 /\ UNCHANGED loop
       ELSE loop' = "select" /\ cursor' = 0
    /\ UNCHANGED <<started, stopChan, env, sources, fileVars, config, reading, timerVars, busy, stable>>

\* tickFunc is called; its effect is the composition's.
Report ==
    /\ loop = "ticking"
    /\ loop' = "select"
    /\ UNCHANGED <<started, stopChan, env, sources, fileVars, config, reading, timerVars, cursor, busy, stable>>

\* One step of the clock.  A ticker keeps one tick for a receiver that is late.
Elapse ==
    /\ IF period = 0 \/ loop = "stopped" THEN UNCHANGED <<due, pending>>
       ELSE /\ due' = IF due = 1 THEN Steps(period) ELSE due - 1
            /\ pending' = (pending \/ due = 1)
    /\ UNCHANGED <<loop, started, stopChan, env, sources, fileVars, config, reading, period, cursor, busy, stable>>

\* What the goroutine does without anybody else taking part.
LoopStep ==
    \/ SelectStop \/ SelectTick
    \/ LookUpward \/ LookHome \/ StatMissing \/ StatUnchanged \/ StatChanged \/ ReadFails \/ ReadNew
    \/ FirstTicker \/ SkipScan \/ BeginScan \/ Scan

FileStep ==
    \E p \in Places :
        \/ Remove(p)
        \/ \E content \in Contents \cup {Broken} :
              Save(p, content) \/ (\E mtime \in 1 .. changes : MoveIn(p, content, mtime))

-----------------------------------------------------------------------------
(***************************************************************************)
(* Properties.                                                             *)
(***************************************************************************)
WTypeOK ==
    /\ loop \in {"off", "inert", "load", "stat", "read", "loaded", "select", "scanning",
                 "ticking", "stopped", "crashed"}
    /\ files \in [Places -> {Absent} \cup [mtime : 1 .. MaxChanges, content : Contents \cup {Broken}]]
    /\ config = NoConfig \/ config.mtime \in 0 .. MaxChanges
    /\ period \in Nat /\ due \in Nat /\ (period # 0 /\ loop # "off" => due > 0)
    /\ loop = "scanning" => cursor \in DOMAIN sources
    /\ loop \in {"scanning", "ticking"} => ~Disabled
    /\ changes \in 0 .. MaxChanges /\ newest \in 0 .. MaxChanges

\* The configuration has just been loaded, and no file has changed since.
UpToDate == stable /\ loop \in {"loaded", "scanning", "ticking", "select"}

Follows ==
    LET p == FoundIn(files)
    IN  IF p = None THEN config = Loaded(NoFile, 0, FALSE)
        ELSE files[p].content # Broken =>
                /\ config # NoConfig
                /\ config.fromFile /\ config.set = Resolve(files[p].content, env, Idle)

\* After a load the watcher works with what the file that counts says now, or
\* without it if it is gone, although files were saved and removed while it was
\* being looked for in one place after the other, examined and read; files apart that
\* are no later than another that counted, or was about to be read, before
\* (cli-watcher.go:418-446, 454-482, 495-596).
ConfigFollowsSavedFile == UpToDate /\ ~rewound => Follows

\* "The `.noidle` file is re-read on every check cycle. Changes take effect
\* without workspace restart." (timeout/CLI-WATCHER.md:309)
ConfigFollowsFile == UpToDate => Follows

\* Whatever a file says, now or in the past, it cannot take the watcher beyond the
\* limits of the administrator, nor enable what he has not (cli-watcher.go:812-873).
UserOnlyTightens ==
    config # NoConfig =>
        /\ config.set.enabled = (env.enabled = "true")
        /\ env.period # 0 => config.set.period <= env.period
        /\ env.window # 0 => config.set.window <= env.window
        /\ env.grace # 0 => config.set.grace <= env.grace
        /\ env.age # 0 => config.set.age <= env.age

\* No file can make the watcher, and with it the process, die of a ticker without
\* a period: only the administrator can, with a check period below a second
\* (cli-watcher.go:312-316).
CrashIsTheAdmins == loop = "crashed" => env.period \in 1 .. Second - 1 \/ Idle < 4 * Second
=============================================================================
