------------------------ MODULE WatchedWorkspaceProofs ------------------------
(***************************************************************************)
(* Proofs about a workspace watched by the CLI watcher, for any settings   *)
(* of the environment, any contents of any number of files, any sources,   *)
(* any idle timeout, and however the watcher, the files and the inactivity *)
(* manager interleave: that the user only tightens the settings, that no   *)
(* file crashes the watcher, that the configuration follows the files,     *)
(* that a workspace in use is not stopped, and the types.                  *)
(***************************************************************************)
EXTENDS WatchedWorkspace, FiniteSetTheorems, SequenceTheorems, WellFoundedInduction, TLAPS

Files == Contents \cup {NoFile}

\* Everything of the environment that the settings depend on.
EnvOK(e) == e.period \in Nat /\ e.window \in Nat /\ e.grace \in Nat /\ e.age \in Nat

-----------------------------------------------------------------------------
(***************************************************************************)
(* The arithmetic of the settings.                                         *)
(***************************************************************************)
LEMMA FileDurations ==
  ASSUME NEW f \in Files
  PROVE  /\ f.period \in Int /\ f.seconds \in Int /\ f.window \in Int
         /\ f.grace \in Int /\ f.age \in Int
BY WatcherAssumption DEF Files, NoFile

\* What the environment gives is usable or nothing.
LEMMA EnvIsUsable ==
  ASSUME NEW given \in Environs
  PROVE  EnvOK(LoadEnv(given))
<1>1. \A n \in Int : EnvDuration(n) \in Nat
  BY DEF EnvDuration, ParseDuration, Hour, Minute, Second
<1>2. /\ given.period \in Int /\ given.window \in Int /\ given.grace \in Int /\ given.age \in Int
  BY WatcherAssumption
<1> QED BY <1>1, <1>2 DEF EnvOK, LoadEnv

LEMMA ParsedIsInt ==
  ASSUME NEW n \in Int, NEW max \in Int, NEW default \in Int
  PROVE  ParseDuration(n, max, default) \in Int
BY DEF ParseDuration

\* A ceiling binds, and gives a small duration only if it is small itself or the
\* resolved duration is.
LEMMA CeilingBinds ==
  ASSUME NEW limit \in Nat, NEW n \in Int, NEW resolved \in Int
  PROVE  /\ Ceiling(limit, n, resolved) \in Int
         /\ limit # 0 => Ceiling(limit, n, resolved) <= limit
         /\ Ceiling(limit, n, resolved) \in {limit, resolved}
         /\ limit = 0 => Ceiling(limit, n, resolved) = resolved
BY DEF Ceiling, AtMost

LEMMA ResolvedDurations ==
  ASSUME NEW f \in Files
  PROVE  /\ CheckPeriod(f, Idle) \in Int /\ GracePeriod(f, Idle) \in Int
         /\ ActivityWindow(f, Idle) \in Int /\ MaxProcessAge(f) \in Int
<1>1. /\ f.period \in Int /\ f.seconds \in Int /\ f.window \in Int
      /\ f.grace \in Int /\ f.age \in Int
  BY FileDurations
<1>2. Idle \in Nat \ {0}
  BY WatcherAssumption
<1>3. Second = 1000 /\ Minute = 60000 /\ Hour = 3600000
  BY DEF Second, Minute, Hour
<1>4. CheckPeriod(f, Idle) \in Int
  <2>1. ParseDuration(f.period, Hour, DefaultCheckPeriod) \in Int
    <3>1. Hour \in Int /\ DefaultCheckPeriod \in Int
      BY <1>3 DEF DefaultCheckPeriod
    <3> QED BY <1>1, <3>1, ParsedIsInt
  <2>2. MaxCheckPeriod(Idle) \in Int
    BY <1>2, <1>3 DEF MaxCheckPeriod, AtMost
  <2> QED BY <1>1, <1>3, <2>1, <2>2 DEF CheckPeriod, DefaultCheckPeriod, MinCheckPeriod, AtMost, AtLeast
<1>5. GracePeriod(f, Idle) \in Int
  <2> DEFINE default == IF f.grace = 0 /\ Idle > 0
                          THEN AtLeast(AtMost((Idle * 15) \div 100, DefaultGracePeriod), MinGracePeriod)
                          ELSE DefaultGracePeriod
  <2>1. default \in Int
    BY <1>1, <1>2, <1>3 DEF DefaultGracePeriod, MinGracePeriod, AtMost, AtLeast
  <2>2. Hour \in Int
    BY <1>3
  <2> HIDE DEF default
  <2>3. ParseDuration(f.grace, Hour, default) \in Int
    BY <1>1, <2>1, <2>2, ParsedIsInt
  <2> QED BY <2>3 DEF GracePeriod, default
<1>6. ActivityWindow(f, Idle) \in Int
  <2> DEFINE default ==
        CASE f.window = 0 /\ Idle > 0 -> AtLeast(Idle - GracePeriod(f, Idle) - SafetyBuffer(Idle), MinActivityWindow)
          [] f.window = 0 /\ Idle <= 0 -> AtLeast(GracePeriod(f, Idle) + 2 * Minute, DefaultActivityWindow)
          [] OTHER -> DefaultActivityWindow
  <2>1. SafetyBuffer(Idle) \in Int
    BY <1>2, <1>3 DEF SafetyBuffer, SafetyBufferDuration, AtMost
  <2>2. default \in Int
    BY <1>1, <1>2, <1>3, <1>5, <2>1 DEF DefaultActivityWindow, MinActivityWindow, AtLeast
  <2>3. 24 * Hour \in Int
    BY <1>3
  <2> HIDE DEF default
  <2>4. ParseDuration(f.window, 24 * Hour, default) \in Int
    BY <1>1, <2>2, <2>3, ParsedIsInt
  <2> QED BY <2>4 DEF ActivityWindow, default
<1>7. MaxProcessAge(f) \in Int
  <2>1. 7 * 24 * Hour \in Int /\ DefaultMaxProcessAge \in Int
    BY <1>3 DEF DefaultMaxProcessAge
  <2> QED BY <1>1, <2>1, ParsedIsInt DEF MaxProcessAge
<1> QED BY <1>4, <1>5, <1>6, <1>7

\* Whatever a file says, the settings stay within the limits.
LEMMA SettingsTightened ==
  ASSUME NEW f \in Files, NEW e, EnvOK(e)
  PROVE  LET set == Resolve(f, e, Idle)
         IN  /\ set.enabled = (e.enabled = "true")
             /\ e.period # 0 => set.period <= e.period
             /\ e.window # 0 => set.window <= e.window
             /\ e.grace # 0 => set.grace <= e.grace
             /\ e.age # 0 => set.age <= e.age
<1>1. /\ f.period \in Int /\ f.window \in Int /\ f.grace \in Int /\ f.age \in Int
      /\ e.period \in Nat /\ e.window \in Nat /\ e.grace \in Nat /\ e.age \in Nat
  BY FileDurations DEF EnvOK
<1>2. /\ e.period # 0 => Ceiling(e.period, f.period, CheckPeriod(f, Idle)) <= e.period
      /\ e.window # 0 => Ceiling(e.window, f.window, ActivityWindow(f, Idle)) <= e.window
      /\ e.grace # 0 => Ceiling(e.grace, f.grace, GracePeriod(f, Idle)) <= e.grace
      /\ e.age # 0 => Ceiling(e.age, f.age, MaxProcessAge(f)) <= e.age
  BY <1>1, ResolvedDurations, CeilingBinds
<1> QED BY <1>2 DEF Resolve

\* A check period that is nothing in whole seconds is the doing of the administrator.
LEMMA ShortPeriod ==
  ASSUME NEW f \in Files, NEW e, EnvOK(e), Resolve(f, e, Idle).period \div Second = 0
  PROVE  e.period \in 1 .. Second - 1 \/ Idle < 4 * Second
<1>1. f.period \in Int /\ f.seconds \in Int /\ e.period \in Nat /\ Idle \in Nat \ {0}
  BY FileDurations, WatcherAssumption DEF EnvOK
<1>2. Second = 1000 /\ Minute = 60000 /\ Hour = 3600000
  BY DEF Second, Minute, Hour
<1>3. CheckPeriod(f, Idle) \in Int
  BY ResolvedDurations
<1>4. Idle >= 4 * Second => CheckPeriod(f, Idle) >= Second
  <2>1. Idle >= 4 * Second => MaxCheckPeriod(Idle) >= Second /\ MaxCheckPeriod(Idle) \in Int
    BY <1>1, <1>2 DEF MaxCheckPeriod, AtMost
  <2>2. ASSUME NEW wanted \in Int PROVE AtLeast(wanted, MinCheckPeriod) \in Int /\ AtLeast(wanted, MinCheckPeriod) >= Second
    BY <1>2 DEF AtLeast, MinCheckPeriod
  <2>3. \A a, b \in Int : a >= Second /\ b >= Second => AtMost(a, b) >= Second
    BY <1>2 DEF AtMost
  <2> DEFINE wanted == IF f.period # 0 THEN ParseDuration(f.period, Hour, DefaultCheckPeriod)
                       ELSE IF f.seconds > 0 THEN f.seconds * Second ELSE DefaultCheckPeriod
  <2>4. wanted \in Int
    <3>1. Hour \in Int /\ DefaultCheckPeriod \in Int
      BY <1>2 DEF DefaultCheckPeriod
    <3>2. ParseDuration(f.period, Hour, DefaultCheckPeriod) \in Int
      BY <1>1, <3>1, ParsedIsInt
    <3> QED BY <1>1, <1>2, <3>1, <3>2
  <2> HIDE DEF wanted
  <2>5. Idle >= 4 * Second => AtMost(AtLeast(wanted, MinCheckPeriod), MaxCheckPeriod(Idle)) >= Second
    BY <2>1, <2>2, <2>3, <2>4
  <2> QED BY <2>5 DEF CheckPeriod, wanted
<1>5. LET p == Ceiling(e.period, f.period, CheckPeriod(f, Idle))
      IN  p \in {e.period, CheckPeriod(f, Idle)} /\ (e.period = 0 => p = CheckPeriod(f, Idle)) /\ p \div Second = 0
  <2>1. Ceiling(e.period, f.period, CheckPeriod(f, Idle)) = Resolve(f, e, Idle).period
    BY DEF Resolve
  <2> QED BY <1>1, <1>3, <2>1, CeilingBinds
<1> QED BY <1>1, <1>2, <1>3, <1>4, <1>5

-----------------------------------------------------------------------------
(***************************************************************************)
(* The invariant.  The environment is fixed before anything is loaded, and *)
(* a configuration comes from a file that was there, or from none.         *)
(***************************************************************************)
FilesInv ==
    /\ files = [p \in Places |-> files[p]]
    /\ \A p \in Places : files[p] # Absent => files[p].content \in Contents \cup {Broken}

ConfigInv == config # NoConfig => \E f \in Files : config.set = Resolve(f, env, Idle)

SettingsInv ==
    /\ FilesInv /\ ConfigInv
    /\ EnvOK(env)
    /\ loop = "off" => config = NoConfig
    /\ CrashIsTheAdmins

settingsVars == <<files, config, env, loop>>

LEMMA ChangeKeepsSettings ==
  ASSUME SettingsInv, NEW p \in Places, NEW file, ChangeFile(p, file),
         file # Absent => file.content \in Contents \cup {Broken}
  PROVE  SettingsInv'
<1>1. UNCHANGED <<config, env, loop>> /\ files' = [files EXCEPT ![p] = file]
  BY DEF ChangeFile
<1>2. FilesInv'
  BY <1>1 DEF SettingsInv, FilesInv
<1> QED BY <1>1, <1>2 DEF SettingsInv, ConfigInv, CrashIsTheAdmins

LEMMA FileKeepsSettings ==
  ASSUME SettingsInv, FileStep
  PROVE  SettingsInv'
<1>1. PICK p \in Places :
        \/ Remove(p)
        \/ \E content \in Contents \cup {Broken} :
              Save(p, content) \/ (\E mtime \in 1 .. changes : MoveIn(p, content, mtime))
  BY DEF FileStep
<1>2. CASE Remove(p)
  BY <1>2, ChangeKeepsSettings DEF Remove
<1>3. ASSUME NEW content \in Contents \cup {Broken}, NEW mtime,
             ChangeFile(p, [mtime |-> mtime, content |-> content])
      PROVE  SettingsInv'
  BY <1>3, ChangeKeepsSettings
<1> QED BY <1>1, <1>2, <1>3 DEF Save, MoveIn

\* Steps of the goroutine that neither load a configuration nor end it.
LEMMA LoopKeepsSettings ==
  ASSUME SettingsInv, UNCHANGED <<files, config, env>>, loop' \notin {"off", "crashed"}
  PROVE  SettingsInv'
BY DEF SettingsInv, FilesInv, ConfigInv, CrashIsTheAdmins

\* Loading takes the settings from a file, or from none.
LEMMA LoadKeepsSettings ==
  ASSUME SettingsInv, UNCHANGED <<files, env>>, loop' = "loaded",
         NEW f \in Files, NEW mtime, NEW fromFile,
         config' = config \/ config' = Loaded(f, mtime, fromFile)
  PROVE  SettingsInv'
<1>1. ConfigInv'
  <2>1. CASE config' = config
    BY <2>1 DEF SettingsInv, ConfigInv
  <2>2. CASE config' = Loaded(f, mtime, fromFile)
    BY <2>2 DEF ConfigInv, Loaded
  <2> QED BY <2>1, <2>2
<1> QED BY <1>1 DEF SettingsInv, FilesInv, CrashIsTheAdmins

LEMMA LoopStepKeepsSettings ==
  ASSUME SettingsInv, LoopStep
  PROVE  SettingsInv'
<1> USE DEF fileVars
<1>1. CASE SelectStop \/ SelectTick \/ LookUpward \/ LookHome \/ StatUnchanged \/ StatChanged
           \/ ReadFails \/ SkipScan \/ BeginScan \/ Scan
  <2>1. UNCHANGED <<files, config, env>> /\ loop' \notin {"off", "crashed"}
    BY <1>1 DEF SelectStop, SelectTick, LookUpward, LookHome, StatUnchanged, StatChanged,
                ReadFails, SkipScan, BeginScan, Scan
  <2> QED BY <2>1, LoopKeepsSettings
<1>2. CASE StatMissing
  <2>1. /\ UNCHANGED <<files, env>> /\ loop' = "loaded"
        /\ config' = config \/ config' = Loaded(NoFile, 0, FALSE)
    BY <1>2 DEF StatMissing
  <2> QED BY <2>1, LoadKeepsSettings DEF Files
<1>3. CASE ReadNew
  <2> DEFINE f == files[reading.path].content
  <2>1. f \in Files
    BY <1>3 DEF ReadNew, Readable, Present, SettingsInv, FilesInv, Files
  <2>2. UNCHANGED <<files, env>> /\ loop' = "loaded" /\ config' = Loaded(f, reading.mtime, TRUE)
    BY <1>3 DEF ReadNew
  <2> HIDE DEF f
  <2> QED BY <2>1, <2>2, LoadKeepsSettings
<1>4. CASE FirstTicker
  <2>1. CASE loop' = "crashed"
    <3>1. /\ UNCHANGED <<files, config, env>>
          /\ (IF config = NoConfig THEN DefaultSeconds ELSE config.set.period \div Second) = 0
      BY <1>4, <2>1 DEF FirstTicker
    <3>2. DefaultSeconds # 0
      BY DEF DefaultSeconds, DefaultCheckPeriod, Second
    <3>3. PICK g \in Files : config.set = Resolve(g, env, Idle)
      BY <3>1, <3>2 DEF SettingsInv, ConfigInv
    <3>4. CrashIsTheAdmins'
      BY <3>1, <3>2, <3>3, ShortPeriod DEF SettingsInv, CrashIsTheAdmins
    <3> QED BY <2>1, <3>1, <3>4 DEF SettingsInv, FilesInv, ConfigInv
  <2>2. CASE loop' # "crashed"
    <3>1. UNCHANGED <<files, config, env>> /\ loop' \notin {"off", "crashed"}
      BY <1>4, <2>2 DEF FirstTicker
    <3> QED BY <3>1, LoopKeepsSettings
  <2> QED BY <2>1, <2>2
<1> QED BY <1>1, <1>2, <1>3, <1>4 DEF LoopStep

LEMMA StartKeepsSettings ==
  ASSUME SettingsInv, NEW given \in Environs, Start(given)
  PROVE  SettingsInv'
<1>1. /\ UNCHANGED <<files, config>> /\ config = NoConfig
      /\ env' = LoadEnv(given) /\ loop' \in {"inert", "load"}
  BY DEF Start, SettingsInv, fileVars
<1> QED BY <1>1, EnvIsUsable DEF SettingsInv, FilesInv, ConfigInv, CrashIsTheAdmins

LEMMA SettingsInvNext == SettingsInv /\ [Next]_vars => SettingsInv'
<1> SUFFICES ASSUME SettingsInv, [Next]_vars PROVE SettingsInv'
  OBVIOUS
<1>1. CASE UNCHANGED settingsVars
  BY <1>1 DEF settingsVars, SettingsInv, FilesInv, ConfigInv, CrashIsTheAdmins
<1>2. CASE Pass \/ ActivityStep \/ ManagerStep \/ UNCHANGED vars
  <2>1. UNCHANGED settingsVars
    BY <1>2 DEF Pass, Elapse, ActivityStep, SetBusy, ManagerStep, vars, wvars, fileVars, settingsVars
  <2> QED BY <1>1, <2>1
<1>3. CASE EnvironmentStep
  <2>1. CASE FileStep
    BY <2>1, FileKeepsSettings
  <2>2. CASE \E given \in Environs : Start(given)
    BY <2>2, StartKeepsSettings
  <2>3. CASE StopWatcher
    BY <1>1, <2>3 DEF StopWatcher, fileVars, settingsVars
  <2> QED BY <1>3, <2>1, <2>2, <2>3 DEF EnvironmentStep
<1>4. CASE WatcherStep
  BY <1>4, LoopStepKeepsSettings DEF WatcherStep
<1>5. CASE ReportStep
  <2>1. UNCHANGED <<files, config, env>> /\ loop' \notin {"off", "crashed"}
    BY <1>5 DEF ReportStep, Report, fileVars
  <2> QED BY <2>1, LoopKeepsSettings
<1> QED BY <1>2, <1>3, <1>4, <1>5 DEF Next

LEMMA SettingsInvCorrect == Spec => []SettingsInv
<1>1. Init => SettingsInv
  <2> SUFFICES ASSUME Init PROVE SettingsInv
    OBVIOUS
  <2>1. /\ files = [p \in Places |-> Absent] /\ config = NoConfig /\ loop = "off"
        /\ env = LoadEnv([enabled |-> "unset", period |-> 0, window |-> 0, grace |-> 0, age |-> 0])
    BY DEF Init, WInit
  <2>2. EnvOK(env)
    BY <2>1 DEF LoadEnv, EnvDuration, ParseDuration, EnvOK
  <2> QED BY <2>1, <2>2 DEF SettingsInv, FilesInv, ConfigInv, CrashIsTheAdmins
<1> QED BY <1>1, SettingsInvNext, PTL DEF Spec

\* The settings in force never go beyond the limits of the administrator, and
\* detection is on exactly when he says so, whatever the files say and said.
THEOREM TheUserOnlyTightens == Spec => []UserOnlyTightens
<1>1. SettingsInv => UserOnlyTightens
  <2> SUFFICES ASSUME SettingsInv, config # NoConfig
               PROVE  /\ config.set.enabled = (env.enabled = "true")
                      /\ env.period # 0 => config.set.period <= env.period
                      /\ env.window # 0 => config.set.window <= env.window
                      /\ env.grace # 0 => config.set.grace <= env.grace
                      /\ env.age # 0 => config.set.age <= env.age
    BY DEF UserOnlyTightens
  <2>1. PICK f \in Files : config.set = Resolve(f, env, Idle)
    BY DEF SettingsInv, ConfigInv
  <2> QED BY <2>1, SettingsTightened DEF SettingsInv
<1> QED BY <1>1, SettingsInvCorrect, PTL

\* No content of a .noidle file, however it is changed, makes the watcher die of a
\* ticker without a period.
THEOREM NoFileCrashesTheWatcher == Spec => []CrashIsTheAdmins
<1>1. SettingsInv => CrashIsTheAdmins
  BY DEF SettingsInv
<1> QED BY <1>1, SettingsInvCorrect, PTL

-----------------------------------------------------------------------------
(***************************************************************************)
(* The configuration and the files.  A modification time is remembered     *)
(* only of a file that counted, or was looked at in place of one that      *)
(* counts by now; as long as the file that counts is later than all of     *)
(* these, it has been read if its time is remembered.                      *)
(***************************************************************************)
LEMMA LeastIndex ==
  ASSUME NEW T, T \subseteq Nat, T # {}
  PROVE  \E x \in T : \A y \in T : x <= y
<1> DEFINE D == {0 .. x : x \in T}
           R == StrictSubsetOrdering(Nat)
<1>1. D \subseteq FiniteSubsetsOf(Nat) /\ D # {}
  <2>1. ASSUME NEW x \in T PROVE 0 .. x \in FiniteSubsetsOf(Nat)
    <3>1. x \in Int /\ 0 \in Int /\ 0 .. x \in SUBSET Nat
      OBVIOUS
    <3> QED BY <3>1, FS_Interval DEF FiniteSubsetsOf
  <2> QED BY <2>1
<1>2. PICK d \in D : \A e \in D : <<e, d>> \notin R
  BY <1>1, FS_StrictSubsetOrderingWellFounded, WFMin
<1>3. PICK x \in T : d = 0 .. x
  OBVIOUS
<1>4. ASSUME NEW y \in T, ~(x <= y) PROVE FALSE
  <2>1. 0 .. y \in SUBSET Nat /\ 0 .. x \in SUBSET Nat /\ 0 .. y \subseteq 0 .. x
    BY <1>4
  <2>2. x \in 0 .. x /\ x \notin 0 .. y
    BY <1>4
  <2>3. <<0 .. y, 0 .. x>> \in R
    BY <2>1, <2>2 DEF StrictSubsetOrdering
  <2> QED BY <1>2, <1>3, <2>3
<1> QED BY <1>4

\* The file that is found is there.
LEMMA FoundIsThere ==
  ASSUME NEW fs
  PROVE  /\ FoundIn(fs) # None => FoundIn(fs) \in Places /\ fs[FoundIn(fs)] # Absent
         /\ None \notin Places
<1> DEFINE present == {p \in Places : fs[p] # Absent}
           hits    == {i \in Visited(Path, Stop) : Path[i] \in present}
           found   == FindUpward(Path, Stop, present)
<1>1. None \notin Places /\ hits \subseteq Nat
  BY WatcherAssumption DEF Visited
<1>2. found = None \/ found \in present
  <2>1. CASE hits = {}
    BY <2>1 DEF FindUpward
  <2>2. CASE hits # {}
    <3>1. \E i \in hits : \A j \in hits : i <= j
      BY <1>1, <2>2, LeastIndex
    <3>2. found = Path[CHOOSE i \in hits : \A j \in hits : i <= j]
      BY <2>2 DEF FindUpward
    <3> QED BY <3>1, <3>2
  <2> QED BY <2>1, <2>2
<1>3. FoundIn(fs) = IF found # None THEN found ELSE IF Home # None /\ Home \in present THEN Home ELSE None
  BY DEF FoundIn, ConfigPath
<1> QED BY <1>1, <1>2, <1>3

\* The directories visited are the first so many of the path.
LEMMA VisitedFirst ==
  /\ Visited(Path, Stop) \subseteq Nat \ {0} /\ 1 \in Visited(Path, Stop)
  /\ \A i \in Visited(Path, Stop) : \A j \in 1 .. i : j \in Visited(Path, Stop)
  /\ \A i \in Visited(Path, Stop) : Path[i] \in Places
BY WatcherAssumption DEF Visited, maxIterations

\* The first of them with a file is the one whose file counts ...
LEMMA FirstIsFound ==
  ASSUME NEW fs, NEW i \in Visited(Path, Stop), fs[Path[i]] # Absent,
         \A j \in Visited(Path, Stop) : j < i => fs[Path[j]] = Absent
  PROVE  FoundIn(fs) = Path[i]
<1> DEFINE present == {p \in Places : fs[p] # Absent}
           hits    == {j \in Visited(Path, Stop) : Path[j] \in present}
           least   == CHOOSE k \in hits : \A j \in hits : k <= j
<1>1. hits \subseteq Nat /\ i \in hits /\ Path[i] # None
  BY VisitedFirst, WatcherAssumption
<1>2. \A j \in hits : i <= j
  BY <1>1
<1>3. least \in hits /\ \A j \in hits : least <= j
  BY <1>1, <1>2
<1>4. least = i
  BY <1>1, <1>2, <1>3
<1>5. FindUpward(Path, Stop, present) = Path[least]
  BY <1>1 DEF FindUpward
<1> QED BY <1>1, <1>4, <1>5 DEF FoundIn, ConfigPath

\* ... and without one it is the file in the home directory, if there is one.
LEMMA HomeIsFound ==
  ASSUME NEW fs, \A j \in Visited(Path, Stop) : fs[Path[j]] = Absent
  PROVE  FoundIn(fs) = IF Home \in {p \in Places : fs[p] # Absent} THEN Home ELSE None
<1> DEFINE present == {p \in Places : fs[p] # Absent}
<1>1. FindUpward(Path, Stop, present) = None
  BY DEF FindUpward
<1>2. Home \in present => Home # None
  BY WatcherAssumption
<1> QED BY <1>1, <1>2 DEF FoundIn, ConfigPath

Environments == {LoadEnv(given) : given \in Environs}

LEMMA LoadedIsConfig ==
  ASSUME NEW f \in Files, NEW mtime \in Nat, NEW fromFile \in BOOLEAN, env \in Environments
  PROVE  /\ Loaded(f, mtime, fromFile) \in Configs /\ Loaded(f, mtime, fromFile) # NoConfig
         /\ Loaded(f, mtime, fromFile).mtime = mtime /\ Loaded(f, mtime, fromFile).fromFile = fromFile
         /\ Loaded(f, mtime, fromFile).set = Resolve(f, env, Idle)
<1>1. PICK given \in Environs : env = LoadEnv(given)
  BY DEF Environments
<1> DEFINE set == Resolve(f, env, Idle)
<1>2. set \in {Resolve(file, LoadEnv(g), Idle) : file \in Contents \cup {NoFile}, g \in Environs}
  BY <1>1 DEF Files
<1>3. Loaded(f, mtime, fromFile) = [fromFile |-> fromFile, mtime |-> mtime, set |-> set]
  BY DEF Loaded
<1> HIDE DEF set
<1>4. Loaded(f, mtime, fromFile) \in Configs
  BY <1>2, <1>3 DEF Configs
<1> QED BY <1>3, <1>4, WatcherAssumption DEF set

FileTimes ==
    /\ changes \in Nat /\ newest \in Nat
    /\ \A p \in Places : files[p] # Absent => files[p].mtime \in Nat \ {0}

\* No file that counts is later than newest, and one that is not said to be rewound
\* is exactly that.
CountingInv ==
    FoundIn(files) # None =>
        /\ TimeIn(files) <= newest
        /\ ~rewound => TimeIn(files) = newest

ConfigTypes ==
    /\ loop # "off" => env \in Environments
    /\ config \in Configs \cup {NoConfig}
    /\ reading.mtime \in Nat

\* What is remembered of the time of a file; without a file it is 0.
RememberedInv ==
    config # NoConfig =>
        /\ config.mtime <= newest
        /\ ~config.fromFile => config = Loaded(NoFile, 0, FALSE)

ReadInv ==
    config # NoConfig /\ FoundIn(files) # None /\ ~rewound /\ config.mtime = newest
        /\ files[FoundIn(files)].content # Broken
    => config.fromFile /\ config.set = Resolve(files[FoundIn(files)].content, env, Idle)

\* The places looked at so far have no file, and the place found is that of the file
\* that counts, as long as no file changes.  A file about to be read that does not
\* count is the earlier one.
LookingInv ==
    /\ reading.next \in Nat \ {0}
    /\ loop \notin {"load", "stat", "read"} => reading = NoReading
    /\ loop = "load" => reading = [next |-> reading.next, path |-> None, mtime |-> 0]
    /\ stable /\ loop = "load" =>
          \A i \in Visited(Path, Stop) : i < reading.next => files[Path[i]] = Absent
    /\ stable /\ loop \in {"stat", "read"} => reading.path = FoundIn(files)
    /\ loop = "read" =>
          /\ reading.path # None /\ reading.mtime <= newest
          /\ ~rewound /\ FoundIn(files) # None /\ reading.mtime = newest => reading.path = FoundIn(files)

FollowInv ==
    /\ FileTimes /\ CountingInv /\ ConfigTypes /\ RememberedInv /\ ReadInv /\ LookingInv
    /\ ConfigFollowsSavedFile

\* The times of the files are numbers.
LEMMA TimesAreNumbers ==
  ASSUME NEW fs, \A p \in Places : fs[p] # Absent => fs[p].mtime \in Nat \ {0}
  PROVE  /\ TimeIn(fs) \in Nat
         /\ FoundIn(fs) # None => TimeIn(fs) # 0 /\ TimeIn(fs) = fs[FoundIn(fs)].mtime
BY FoundIsThere DEF TimeIn

LEMMA ChangeKeepsFollow ==
  ASSUME FollowInv, NEW p \in Places, NEW file, ChangeFile(p, file),
         FilesInv, FilesInv',
         file # Absent => file.mtime \in Nat \ {0}
  PROVE  FollowInv'
<1> DEFINE fs == [files EXCEPT ![p] = file]
           F == FoundIn(files)
           G == FoundIn(fs)
           same == G = F /\ G # p
           T == TimeIn(fs)
<1>1. /\ files' = fs /\ stable' = FALSE /\ changes' = changes + 1
      /\ rewound' = (G # None /\ (IF same THEN rewound ELSE T <= newest))
      /\ newest' = AtLeast(newest, T)
      /\ UNCHANGED <<loop, env, config, reading>>
  BY DEF ChangeFile
<1>2. /\ \A q \in Places : fs[q] # Absent => fs[q].mtime \in Nat \ {0}
      /\ \A q \in Places \ {p} : fs[q] = files[q]
  BY DEF FollowInv, FileTimes, FilesInv
<1>3. /\ newest \in Nat /\ T \in Nat /\ TimeIn(files) \in Nat
      /\ G # None => T # 0 /\ T = fs[G].mtime /\ G \in Places
      /\ F # None => TimeIn(files) = files[F].mtime
  BY <1>2, TimesAreNumbers, FoundIsThere DEF FollowInv, FileTimes
<1>4. FoundIn(files)' = G /\ TimeIn(files)' = T
  BY <1>1 DEF FoundIn, TimeIn
<1>5. same /\ G # None => T = TimeIn(files) /\ fs[G] = files[G]
  BY <1>2, <1>3
<1> HIDE DEF fs, F, G, T
<1>7. newest' \in Nat /\ newest <= newest' /\ T <= newest' /\ newest' \in {newest, T}
  BY <1>1, <1>3 DEF AtLeast
<1>8. ASSUME ~rewound', G # None
      PROVE  /\ newest' = T
             /\ same => ~rewound /\ newest = newest'
             /\ ~same => newest < newest'
  <2> DEFINE old == T <= newest
  <2>0. IF same THEN ~rewound ELSE ~old
    <3> HIDE DEF old, same
    <3>1. rewound' = (G # None /\ (IF same THEN rewound ELSE old))
      BY <1>1 DEF old
    <3> QED BY <1>8, <3>1, Zenon
  <2>1. CASE same
    <3>1. ~rewound /\ T = newest
      BY <1>5, <1>8, <2>0, <2>1 DEF FollowInv, CountingInv, F
    <3> QED BY <1>3, <1>7, <2>1, <3>1
  <2>2. CASE ~same
    <3>1. newest < T
      BY <1>3, <2>0, <2>2
    <3> QED BY <1>3, <1>7, <2>2, <3>1
  <2> QED BY <2>1, <2>2
<1>9. FileTimes'
  BY <1>1, <1>2, <1>7 DEF FollowInv, FileTimes
<1>10. CountingInv'
  BY <1>4, <1>7, <1>8 DEF CountingInv
<1>11. ConfigTypes'
  BY <1>1 DEF FollowInv, ConfigTypes
<1>12. config # NoConfig => config.mtime \in Nat /\ config.mtime <= newest
  BY DEF FollowInv, ConfigTypes, RememberedInv, Configs
<1>13. RememberedInv'
  BY <1>1, <1>3, <1>7, <1>12 DEF FollowInv, RememberedInv, Loaded
<1>14. ReadInv'
  <2> SUFFICES ASSUME config # NoConfig, G # None, ~rewound', config.mtime = newest', fs[G].content # Broken
               PROVE  config.fromFile /\ config.set = Resolve(fs[G].content, env, Idle)
    BY <1>1, <1>4 DEF ReadInv
  <2>1. same /\ ~rewound /\ newest = newest'
    BY <1>3, <1>7, <1>8, <1>12
  <2>2. fs[G] = files[G] /\ F = G
    BY <1>5, <2>1
  <2> QED BY <2>1, <2>2 DEF FollowInv, ReadInv, F
<1>15. LookingInv'
  <2>1. ASSUME loop = "read"
        PROVE  /\ reading.path # None /\ reading.mtime <= newest'
               /\ ~rewound' /\ G # None /\ reading.mtime = newest' => reading.path = G
    <3>1. reading.mtime \in Nat /\ reading.mtime <= newest /\ reading.path # None
      BY <2>1 DEF FollowInv, ConfigTypes, LookingInv
    <3>2. ASSUME ~rewound', G # None, reading.mtime = newest' PROVE reading.path = G
      <4>1. same /\ ~rewound /\ newest = newest'
        BY <1>3, <1>7, <1>8, <3>1, <3>2
      <4> QED BY <2>1, <3>2, <4>1 DEF FollowInv, LookingInv, F
    <3> QED BY <1>3, <1>7, <3>1, <3>2
  <2>2. /\ reading.next \in Nat \ {0} /\ (loop \notin {"load", "stat", "read"} => reading = NoReading)
        /\ loop = "load" => reading = [next |-> reading.next, path |-> None, mtime |-> 0]
    BY DEF FollowInv, LookingInv
  <2> QED BY <1>1, <1>4, <2>1, <2>2 DEF LookingInv
<1>16. ConfigFollowsSavedFile'
  BY <1>1 DEF ConfigFollowsSavedFile, UpToDate
<1> QED BY <1>9, <1>10, <1>11, <1>13, <1>14, <1>15, <1>16 DEF FollowInv

LEMMA FileKeepsFollow ==
  ASSUME FollowInv, SettingsInv, SettingsInv', FileStep
  PROVE  FollowInv'
<1>1. PICK p \in Places :
        \/ Remove(p)
        \/ \E content \in Contents \cup {Broken} :
              Save(p, content) \/ (\E mtime \in 1 .. changes : MoveIn(p, content, mtime))
  BY DEF FileStep
<1>2. FilesInv /\ FilesInv' /\ changes \in Nat
  BY DEF SettingsInv, FollowInv, FileTimes
<1>3. CASE Remove(p)
  BY <1>2, <1>3, ChangeKeepsFollow DEF Remove
<1>4. ASSUME NEW content, NEW mtime \in Nat \ {0}, ChangeFile(p, [mtime |-> mtime, content |-> content])
      PROVE  FollowInv'
  BY <1>2, <1>4, ChangeKeepsFollow
<1>5. changes + 1 \in Nat \ {0} /\ 1 .. changes \subseteq Nat \ {0}
  BY <1>2
<1> QED BY <1>1, <1>3, <1>4, <1>5 DEF Save, MoveIn

followVars == <<files, changes, newest, rewound, env, config, reading, stable, loop>>

LEMMA SameKeepsFollow ==
  ASSUME FollowInv, UNCHANGED followVars
  PROVE  FollowInv'
BY DEF followVars, FollowInv, FileTimes, CountingInv, ConfigTypes, RememberedInv, ReadInv, LookingInv,
       ConfigFollowsSavedFile, UpToDate, Follows, FoundIn, TimeIn, Loaded

\* Steps of the goroutine between two loads.
LEMMA RestKeepsFollow ==
  ASSUME FollowInv, UNCHANGED <<files, changes, newest, rewound, env, config, reading, stable>>,
         loop \notin {"off", "load", "stat", "read"}, loop' \notin {"stat", "read"},
         loop' \in {"loaded", "scanning", "ticking", "select"} =>
             loop \in {"loaded", "scanning", "ticking", "select"}
  PROVE  FollowInv'
<1>1. reading = NoReading /\ reading.next = 1
  BY DEF FollowInv, LookingInv, NoReading
<1>2. \A i \in Visited(Path, Stop) : ~(i < 1)
  BY VisitedFirst
<1> QED BY <1>1, <1>2 DEF FollowInv, FileTimes, CountingInv, ConfigTypes, RememberedInv, ReadInv, LookingInv,
       ConfigFollowsSavedFile, UpToDate, Follows, FoundIn, TimeIn, Loaded, NoReading

\* A load that has come to its end.
LEMMA LoadKeepsFollow ==
  ASSUME FollowInv, UNCHANGED <<files, changes, newest, rewound, env, stable>>,
         loop # "off", loop' = "loaded", reading' = NoReading,
         config' \in Configs \cup {NoConfig},
         RememberedInv', ReadInv', stable /\ ~rewound => Follows'
  PROVE  FollowInv'
<1>1. FoundIn(files)' = FoundIn(files) /\ TimeIn(files)' = TimeIn(files)
  BY DEF FoundIn, TimeIn
<1>2. FileTimes' /\ CountingInv' /\ ConfigTypes'
  BY <1>1 DEF FollowInv, FileTimes, CountingInv, ConfigTypes, NoReading
<1>3. LookingInv' /\ ConfigFollowsSavedFile'
  BY DEF LookingInv, ConfigFollowsSavedFile, UpToDate, NoReading
<1> QED BY <1>2, <1>3 DEF FollowInv

\* One look of getConfigPath.
LEMMA LookKeepsFollow ==
  ASSUME FollowInv, UNCHANGED <<files, changes, newest, rewound, env, config>>, loop = "load",
         reading' \in [next : Nat \ {0}, path : {None} \cup Places, mtime : {0}],
         \/ /\ loop' = "load" /\ reading'.path = None
            /\ stable' => \A i \in Visited(Path, Stop) : i < reading'.next => files[Path[i]] = Absent
         \/ loop' = "stat" /\ (stable' => reading'.path = FoundIn(files))
  PROVE  FollowInv'
<1>1. FoundIn(files)' = FoundIn(files) /\ TimeIn(files)' = TimeIn(files)
  BY DEF FoundIn, TimeIn
<1>2. FileTimes' /\ CountingInv' /\ ConfigTypes' /\ RememberedInv' /\ ReadInv'
  BY <1>1 DEF FollowInv, FileTimes, CountingInv, ConfigTypes, RememberedInv, ReadInv, Loaded
<1>3. reading' = [next |-> reading'.next, path |-> reading'.path, mtime |-> 0] /\ reading'.next \in Nat \ {0}
  OBVIOUS
<1>4. LookingInv' /\ ConfigFollowsSavedFile'
  BY <1>1, <1>3 DEF LookingInv, ConfigFollowsSavedFile, UpToDate
<1> QED BY <1>2, <1>4 DEF FollowInv

LEMMA LookUpwardKeepsFollow ==
  ASSUME FollowInv, LookUpward
  PROVE  FollowInv'
<1> DEFINE i == reading.next
<1>1. /\ UNCHANGED <<files, changes, newest, rewound, env, config>>
      /\ loop = "load" /\ i \in Visited(Path, Stop)
      /\ IF Path[i] \in Present
           THEN loop' = "stat" /\ reading' = [NoReading EXCEPT !.path = Path[i]]
           ELSE reading' = [reading EXCEPT !.next = @ + 1] /\ loop' = loop
      /\ stable' = (stable \/ i = 1)
  BY DEF LookUpward, fileVars
<1>2. i \in Nat \ {0} /\ Path[i] \in Places /\ Visited(Path, Stop) \subseteq Nat \ {0}
  BY <1>1, VisitedFirst
<1>3. reading = [next |-> i, path |-> None, mtime |-> 0]
  BY <1>1 DEF FollowInv, LookingInv
<1>4. stable' => \A j \in Visited(Path, Stop) : j < i => files[Path[j]] = Absent
  <2>1. i = 1 => \A j \in Visited(Path, Stop) : ~(j < i)
    BY <1>2
  <2>2. stable => \A j \in Visited(Path, Stop) : j < i => files[Path[j]] = Absent
    BY <1>1 DEF FollowInv, LookingInv
  <2> QED BY <1>1, <2>1, <2>2
<1>5. CASE Path[i] \in Present
  <2>1. loop' = "stat" /\ reading' = [next |-> 1, path |-> Path[i], mtime |-> 0]
    BY <1>1, <1>5 DEF NoReading
  <2>2. stable' => Path[i] = FoundIn(files)
    BY <1>1, <1>4, <1>5, FirstIsFound DEF Present
  <2> QED BY <1>1, <1>2, <2>1, <2>2, LookKeepsFollow
<1>6. CASE Path[i] \notin Present
  <2>1. loop' = "load" /\ reading' = [next |-> i + 1, path |-> None, mtime |-> 0]
    BY <1>1, <1>3, <1>6
  <2>2. stable' => \A j \in Visited(Path, Stop) : j < i + 1 => files[Path[j]] = Absent
    BY <1>2, <1>4, <1>6 DEF Present
  <2>3. reading' \in [next : Nat \ {0}, path : {None} \cup Places, mtime : {0}] /\ reading'.next = i + 1
    BY <1>2, <2>1
  <2> HIDE DEF i
  <2> QED BY <1>1, <2>1, <2>2, <2>3, LookKeepsFollow
<1> QED BY <1>5, <1>6

LEMMA LookHomeKeepsFollow ==
  ASSUME FollowInv, LookHome
  PROVE  FollowInv'
<1> DEFINE path == IF Home \in Present THEN Home ELSE None
<1>1. /\ UNCHANGED <<files, changes, newest, rewound, env, config, stable>>
      /\ loop = "load" /\ reading.next \notin Visited(Path, Stop)
      /\ loop' = "stat" /\ reading' = [NoReading EXCEPT !.path = path]
  BY DEF LookHome, fileVars
<1>2. path \in {None} \cup Places
  BY DEF Present
<1> HIDE DEF path
<1>3. reading' = [next |-> 1, path |-> path, mtime |-> 0]
  BY <1>1 DEF NoReading
<1>4. \A j \in Visited(Path, Stop) : j < reading.next
  <2> SUFFICES ASSUME NEW j \in Visited(Path, Stop), ~(j < reading.next) PROVE FALSE
    OBVIOUS
  <2>1. j \in Nat /\ reading.next \in Nat \ {0}
    BY VisitedFirst DEF FollowInv, LookingInv
  <2>2. reading.next \in 1 .. j
    BY <2>1
  <2> QED BY <1>1, <2>2, VisitedFirst
<1>5. ASSUME stable PROVE path = FoundIn(files)
  <2>1. \A j \in Visited(Path, Stop) : files[Path[j]] = Absent
    BY <1>1, <1>4, <1>5 DEF FollowInv, LookingInv
  <2> QED BY <2>1, HomeIsFound DEF path, Present
<1>6. reading' \in [next : Nat \ {0}, path : {None} \cup Places, mtime : {0}] /\ reading'.path = path
  BY <1>2, <1>3
<1>7. stable' => reading'.path = FoundIn(files)
  BY <1>1, <1>5, <1>6
<1> QED BY <1>1, <1>6, <1>7, LookKeepsFollow

LEMMA StatMissingKeepsFollow ==
  ASSUME FollowInv, StatMissing
  PROVE  FollowInv'
<1> DEFINE none == Loaded(NoFile, 0, FALSE)
<1>1. /\ UNCHANGED <<files, changes, newest, rewound, env, stable>>
      /\ loop = "stat" /\ loop' = "loaded" /\ reading' = NoReading /\ Gone(reading.path)
      /\ config' = IF config # NoConfig /\ ~config.fromFile THEN config ELSE none
  BY DEF StatMissing, fileVars
<1>2. none \in Configs /\ none # NoConfig /\ none.mtime = 0 /\ none.fromFile = FALSE
  BY <1>1, LoadedIsConfig DEF FollowInv, ConfigTypes, Files
<1>3. none' = none
  BY <1>1 DEF Loaded
<1>4. config' = none
  BY <1>1 DEF FollowInv, RememberedInv
<1> HIDE DEF none
<1>5. RememberedInv'
  <2>1. config' = Loaded(NoFile, 0, FALSE)'
    BY <1>3, <1>4 DEF none
  <2>2. config'.mtime <= newest'
    BY <1>1, <1>2, <1>4 DEF FollowInv, FileTimes
  <2> QED BY <2>1, <2>2 DEF RememberedInv
<1>6. ReadInv'
  <2>1. FoundIn(files) # None => newest # 0
    BY TimesAreNumbers DEF FollowInv, FileTimes, CountingInv
  <2> QED BY <1>1, <1>2, <1>4, <2>1 DEF ReadInv, FoundIn
<1>7. stable => Follows'
  <2> SUFFICES ASSUME stable PROVE Follows'
    OBVIOUS
  <2>1. reading.path = FoundIn(files)
    BY <1>1 DEF FollowInv, LookingInv
  <2>2. FoundIn(files) = None
    BY <1>1, <2>1, FoundIsThere DEF Gone, Present
  <2> QED BY <1>1, <1>3, <1>4, <2>2 DEF Follows, FoundIn, none
<1> QED BY <1>1, <1>2, <1>4, <1>5, <1>6, <1>7, LoadKeepsFollow

LEMMA StatUnchangedKeepsFollow ==
  ASSUME FollowInv, StatUnchanged
  PROVE  FollowInv'
<1> DEFINE F == FoundIn(files)
<1>1. /\ UNCHANGED <<files, changes, newest, rewound, env, stable, config>>
      /\ loop = "stat" /\ loop' = "loaded" /\ reading' = NoReading
      /\ ~Gone(reading.path) /\ ~IsNewer(reading.path)
  BY DEF StatUnchanged, fileVars
<1>2. RememberedInv' /\ ReadInv' /\ config' \in Configs \cup {NoConfig}
  BY <1>1 DEF FollowInv, RememberedInv, ReadInv, ConfigTypes, FoundIn, Loaded
<1>3. ASSUME stable, ~rewound PROVE Follows
  <2>1. reading.path = F /\ F # None
    BY <1>1, <1>3, FoundIsThere DEF FollowInv, LookingInv, Gone, Present
  <2>2. config # NoConfig /\ TimeIn(files) <= config.mtime
    BY <1>1, <2>1 DEF IsNewer, TimeIn
  <2>3. TimeIn(files) = newest /\ config.mtime <= newest /\ newest \in Nat /\ config.mtime \in Nat
    BY <1>3, <2>1, <2>2 DEF FollowInv, CountingInv, RememberedInv, FileTimes, ConfigTypes, Configs
  <2>4. config.mtime = newest
    BY <2>2, <2>3
  <2> QED BY <1>3, <2>1, <2>2, <2>4 DEF FollowInv, ReadInv, Follows
<1>4. stable /\ ~rewound => Follows'
  BY <1>1, <1>3 DEF Follows, FoundIn, Loaded
<1> QED BY <1>1, <1>2, <1>4, LoadKeepsFollow

LEMMA StatChangedKeepsFollow ==
  ASSUME FollowInv, StatChanged
  PROVE  FollowInv'
<1> DEFINE mtime == files[reading.path].mtime
           F     == FoundIn(files)
           T     == TimeIn(files)
           other == F \notin {None, reading.path}
<1>1. /\ UNCHANGED <<files, changes, env, stable, config>>
      /\ loop = "stat" /\ loop' = "read" /\ ~Gone(reading.path)
      /\ reading' = [reading EXCEPT !.mtime = mtime]
      /\ newest' = AtLeast(newest, mtime)
      /\ rewound' = (rewound \/ (other /\ T <= mtime))
  BY DEF StatChanged
<1>2. reading.path \in Places /\ reading.path # None /\ mtime \in Nat
  BY <1>1, FoundIsThere DEF Gone, Present, FollowInv, FileTimes
<1>3. F # None => T = files[F].mtime
  BY DEF TimeIn
<1>4. FoundIn(files)' = F /\ TimeIn(files)' = T
  BY <1>1 DEF FoundIn, TimeIn
<1>5. /\ newest \in Nat /\ T \in Nat
      /\ F # None => T <= newest /\ (~rewound => T = newest)
  BY TimesAreNumbers DEF FollowInv, FileTimes, CountingInv
<1>6. reading.next \in Nat \ {0} /\ (stable => reading.path = F)
  BY <1>1 DEF FollowInv, LookingInv
<1>7. F = reading.path => T = mtime
  BY <1>2, <1>3
<1>8. /\ reading'.path = reading.path /\ reading'.next = reading.next /\ reading'.mtime = mtime
  BY <1>1, <1>2 DEF FollowInv, ConfigTypes, LookingInv
<1>9. ConfigTypes'
  BY <1>1, <1>2, <1>8 DEF FollowInv, ConfigTypes
<1>10. config # NoConfig => config.mtime \in Nat /\ config.mtime <= newest
  BY DEF FollowInv, ConfigTypes, RememberedInv, Configs
<1> HIDE DEF mtime, F, T
<1>11. newest' \in Nat /\ newest <= newest' /\ mtime <= newest' /\ newest' \in {newest, mtime}
  BY <1>1, <1>2, <1>5 DEF AtLeast
<1>12. ASSUME ~rewound', F # None
       PROVE  T = newest /\ newest' = newest /\ (reading.path # F => mtime < newest) /\ ~rewound
  <2>0. ~rewound /\ ~(other /\ T <= mtime)
    BY <1>1, <1>12, Zenon
  <2>1. T = newest
    BY <1>5, <1>12, <2>0
  <2>2. CASE reading.path = F
    BY <1>5, <1>7, <1>11, <2>0, <2>1, <2>2
  <2>3. CASE reading.path # F
    <3>1. mtime < T
      BY <1>2, <1>5, <1>12, <2>0, <2>3
    <3> QED BY <1>2, <1>5, <1>11, <2>0, <2>1, <3>1
  <2> QED BY <2>2, <2>3
<1>13. FileTimes' /\ CountingInv'
  BY <1>1, <1>4, <1>5, <1>11, <1>12 DEF FollowInv, FileTimes, CountingInv
<1>14. RememberedInv'
  BY <1>1, <1>5, <1>10, <1>11 DEF FollowInv, RememberedInv, Loaded
<1>15. ReadInv'
  <2> SUFFICES ASSUME config # NoConfig, F # None, ~rewound', config.mtime = newest', files[F].content # Broken
               PROVE  config.fromFile /\ config.set = Resolve(files[F].content, env, Idle)
    BY <1>1, <1>4 DEF ReadInv
  <2> QED BY <1>12 DEF FollowInv, ReadInv, F
<1>16. LookingInv' /\ ConfigFollowsSavedFile'
  <2>1. ~rewound' /\ F # None /\ mtime = newest' => reading.path = F
    BY <1>2, <1>5, <1>12
  <2> QED BY <1>1, <1>2, <1>4, <1>6, <1>8, <1>11, <2>1 DEF LookingInv, ConfigFollowsSavedFile, UpToDate
<1> QED BY <1>9, <1>13, <1>14, <1>15, <1>16 DEF FollowInv

LEMMA ReadFailsKeepsFollow ==
  ASSUME FollowInv, ReadFails
  PROVE  FollowInv'
<1>1. /\ UNCHANGED <<files, changes, newest, rewound, env, stable, config>>
      /\ loop = "read" /\ loop' = "loaded" /\ reading' = NoReading /\ ~Readable(reading.path)
  BY DEF ReadFails, fileVars
<1>2. RememberedInv' /\ ReadInv' /\ config' \in Configs \cup {NoConfig}
  BY <1>1 DEF FollowInv, RememberedInv, ReadInv, ConfigTypes, FoundIn, Loaded
<1>3. ASSUME stable, ~rewound PROVE Follows'
  <2>1. reading.path = FoundIn(files)
    BY <1>1, <1>3 DEF FollowInv, LookingInv
  <2>2. FoundIn(files) # None => files[FoundIn(files)].content = Broken
    BY <1>1, <2>1, FoundIsThere DEF Readable, Present
  <2>3. CASE FoundIn(files) # None
    BY <1>1, <2>2, <2>3 DEF Follows, FoundIn
  <2>4. CASE FoundIn(files) = None
    BY <1>1, <1>3, <2>1, <2>4 DEF FollowInv, LookingInv
  <2> QED BY <2>3, <2>4
<1> QED BY <1>1, <1>2, <1>3, LoadKeepsFollow

LEMMA ReadNewKeepsFollow ==
  ASSUME FollowInv, FilesInv, ReadNew
  PROVE  FollowInv'
<1> DEFINE f == files[reading.path].content
           new == Loaded(f, reading.mtime, TRUE)
<1>1. /\ UNCHANGED <<files, changes, newest, rewound, env, stable>>
      /\ loop = "read" /\ loop' = "loaded" /\ reading' = NoReading /\ Readable(reading.path)
      /\ config' = new
  BY DEF ReadNew, fileVars
<1>2. f \in Files /\ reading.mtime \in Nat /\ env \in Environments
  BY <1>1 DEF Readable, Present, FilesInv, Files, FollowInv, ConfigTypes
<1>3. /\ new \in Configs /\ new # NoConfig /\ new.mtime = reading.mtime /\ new.fromFile = TRUE
      /\ new.set = Resolve(f, env, Idle)
  <2> HIDE DEF f
  <2> QED BY <1>2, LoadedIsConfig
<1> HIDE DEF new
<1>4. RememberedInv'
  BY <1>1, <1>3 DEF FollowInv, LookingInv, RememberedInv
<1>5. ReadInv'
  <2> SUFFICES ASSUME FoundIn(files) # None, ~rewound, reading.mtime = newest
               PROVE  reading.path = FoundIn(files)
    BY <1>1, <1>3 DEF ReadInv, FoundIn
  <2> QED BY <1>1 DEF FollowInv, LookingInv
<1>6. stable => Follows'
  <2> SUFFICES ASSUME stable PROVE Follows'
    OBVIOUS
  <2>1. reading.path = FoundIn(files) /\ FoundIn(files) # None
    BY <1>1, FoundIsThere DEF FollowInv, LookingInv, Readable, Present
  <2> QED BY <1>1, <1>3, <2>1 DEF Follows, FoundIn
<1> QED BY <1>1, <1>3, <1>4, <1>5, <1>6, LoadKeepsFollow

LEMMA StartKeepsFollow ==
  ASSUME FollowInv, SettingsInv, NEW given \in Environs, Start(given)
  PROVE  FollowInv'
<1>1. /\ UNCHANGED <<files, changes, newest, rewound, config, reading, stable>>
      /\ loop = "off" /\ loop' \in {"inert", "load"} /\ config = NoConfig
      /\ env' = LoadEnv(given)
  BY DEF Start, fileVars, SettingsInv
<1>2. FoundIn(files)' = FoundIn(files) /\ TimeIn(files)' = TimeIn(files)
  BY <1>1 DEF FoundIn, TimeIn
<1>3. reading = NoReading /\ reading.next = 1
  BY <1>1 DEF FollowInv, LookingInv, NoReading
<1>4. \A i \in Visited(Path, Stop) : ~(i < 1)
  BY VisitedFirst
<1> QED BY <1>1, <1>2, <1>3, <1>4
        DEF FollowInv, FileTimes, CountingInv, ConfigTypes, RememberedInv, ReadInv, LookingInv,
            ConfigFollowsSavedFile, UpToDate, Environments, NoReading

LEMMA LoopStepKeepsFollow ==
  ASSUME FollowInv, SettingsInv, LoopStep
  PROVE  FollowInv'
<1>1. CASE SelectStop \/ SelectTick \/ FirstTicker \/ SkipScan \/ BeginScan \/ Scan
  <2>1. /\ UNCHANGED <<files, changes, newest, rewound, env, config, reading, stable>>
        /\ loop \in {"loaded", "scanning", "ticking", "select"} /\ loop' \notin {"stat", "read"}
    BY <1>1 DEF SelectStop, SelectTick, FirstTicker, SkipScan, BeginScan, Scan, fileVars
  <2> QED BY <2>1, RestKeepsFollow
<1>2. CASE LookUpward \/ LookHome \/ StatMissing \/ StatUnchanged \/ StatChanged \/ ReadFails \/ ReadNew
  BY <1>2, LookUpwardKeepsFollow, LookHomeKeepsFollow, StatMissingKeepsFollow, StatUnchangedKeepsFollow, StatChangedKeepsFollow,
     ReadFailsKeepsFollow, ReadNewKeepsFollow DEF SettingsInv
<1> QED BY <1>1, <1>2 DEF LoopStep

LEMMA FollowInvNext == FollowInv /\ SettingsInv /\ SettingsInv' /\ [Next]_vars => FollowInv'
<1> SUFFICES ASSUME FollowInv, SettingsInv, SettingsInv', [Next]_vars PROVE FollowInv'
  OBVIOUS
<1>1. CASE Pass \/ ActivityStep \/ ManagerStep \/ UNCHANGED vars
  <2>1. UNCHANGED followVars
    BY <1>1 DEF Pass, Elapse, ActivityStep, SetBusy, ManagerStep, vars, wvars, fileVars, followVars
  <2> QED BY <2>1, SameKeepsFollow
<1>2. CASE EnvironmentStep
  <2>1. CASE FileStep
    BY <2>1, FileKeepsFollow
  <2>2. CASE \E given \in Environs : Start(given)
    BY <2>2, StartKeepsFollow
  <2>3. CASE StopWatcher
    <3>1. UNCHANGED followVars
      BY <2>3 DEF StopWatcher, fileVars, followVars
    <3> QED BY <3>1, SameKeepsFollow
  <2> QED BY <1>2, <2>1, <2>2, <2>3 DEF EnvironmentStep
<1>3. CASE WatcherStep
  BY <1>3, LoopStepKeepsFollow DEF WatcherStep
<1>4. CASE ReportStep
  <2>1. /\ UNCHANGED <<files, changes, newest, rewound, env, config, reading, stable>>
        /\ loop = "ticking" /\ loop' = "select"
    BY <1>4 DEF ReportStep, Report, fileVars
  <2> QED BY <2>1, RestKeepsFollow
<1> QED BY <1>1, <1>2, <1>3, <1>4 DEF Next

LEMMA FollowInvCorrect == Spec => []FollowInv
<1>1. Init => FollowInv
  <2> SUFFICES ASSUME Init PROVE FollowInv
    OBVIOUS
  <2>1. /\ loop = "off" /\ files = [p \in Places |-> Absent] /\ changes = 0 /\ newest = 0
        /\ config = NoConfig /\ reading = NoReading /\ stable = FALSE
    BY DEF Init, WInit
  <2>2. FoundIn(files) = None
    BY <2>1, FoundIsThere
  <2> QED BY <2>1, <2>2 DEF FollowInv, FileTimes, CountingInv, ConfigTypes, RememberedInv, ReadInv, LookingInv,
             ConfigFollowsSavedFile, UpToDate, NoReading
<1> QED BY <1>1, FollowInvNext, SettingsInvCorrect, PTL DEF Spec

\* After a load the watcher works with what the file that counts says, for any number
\* of directories and of changes at any moment, also between any two of the looks a
\* load takes, at one place after the other and again at the place found; files apart
\* that are no later than another that counted, or was about to be read, before them
\* (cli-watcher.go:418-446, 454-482, 495-596).
THEOREM TheConfigFollows == Spec => []ConfigFollowsSavedFile
<1>1. FollowInv => ConfigFollowsSavedFile
  BY DEF FollowInv
<1> QED BY <1>1, FollowInvCorrect, PTL

-----------------------------------------------------------------------------
(***************************************************************************)
(* A workspace in use is not stopped.  Whatever the watcher is doing, it   *)
(* is at most Wait steps of the clock from its next report, if Subject     *)
(* stays active; so either that is soon enough for Notice, or the idle     *)
(* timer was set so late that it will be set again in time.                *)
(***************************************************************************)
MP == INSTANCE IdleManagerProofs WITH started <- workspaceStarted

LEMMA ManagerAssumption == MP!TimeoutAssumption /\ IdleTimeout \in Nat /\ Idle \in Nat /\ Unit \in Nat \ {0}
<1>1. IdleTimeout \in Nat
  BY WatcherAssumption DEF IdleTimeout
<1> QED BY <1>1, WorkspaceAssumption, WatcherAssumption DEF MP!TimeoutAssumption, RunTimeout

\* The watched workspace moves its manager only by the manager's own steps.
LEMMA DrivesManager == [Next]_vars => [MP!Next]_MP!vars
<1> SUFFICES ASSUME [Next]_vars PROVE MP!Next \/ UNCHANGED MP!vars
  OBVIOUS
<1> USE DEF managerVars, MP!vars
<1>1. CASE Pass
  BY <1>1 DEF Pass, M!Pass, MP!Next, MP!Pass, M!CountUp, MP!CountUp, M!CountDown, MP!CountDown,
              M!Managers, MP!Managers, M!Inactivity, MP!Inactivity, M!RunIdle, MP!RunIdle
<1>2. CASE ReportStep
  BY <1>2 DEF ReportStep, M!Tick, MP!Next, MP!Tick, M!Inactivity, MP!Inactivity
<1>3. CASE ManagerStep
  <2>1. M!Inactivity \in MP!Managers /\ M!Inactivity = MP!Inactivity
    BY DEF M!Inactivity, MP!Inactivity, MP!Managers
  <2>2. CASE M!Rearm
    BY <2>1, <2>2 DEF M!Rearm, MP!Next, MP!Rearm
  <2>3. CASE M!Select(M!Inactivity)
    BY <2>1, <2>3 DEF M!Select, MP!Next, MP!Select
  <2>4. CASE M!TimerFires(M!Inactivity)
    BY <2>1, <2>4 DEF M!TimerFires, MP!Next, MP!TimerFires
  <2>5. CASE M!StopSucceeds(M!Inactivity)
    BY <2>1, <2>5 DEF M!StopSucceeds, M!Patch, MP!Next, MP!StopSucceeds, MP!Patch
  <2>6. CASE M!StopFails(M!Inactivity)
    BY <2>1, <2>6 DEF M!StopFails, M!Patch, MP!Next, MP!StopFails, MP!Patch
  <2> QED BY <1>3, <2>2, <2>3, <2>4, <2>5, <2>6 DEF ManagerStep
<1>4. CASE ActivityStep \/ EnvironmentStep \/ WatcherStep \/ UNCHANGED vars
  BY <1>4 DEF ActivityStep, EnvironmentStep, WatcherStep, vars
<1> QED BY <1>1, <1>2, <1>3, <1>4 DEF Next

\* What is proved of the manager holds of the one here.
LEMMA ManagerInvariants == Spec => [](M!TypeOK /\ M!TimersInv)
<1>1. Init => MP!Init
  BY DEF Init, M!Init, MP!Init, M!Managers, MP!Managers, M!Timeout, MP!Timeout,
         M!Inactivity, MP!Inactivity, M!RunIdle, MP!RunIdle
<1>2. Spec => MP!Spec
  BY <1>1, DrivesManager, PTL DEF Spec, MP!Spec
<1>3. MP!Spec => [](MP!TypeOK /\ MP!TimersInv)
  BY ManagerAssumption, MP!TypeCorrect, MP!TimersAreLongEnough, PTL
<1>4. MP!TypeOK /\ MP!TimersInv => M!TypeOK /\ M!TimersInv
  BY DEF MP!TypeOK, MP!TimersInv, M!TypeOK, M!TimersInv, M!Managers, MP!Managers, M!PC, MP!PC,
         M!Inactivity, MP!Inactivity, M!RunIdle, MP!RunIdle
<1> QED BY <1>2, <1>3, <1>4, PTL

\* Those is a sequence.
LEMMA ThoseIsSequence ==
  ASSUME NEW s, NEW n \in Nat, NEW positions, positions \subseteq 1 .. n
  PROVE  \E X : Those(s, positions) \in Seq(X)
<1> DEFINE r == Those(s, positions)
           m == Cardinality(positions)
<1>1. m \in Nat
  <2>1. IsFiniteSet(1 .. n)
    BY FS_Interval
  <2> QED BY <2>1, FS_Subset, FS_CardinalityType
<1>2. r = [k \in 1 .. m |-> r[k]]
  BY DEF Those
<1> HIDE DEF r, m
<1>3. r \in [1 .. m -> {r[k] : k \in 1 .. m}]
  BY <1>2
<1>4. r \in Seq({r[k] : k \in 1 .. m})
  BY <1>1, <1>3, SeqDef
<1> QED BY <1>4 DEF r

LEMMA ResolvedIsSequence ==
  ASSUME NEW given \in Environs
  PROVE  \E X : ResolveSources(ParseSelectors(given.sources)) \in Seq(X)
<1> DEFINE entries == given.sources
           wellFormed(e) == e.valid /\ e.flag \in Enabling \cup Disabling
           good == Those(entries, {i \in DOMAIN entries : wellFormed(entries[i])})
           selectors == ParseSelectors(entries)
           Enabled(s) == s.first /\ s.enabled /\ s.name \in {allActivitySources[i] : i \in DOMAIN allActivitySources}
           chosen == Those(selectors, {i \in DOMAIN selectors : Enabled(selectors[i])})
           names == [i \in DOMAIN chosen |-> chosen[i].name]
           Implied(n) == n \in defaultOnActivitySources /\ \A i \in DOMAIN selectors : selectors[i].name # n
           more == Those(allActivitySources, {i \in DOMAIN allActivitySources : Implied(allActivitySources[i])})
<1>1. PICK X : good \in Seq(X)
  <2>1. Len(entries) \in Nat /\ {i \in DOMAIN entries : wellFormed(entries[i])} \subseteq 1 .. Len(entries)
    BY WatcherAssumption
  <2> HIDE DEF entries, wellFormed
  <2> QED BY <2>1, ThoseIsSequence
<1>2. DOMAIN selectors = DOMAIN good
  BY DEF ParseSelectors
<1>3. PICK Y : chosen \in Seq(Y)
  <2>1. Len(good) \in Nat /\ DOMAIN good = 1 .. Len(good)
    BY <1>1, LenProperties
  <2>2. {i \in DOMAIN selectors : Enabled(selectors[i])} \subseteq 1 .. Len(good)
    BY <1>2, <2>1
  <2> HIDE DEF good, selectors, Enabled
  <2> QED BY <2>1, <2>2, ThoseIsSequence
<1>4. PICK Z : more \in Seq(Z)
  <2>1. {i \in DOMAIN allActivitySources : Implied(allActivitySources[i])} \subseteq 1 .. 2
    BY DEF allActivitySources
  <2> HIDE DEF Implied
  <2> QED BY <2>1, ThoseIsSequence
<1> HIDE DEF chosen, more
<1>5. names \in Seq({names[i] : i \in DOMAIN chosen})
  <2>1. Len(chosen) \in Nat /\ DOMAIN chosen = 1 .. Len(chosen)
    BY <1>3, LenProperties
  <2> QED BY <2>1, SeqDef
<1> HIDE DEF names
<1>6. names \o more \in Seq({names[i] : i \in DOMAIN chosen} \cup Z)
  <2>1. names \in Seq({names[i] : i \in DOMAIN chosen} \cup Z) /\ more \in Seq({names[i] : i \in DOMAIN chosen} \cup Z)
    BY <1>4, <1>5, SeqMonotonic
  <2> QED BY <2>1, ConcatProperties
<1>7. ResolveSources(selectors) = names \o more
  BY DEF ResolveSources, names, chosen, more
<1> QED BY <1>6, <1>7

\* Where the watcher and its ticker are.
ClockInv ==
    /\ period \in Nat
    /\ period = 0 => ~pending
    /\ period # 0 => due \in 1 .. Steps(period)
    /\ loop \in {"off", "inert", "load", "stat", "read", "loaded"} => ~pending
    /\ loop \in {"off", "inert"} => period = 0
    /\ loop \in {"select", "scanning", "ticking"} => period # 0
    /\ scanTime \in 0 .. MaxScan
    /\ loop # "scanning" => scanTime = 0
    /\ loop \in {"scanning", "ticking"} => ~Disabled
    /\ loop = "scanning" => cursor \in DOMAIN sources
    /\ pending \in BOOLEAN
    /\ started => loop # "off"
    /\ stopChan = "closed" => ~started /\ loop # "off"
    /\ loop = "stopped" => stopChan = "closed"

\* The sources are a sequence, and there is one when anything is scanned.
SourcesInv == loop \notin {"off", "inert"} => sources # <<>> /\ \E X : sources \in Seq(X)

\* The ticker goes at the check period in force.
PeriodInv ==
    TimelyEnv /\ ~Disabled /\ loop \in {"select", "scanning", "ticking"}
        => period = config.set.period \div Second

\* Only Subject's own activity, while it is watched, counts.
IdleInv ==
    /\ busyFor \in 0 .. Notice + 1
    /\ period = 0 \/ Subject \notin {sources[i] : i \in DOMAIN sources} \/ Subject \notin busy
          => busyFor = 0

\* Between the receipt of a tick and the select no time goes by, unless a stop has failed.
QuietInv == ~retrying /\ pc[M!Inactivity] \in {"looping", "rearming"} => quiet = 0

\* Subject is still to be asked in the scan under way.
Ahead == \E i \in DOMAIN sources : i >= cursor /\ sources[i] = Subject

ToTick == IF pending THEN 0 ELSE due

\* Steps of the clock until the next report at the latest, if Subject stays active.
Wait ==
    CASE loop = "scanning" /\ Ahead -> MaxScan - scanTime
      [] loop = "scanning" /\ ~Ahead -> AtLeast(ToTick, MaxScan - scanTime) + MaxScan
      [] loop = "select" /\ ~Disabled -> ToTick + MaxScan
      [] loop \in {"load", "stat", "read", "loaded"} -> MaxScan
      [] OTHER -> 0

\* Of the time counted and the time since the last tick received, with n still to come,
\* one is short enough.
InTime(counted, unheard, n) == counted + n <= Notice \/ unheard + n <= IdleTimeout \div 4 + MaxScan

\* When the idle timer measures whether the watcher has noticed anything.
Counts == TimelyEnv /\ ~retrying /\ pc[M!Inactivity] \notin {"stopping", "returned"}

MissedTick == loop = "select" /\ Disabled /\ pending

\* If Subject has been active for long, a tick has been received not long ago, the wait
\* for the next report included.
BusyInv ==
    Counts => /\ InTime(busyFor, quiet, Wait)
              /\ MissedTick => busyFor = 0

\* What BusyInv rests on.
GroundInv ==
    SettingsInv /\ ClockInv /\ SourcesInv /\ PeriodInv /\ IdleInv /\ QuietInv /\ M!TypeOK

LEMMA DivBound ==
  ASSUME NEW a \in Nat, NEW b \in Nat, NEW d \in Nat \ {0}, a * d <= b
  PROVE  a <= b \div d
<1> DEFINE q == b \div d
<1>1. q \in Nat /\ b < d * q + d
  OBVIOUS
<1>2. ASSUME ~(a <= q) PROVE FALSE
  <2>1. a >= q + 1
    BY <1>1, <1>2
  <2> HIDE DEF q
  <2>2. a * d >= (q + 1) * d
    BY <1>1, <2>1
  <2>3. (q + 1) * d = d * q + d
    BY <1>1
  <2> QED BY <1>1, <2>2, <2>3
<1> QED BY <1>2

\* A check period is a natural number.
LEMMA PeriodIsNat ==
  ASSUME NEW f \in Files, NEW e, EnvOK(e)
  PROVE  Resolve(f, e, Idle).period \in Nat
<1>1. /\ Second = 1000 /\ Minute = 60000 /\ Hour = 3600000 /\ Idle \in Nat \ {0}
      /\ f.period \in Int /\ f.seconds \in Int /\ e.period \in Nat
  BY WatcherAssumption, FileDurations DEF Second, Minute, Hour, EnvOK
<1>2. MaxCheckPeriod(Idle) \in Nat
  BY <1>1 DEF MaxCheckPeriod, AtMost
<1>3. \A a \in Int : AtLeast(a, MinCheckPeriod) \in Nat
  BY <1>1 DEF AtLeast, MinCheckPeriod
<1>4. \A a, b \in Nat : AtMost(a, b) \in Nat
  BY DEF AtMost
<1> DEFINE wanted == IF f.period # 0 THEN ParseDuration(f.period, Hour, DefaultCheckPeriod)
                     ELSE IF f.seconds > 0 THEN f.seconds * Second ELSE DefaultCheckPeriod
<1>5. wanted \in Int
  BY <1>1 DEF ParseDuration, DefaultCheckPeriod
<1> HIDE DEF wanted
<1>6. AtMost(AtLeast(wanted, MinCheckPeriod), MaxCheckPeriod(Idle)) \in Nat
  BY <1>2, <1>3, <1>4, <1>5
<1>7. CheckPeriod(f, Idle) \in Nat
  BY <1>6 DEF CheckPeriod, wanted
<1>8. Ceiling(e.period, f.period, CheckPeriod(f, Idle)) \in {e.period, CheckPeriod(f, Idle)}
  <2>1. e.period \in Nat /\ f.period \in Int /\ CheckPeriod(f, Idle) \in Int
    BY <1>1, <1>7
  <2> QED BY <2>1, CeilingBinds
<1> QED BY <1>1, <1>7, <1>8 DEF Resolve

\* With the settings in force the ticker goes often enough.
LEMMA TickerIsTimely ==
  ASSUME SettingsInv, TimelyEnv, config # NoConfig
  PROVE  LET seconds == config.set.period \div Second
         IN  seconds \in Nat \ {0} /\ Steps(seconds) \in 1 .. IdleTimeout \div 4
<1>1. PICK f \in Files : config.set = Resolve(f, env, Idle)
  BY DEF SettingsInv, ConfigInv
<1> DEFINE P == config.set.period
           s == P \div Second
<1>2. /\ Second = 1000 /\ Idle \in Nat /\ Idle >= 4 * Second /\ Unit \in Nat \ {0} /\ IdleTimeout \in Nat
      /\ IdleTimeout >= 4 /\ env.period \in Nat /\ f.period \in Int
      /\ env.period # 0 => env.period \in Second .. Idle \div 4
  BY ManagerAssumption, WorkspaceAssumption, FileDurations DEF TimelyEnv, Second, SettingsInv, EnvOK
<1>c. /\ P \in Int /\ P \in {env.period, CheckPeriod(f, Idle)}
      /\ env.period = 0 => P = CheckPeriod(f, Idle)
  <2> DEFINE c == CheckPeriod(f, Idle)
             l == env.period
             n == f.period
  <2>1. l \in Nat /\ n \in Int /\ c \in Int
    BY <1>2, ResolvedDurations
  <2>2. P = Ceiling(l, n, c)
    BY <1>1 DEF Resolve
  <2> HIDE DEF c, l, n, P
  <2>3. P \in Int /\ P \in {l, c} /\ (l = 0 => P = c)
    BY <2>1, <2>2, CeilingBinds
  <2> QED BY <2>3 DEF c, l
<1>3. P \in Int /\ P <= Idle \div 4
  <2>1. CheckPeriod(f, Idle) \in Int
    BY ResolvedDurations
  <2>2. CheckPeriod(f, Idle) <= Idle \div 4
    <3>1. MaxCheckPeriod(Idle) \in Int /\ MaxCheckPeriod(Idle) <= Idle \div 4
      BY <1>2 DEF MaxCheckPeriod, AtMost, Minute
    <3>2. \A a, b \in Int : AtMost(a, b) <= b
      BY DEF AtMost
    <3> DEFINE wanted == IF f.period # 0 THEN ParseDuration(f.period, Hour, DefaultCheckPeriod)
                         ELSE IF f.seconds > 0 THEN f.seconds * Second ELSE DefaultCheckPeriod
    <3>3. AtLeast(wanted, MinCheckPeriod) \in Int
      BY <1>2, FileDurations DEF AtLeast, MinCheckPeriod, ParseDuration, Hour, Minute, DefaultCheckPeriod
    <3> HIDE DEF wanted
    <3>4. AtMost(AtLeast(wanted, MinCheckPeriod), MaxCheckPeriod(Idle)) <= MaxCheckPeriod(Idle)
      BY <3>1, <3>2, <3>3
    <3>5. CheckPeriod(f, Idle) = AtMost(AtLeast(wanted, MinCheckPeriod), MaxCheckPeriod(Idle))
      BY DEF CheckPeriod, wanted
    <3> QED BY <1>2, <2>1, <3>1, <3>4, <3>5
  <2> HIDE DEF P
  <2> QED BY <1>2, <1>c, <2>2
<1>4. s # 0
  BY <1>1, <1>2, ShortPeriod DEF SettingsInv
<1>5. P > 0
  <2>1. CheckPeriod(f, Idle) \in Int /\ CheckPeriod(f, Idle) > 0
    <3>1. MaxCheckPeriod(Idle) \in Int /\ MaxCheckPeriod(Idle) > 0
      BY <1>2 DEF MaxCheckPeriod, AtMost, Minute
    <3>2. \A a, b \in Int : a > 0 /\ b > 0 => AtMost(a, b) > 0
      BY DEF AtMost
    <3>3. \A a \in Int : AtLeast(a, MinCheckPeriod) \in Int /\ AtLeast(a, MinCheckPeriod) > 0
      BY <1>2 DEF AtLeast, MinCheckPeriod
    <3> DEFINE wanted == IF f.period # 0 THEN ParseDuration(f.period, Hour, DefaultCheckPeriod)
                         ELSE IF f.seconds > 0 THEN f.seconds * Second ELSE DefaultCheckPeriod
    <3>4. wanted \in Int
      BY <1>2, FileDurations DEF ParseDuration, Hour, Minute, DefaultCheckPeriod
    <3> HIDE DEF wanted
    <3>5. AtMost(AtLeast(wanted, MinCheckPeriod), MaxCheckPeriod(Idle)) > 0
      BY <3>1, <3>2, <3>3, <3>4
    <3> QED BY <3>5, ResolvedDurations DEF CheckPeriod, wanted
  <2> HIDE DEF P
  <2> QED BY <1>2, <1>c, <2>1
<1> HIDE DEF P
<1>6. s \in Nat \ {0} /\ s * Second <= P
  BY <1>2, <1>3, <1>4, <1>5
<1> HIDE DEF s
<1> DEFINE u == (s * Second) \div Unit
<1>7. u \in Nat /\ u * Unit <= s * Second
  BY <1>2, <1>6
<1>8. 4 * (u * Unit) <= Idle
  <2>1. 4 * (Idle \div 4) <= Idle
    BY <1>2
  <2>2. u * Unit <= Idle \div 4 /\ u * Unit \in Nat
    BY <1>2, <1>3, <1>6, <1>7
  <2> QED BY <1>2, <2>1, <2>2
<1> HIDE DEF u
<1>9. 4 * u <= IdleTimeout
  <2>1. (4 * u) * Unit = 4 * (u * Unit)
    BY <1>2, <1>7
  <2>2. 4 * u \in Nat
    BY <1>7
  <2> QED BY <1>2, <1>8, <2>1, <2>2, DivBound DEF IdleTimeout
<1>10. Steps(s) \in 1 .. IdleTimeout \div 4
  BY <1>2, <1>7, <1>9 DEF Steps, AtLeast, u
<1> QED BY <1>6, <1>10 DEF s, P

LEMMA StepsPositive == \A seconds \in Nat : Steps(seconds) \in Nat \ {0}
<1> SUFFICES ASSUME NEW seconds \in Nat PROVE Steps(seconds) \in Nat \ {0}
  OBVIOUS
<1>1. Unit \in Nat \ {0} /\ seconds * Second \in Nat
  BY ManagerAssumption DEF Second
<1>2. (seconds * Second) \div Unit \in Nat
  BY <1>1
<1> QED BY <1>2 DEF Steps, AtLeast

\* The seconds of a ticker in the loop.
LEMMA LoopSeconds ==
  ASSUME SettingsInv, config # NoConfig
  PROVE  config.set.period \in Nat /\ config.set.period \div Second \in Nat
<1>1. PICK f \in Files : config.set = Resolve(f, env, Idle)
  BY DEF SettingsInv, ConfigInv
<1>2. config.set.period \in Nat
  BY <1>1, PeriodIsNat DEF SettingsInv
<1> QED BY <1>2 DEF Second

LEMMA TickerKept ==
  ASSUME ClockInv, period # 0, ~pending, NEW seconds \in Nat \ {0}, KeepOrRestartTicker(seconds)
  PROVE  period' = seconds /\ due' \in 1 .. Steps(seconds) /\ pending' = FALSE
BY StepsPositive DEF KeepOrRestartTicker, NewTicker, ClockInv, timerVars

LEMMA LoopKeepsClock ==
  ASSUME SettingsInv, ClockInv, SourcesInv, WatcherStep
  PROVE  ClockInv'
<1> USE DEF timerVars, fileVars
<1>0. /\ scanTime' = IF loop' = "scanning" THEN scanTime ELSE 0
      /\ scanTime \in 0 .. MaxScan /\ MaxScan \in Nat
  BY WorkspaceAssumption DEF WatcherStep, ClockInv
<1>1. CASE SelectStop
  BY <1>0, <1>1 DEF SelectStop, ClockInv, Disabled
<1>2. CASE SelectTick
  BY <1>0, <1>2 DEF SelectTick, ClockInv, Disabled
<1>3. CASE LookUpward \/ LookHome \/ StatUnchanged \/ StatChanged \/ ReadFails
  BY <1>0, <1>3 DEF LookUpward, LookHome, StatUnchanged, StatChanged, ReadFails, ClockInv, Disabled
<1>4. CASE StatMissing \/ ReadNew
  <2>1. /\ loop \in {"stat", "read"} /\ loop' = "loaded"
        /\ UNCHANGED <<started, stopChan, sources, timerVars, cursor>>
    BY <1>4 DEF StatMissing, ReadNew
  <2> QED BY <1>0, <2>1 DEF ClockInv, Steps
<1>5. CASE FirstTicker
  <2> DEFINE seconds == IF config = NoConfig THEN DefaultSeconds ELSE config.set.period \div Second
  <2>1. /\ loop = "loaded" /\ period = 0
        /\ IF seconds = 0 THEN loop' = "crashed" /\ UNCHANGED timerVars
           ELSE loop' = "select" /\ NewTicker(seconds)
        /\ UNCHANGED <<started, stopChan, sources, config, cursor>>
    BY <1>5 DEF FirstTicker
  <2>2. seconds \in Nat
    <3>1. DefaultSeconds \in Nat
      BY DEF DefaultSeconds, DefaultCheckPeriod, Second
    <3> QED BY <3>1, LoopSeconds
  <2> HIDE DEF seconds
  <2>3. CASE seconds = 0
    BY <1>0, <2>1, <2>3 DEF ClockInv
  <2>4. CASE seconds # 0
    <3>1. period' = seconds /\ due' = Steps(seconds) /\ pending' = FALSE /\ loop' = "select"
      BY <2>1, <2>4 DEF NewTicker
    <3>2. due' \in 1 .. Steps(period')
      BY <2>2, <3>1, StepsPositive
    <3> QED BY <1>0, <2>1, <2>2, <2>4, <3>1, <3>2 DEF ClockInv, Steps
  <2> QED BY <2>3, <2>4
<1>6. CASE SkipScan
  <2>1. DefaultSeconds \in Nat \ {0}
    BY DEF DefaultSeconds, DefaultCheckPeriod, Second
  <2>2. ~pending /\ period # 0 /\ KeepOrRestartTicker(DefaultSeconds)
    BY <1>6 DEF SkipScan, ClockInv
  <2>3. period' = DefaultSeconds /\ due' \in 1 .. Steps(DefaultSeconds) /\ pending' = FALSE
    BY <2>1, <2>2, TickerKept
  <2> QED BY <1>0, <1>6, <2>1, <2>3 DEF SkipScan, ClockInv, Steps
<1>7. CASE BeginScan
  <2> DEFINE given == config.set.period \div Second
             seconds == IF given > 0 THEN given ELSE period
  <2>1. /\ loop = "loaded" /\ period # 0 /\ ~Disabled /\ ~pending
        /\ loop' = "scanning" /\ cursor' = 1 /\ KeepOrRestartTicker(seconds)
        /\ UNCHANGED <<started, stopChan, sources, config>>
    BY <1>7 DEF BeginScan, ClockInv
  <2>2. seconds \in Nat \ {0}
    <3>1. given \in Int
      BY <2>1, LoopSeconds DEF Disabled
    <3> QED BY <2>1, <3>1 DEF ClockInv
  <2> HIDE DEF seconds
  <2>3. period' = seconds /\ due' \in 1 .. Steps(seconds) /\ pending' = FALSE
    BY <2>1, <2>2, TickerKept
  <2>4. 1 \in DOMAIN sources
    BY <2>1, EmptySeq, LenProperties DEF SourcesInv
  <2> QED BY <1>0, <2>1, <2>2, <2>3, <2>4 DEF ClockInv, Steps, Disabled
<1>8. CASE Scan
  <2>1. \E X : sources \in Seq(X)
    BY <1>8 DEF Scan, SourcesInv
  <2>2. Len(sources) \in Nat /\ DOMAIN sources = 1 .. Len(sources)
    BY <2>1, LenProperties
  <2>3. loop = "scanning" /\ cursor \in 1 .. Len(sources) /\ UNCHANGED <<started, stopChan, sources, config, timerVars>>
    BY <1>8, <2>2 DEF Scan, ClockInv
  <2>4. \/ loop' = "ticking"
        \/ loop' = "scanning" /\ cursor' \in 1 .. Len(sources)
        \/ loop' = "select"
    BY <1>8, <2>2, <2>3 DEF Scan
  <2> QED BY <1>0, <2>2, <2>3, <2>4 DEF ClockInv, Disabled
<1> QED BY <1>1, <1>2, <1>3, <1>4, <1>5, <1>6, <1>7, <1>8 DEF WatcherStep, LoopStep

LEMMA PassKeepsClock ==
  ASSUME ClockInv, Pass
  PROVE  ClockInv'
<1>1. /\ UNCHANGED <<loop, started, stopChan, sources, config, period, cursor>>
      /\ IF period = 0 \/ loop = "stopped" THEN UNCHANGED <<due, pending>>
         ELSE /\ due' = IF due = 1 THEN Steps(period) ELSE due - 1
              /\ pending' = (pending \/ due = 1)
      /\ scanTime' = IF loop = "scanning" THEN scanTime + 1 ELSE scanTime
  BY DEF Pass, Elapse
<1>2. /\ loop \in {"inert", "stopped", "select", "scanning"}
      /\ loop = "scanning" => scanTime < MaxScan
  BY DEF Pass, AtRest
<1>3. MaxScan \in Nat /\ scanTime' \in 0 .. MaxScan /\ (loop # "scanning" => scanTime' = 0)
  BY <1>1, <1>2, WorkspaceAssumption DEF ClockInv
<1>4. period # 0 => due' \in 1 .. Steps(period)
  BY <1>1, StepsPositive DEF ClockInv
<1>5. pending' \in BOOLEAN /\ (period = 0 => ~pending')
  BY <1>1 DEF ClockInv
<1> QED BY <1>1, <1>2, <1>3, <1>4, <1>5 DEF ClockInv, Steps, Disabled

\* Whoever changes a file changes nothing of the watcher.
LEMMA FilesAlone ==
  ASSUME FileStep
  PROVE  /\ UNCHANGED <<loop, started, stopChan, env, sources, config, period, due, pending, cursor>>
         /\ UNCHANGED <<reading, busy>>
<1>1. ASSUME NEW p \in Places, NEW file, ChangeFile(p, file)
      PROVE  /\ UNCHANGED <<loop, started, stopChan, env, sources, config, period, due, pending, cursor>>
             /\ UNCHANGED <<reading, busy>>
  BY <1>1 DEF ChangeFile, timerVars
<1>2. PICK p \in Places : \E file : ChangeFile(p, file)
  BY DEF FileStep, Remove, Save, MoveIn
<1> QED BY <1>1, <1>2

\* The sources of the environment are those of Start.
LEMMA ClockInvNext == ClockInv /\ SourcesInv /\ SettingsInv /\ [Next]_vars => ClockInv' /\ SourcesInv'
<1> SUFFICES ASSUME ClockInv, SourcesInv, SettingsInv, [Next]_vars PROVE ClockInv' /\ SourcesInv'
  OBVIOUS
<1> USE DEF timerVars, fileVars
<1>1. CASE Pass
  <2>1. SourcesInv'
    BY <1>1 DEF Pass, Elapse, SourcesInv
  <2> QED BY <1>1, <2>1, PassKeepsClock
<1>2. CASE ActivityStep \/ ManagerStep \/ UNCHANGED vars
  <2>1. UNCHANGED <<loop, started, stopChan, sources, config, period, due, pending, cursor, scanTime>>
    BY <1>2 DEF ActivityStep, SetBusy, ManagerStep, vars, wvars
  <2> QED BY <2>1 DEF ClockInv, SourcesInv, Disabled, Steps
<1>3. CASE EnvironmentStep
  <2>1. ASSUME FileStep PROVE UNCHANGED <<loop, started, stopChan, sources, config, period, due, pending, cursor>>
    BY <2>1, FilesAlone
  <2>2. ASSUME NEW given \in Environs, Start(given), UNCHANGED scanTime PROVE ClockInv' /\ SourcesInv'
    <3>1. /\ loop = "off" /\ loop' = (IF sources' = <<>> THEN "inert" ELSE "load") /\ started' = TRUE
          /\ sources' = ResolveSources(ParseSelectors(given.sources))
          /\ UNCHANGED <<stopChan, config, period, due, pending, cursor>>
      BY <2>2 DEF Start
    <3>2. \E X : sources' \in Seq(X)
      BY <3>1, ResolvedIsSequence
    <3> QED BY <2>2, <3>1, <3>2 DEF ClockInv, SourcesInv, Disabled, Steps
  <2>3. ASSUME StopWatcher, UNCHANGED scanTime PROVE ClockInv' /\ SourcesInv'
    BY <2>3 DEF StopWatcher, ClockInv, SourcesInv, Disabled, Steps
  <2>4. CASE FileStep /\ UNCHANGED scanTime
    BY <2>1, <2>4 DEF ClockInv, SourcesInv, Disabled, Steps
  <2> QED BY <1>3, <2>2, <2>3, <2>4 DEF EnvironmentStep
<1>4. CASE WatcherStep
  <2>1. UNCHANGED sources /\ loop' \notin {"off", "inert"} /\ loop \notin {"off", "inert"}
    BY <1>4 DEF WatcherStep, LoopStep, SelectStop, SelectTick, LookUpward, LookHome, StatMissing, StatUnchanged,
                StatChanged, ReadFails, ReadNew, FirstTicker, SkipScan, BeginScan, Scan
  <2>2. SourcesInv'
    BY <2>1 DEF SourcesInv
  <2> QED BY <1>4, <2>2, LoopKeepsClock
<1>5. CASE ReportStep
  BY <1>5 DEF ReportStep, Report, ClockInv, SourcesInv, Disabled, Steps
<1> QED BY <1>1, <1>2, <1>3, <1>4, <1>5 DEF Next

LEMMA PeriodInvNext == PeriodInv /\ ClockInv /\ SettingsInv /\ [Next]_vars => PeriodInv'
<1> SUFFICES ASSUME PeriodInv, ClockInv, SettingsInv, [Next]_vars PROVE PeriodInv'
  OBVIOUS
<1> USE DEF timerVars, fileVars
<1>1. CASE UNCHANGED <<loop, env, config, period>>
  BY <1>1 DEF PeriodInv, TimelyEnv, Disabled
<1>2. CASE loop' \notin {"select", "scanning", "ticking"}
  BY <1>2 DEF PeriodInv
<1>3. CASE Pass \/ ActivityStep \/ ManagerStep \/ UNCHANGED vars
  <2>1. UNCHANGED <<loop, env, config, period>>
    BY <1>3 DEF Pass, Elapse, ActivityStep, SetBusy, ManagerStep, vars, wvars
  <2> QED BY <1>1, <2>1
<1>4. CASE EnvironmentStep
  <2>1. CASE FileStep
    <3>1. UNCHANGED <<loop, env, config, period>>
      BY <2>1, FilesAlone
    <3> QED BY <1>1, <3>1
  <2>2. CASE \E given \in Environs : Start(given)
    <3>1. loop' \notin {"select", "scanning", "ticking"}
      BY <2>2 DEF Start
    <3> QED BY <1>2, <3>1
  <2>3. CASE StopWatcher
    BY <1>1, <2>3 DEF StopWatcher
  <2> QED BY <1>4, <2>1, <2>2, <2>3 DEF EnvironmentStep
<1>5. CASE ReportStep
  BY <1>5 DEF ReportStep, Report, PeriodInv, TimelyEnv, Disabled
<1>6. CASE WatcherStep
  <2>1. CASE SelectStop \/ SelectTick \/ LookUpward \/ LookHome \/ StatMissing \/ StatUnchanged \/ StatChanged \/ ReadFails \/ ReadNew
    <3>1. loop' \notin {"select", "scanning", "ticking"}
      BY <2>1 DEF SelectStop, SelectTick, LookUpward, LookHome, StatMissing, StatUnchanged, StatChanged, ReadFails, ReadNew
    <3> QED BY <1>2, <3>1
  <2>2. CASE FirstTicker
    BY <2>2 DEF FirstTicker, NewTicker, PeriodInv, Disabled
  <2>3. CASE SkipScan
    BY <2>3 DEF SkipScan, PeriodInv, Disabled
  <2>4. CASE BeginScan
    <3> DEFINE given == config.set.period \div Second
               seconds == IF given > 0 THEN given ELSE period
    <3>1. /\ loop = "loaded" /\ period # 0 /\ ~Disabled /\ ~pending /\ config # NoConfig
          /\ KeepOrRestartTicker(seconds) /\ UNCHANGED <<env, config>>
      BY <2>4 DEF BeginScan, ClockInv, Disabled
    <3>2. TimelyEnv => given \in Nat \ {0}
      BY <3>1, TickerIsTimely
    <3> HIDE DEF given
    <3>3. TimelyEnv => seconds = given /\ seconds \in Nat \ {0}
      BY <3>2
    <3> HIDE DEF seconds
    <3>4. TimelyEnv => period' = given
      BY <3>1, <3>3, TickerKept
    <3> QED BY <3>1, <3>4 DEF PeriodInv, TimelyEnv, given
  <2>5. CASE Scan
    BY <2>5 DEF Scan, PeriodInv, TimelyEnv, Disabled
  <2> QED BY <1>6, <2>1, <2>2, <2>3, <2>4, <2>5 DEF WatcherStep, LoopStep
<1> QED BY <1>3, <1>4, <1>5, <1>6 DEF Next

LEMMA NoticeIsNat == /\ Notice \in Nat /\ MaxScan \in Nat /\ IdleTimeout \in Nat /\ IdleTimeout \div 4 \in Nat
                     /\ Notice = IdleTimeout \div 4 + 2 * MaxScan
                     /\ IdleTimeout \div 4 + MaxScan < IdleTimeout
BY ManagerAssumption, WorkspaceAssumption DEF Notice

LEMMA IdleInvNext == IdleInv /\ ClockInv /\ [Next]_vars => IdleInv'
<1> SUFFICES ASSUME IdleInv, ClockInv, [Next]_vars PROVE IdleInv'
  OBVIOUS
<1> USE NoticeIsNat DEF timerVars, fileVars
<1>1. CASE Pass
  <2>1. /\ UNCHANGED <<sources, period, busy>>
        /\ busyFor' = IF Subject \in busy /\ SubjectWatched THEN M!CountUp(busyFor, Notice + 1) ELSE 0
    BY <1>1 DEF Pass, Elapse
  <2> QED BY <2>1 DEF IdleInv, SubjectWatched, M!CountUp
<1>2. CASE ActivityStep
  <2>1. UNCHANGED <<sources, period>> /\ busyFor' = IF Subject \in busy' THEN busyFor ELSE 0
    BY <1>2 DEF ActivityStep, SetBusy
  <2>2. Subject \in busy' /\ (period = 0 \/ Subject \notin {sources[i] : i \in DOMAIN sources}) => busyFor = 0
    BY DEF IdleInv
  <2> QED BY <2>1, <2>2 DEF IdleInv
<1>3. CASE ManagerStep \/ UNCHANGED vars \/ ReportStep
  <2>1. UNCHANGED <<sources, period, busy, busyFor>>
    BY <1>3 DEF ManagerStep, ReportStep, Report, vars, wvars
  <2> QED BY <2>1 DEF IdleInv
<1>4. CASE EnvironmentStep
  <2>1. UNCHANGED <<busyFor, period, busy>>
    BY <1>4, FilesAlone DEF EnvironmentStep, Start, StopWatcher
  <2>2. UNCHANGED sources \/ period = 0
    BY <1>4, FilesAlone DEF EnvironmentStep, Start, StopWatcher, ClockInv
  <2> QED BY <2>1, <2>2 DEF IdleInv
<1>5. CASE WatcherStep
  <2>1. UNCHANGED <<busyFor, sources, busy>>
    BY <1>5 DEF WatcherStep, LoopStep, SelectStop, SelectTick, LookUpward, LookHome, StatMissing, StatUnchanged,
                StatChanged, ReadFails, ReadNew, FirstTicker, SkipScan, BeginScan, Scan
  <2>2. period' = 0 => period = 0
    <3>1. CASE SelectStop \/ SelectTick \/ LookUpward \/ LookHome \/ StatMissing \/ StatUnchanged
               \/ StatChanged \/ ReadFails \/ ReadNew \/ Scan
      BY <3>1 DEF SelectStop, SelectTick, LookUpward, LookHome, StatMissing, StatUnchanged,
                  StatChanged, ReadFails, ReadNew, Scan
    <3>2. CASE FirstTicker
      BY <3>2 DEF FirstTicker
    <3>3. CASE SkipScan
      <4>1. DefaultSeconds # 0
        BY DEF DefaultSeconds, DefaultCheckPeriod, Second
      <4> QED BY <3>3, <4>1 DEF SkipScan, KeepOrRestartTicker, NewTicker
    <3>4. CASE BeginScan
      <4> DEFINE given == config.set.period \div Second
      <4>1. period # 0 /\ KeepOrRestartTicker(IF given > 0 THEN given ELSE period)
        BY <3>4 DEF BeginScan
      <4> HIDE DEF given
      <4>2. (IF given > 0 THEN given ELSE period) # 0
        BY <4>1
      <4> QED BY <4>1, <4>2 DEF KeepOrRestartTicker, NewTicker
    <3> QED BY <1>5, <3>1, <3>2, <3>3, <3>4 DEF WatcherStep, LoopStep
  <2> QED BY <2>1, <2>2 DEF IdleInv
<1> QED BY <1>1, <1>2, <1>3, <1>4, <1>5 DEF Next

LEMMA QuietInvNext == QuietInv /\ M!TypeOK /\ [Next]_vars => QuietInv'
<1> SUFFICES ASSUME QuietInv, M!TypeOK, [Next]_vars PROVE QuietInv'
  OBVIOUS
<1> DEFINE In == M!Inactivity
<1>0. In \in M!Managers /\ pc = [m \in M!Managers |-> pc[m]]
  BY DEF M!Managers, M!TypeOK
<1>1. CASE Pass
  BY <1>1 DEF Pass, AtRest, ManagerAtRest, M!Pass, QuietInv
<1>2. CASE ActivityStep \/ EnvironmentStep \/ WatcherStep \/ UNCHANGED vars
  BY <1>2 DEF ActivityStep, EnvironmentStep, WatcherStep, managerVars, vars, QuietInv
<1>3. CASE ReportStep
  BY <1>0, <1>3 DEF ReportStep, M!Tick, QuietInv
<1>4. CASE ManagerStep
  <2>1. retrying' = (retrying \/ (pc[In] = "stopping" /\ pc'[In] = "looping"))
    BY <1>4 DEF ManagerStep
  <2>2. CASE M!Rearm
    BY <1>0, <2>1, <2>2 DEF M!Rearm, QuietInv
  <2>3. CASE M!Select(In) \/ M!TimerFires(In) \/ M!StopSucceeds(In)
    BY <1>0, <2>1, <2>3 DEF M!Select, M!TimerFires, M!StopSucceeds, QuietInv
  <2>4. CASE M!StopFails(In)
    BY <1>0, <2>1, <2>4 DEF M!StopFails, QuietInv
  <2> QED BY <1>4, <2>2, <2>3, <2>4 DEF ManagerStep
<1> QED BY <1>1, <1>2, <1>3, <1>4 DEF Next

\* No wait is longer than Notice, and a wait in the select is short enough for the idle timer.
LEMMA WaitBounded ==
  ClockInv /\ PeriodInv /\ SettingsInv /\ TimelyEnv =>
      /\ Wait \in 0 .. Notice
      /\ loop \in {"select", "scanning"} => ToTick \in Nat
      /\ loop \in {"select", "scanning", "ticking"} /\ ~Disabled => ToTick \in 0 .. IdleTimeout \div 4
<1> SUFFICES ASSUME ClockInv, PeriodInv, SettingsInv, TimelyEnv
             PROVE  /\ Wait \in 0 .. Notice
                    /\ loop \in {"select", "scanning"} => ToTick \in Nat
                    /\ loop \in {"select", "scanning", "ticking"} /\ ~Disabled
                          => ToTick \in 0 .. IdleTimeout \div 4
  OBVIOUS
<1> USE NoticeIsNat
<1>1. scanTime \in 0 .. MaxScan
  BY DEF ClockInv
<1>2. loop \in {"select", "scanning", "ticking"} /\ ~Disabled => ToTick \in 0 .. IdleTimeout \div 4
  <2> SUFFICES ASSUME loop \in {"select", "scanning", "ticking"}, ~Disabled PROVE ToTick \in 0 .. IdleTimeout \div 4
    OBVIOUS
  <2>1. period = config.set.period \div Second /\ config # NoConfig /\ period # 0
    BY DEF PeriodInv, Disabled, ClockInv
  <2>2. Steps(period) \in 1 .. IdleTimeout \div 4
    BY <2>1, TickerIsTimely
  <2>3. due \in 1 .. Steps(period)
    BY <2>1 DEF ClockInv
  <2> HIDE DEF Steps
  <2> QED BY <2>2, <2>3 DEF ToTick
<1>3. loop \in {"select", "scanning"} => ToTick \in Nat
  BY StepsPositive DEF ClockInv, ToTick
<1>4. Wait \in 0 .. Notice
  <2>1. CASE loop = "scanning"
    <3>1. ToTick \in 0 .. IdleTimeout \div 4
      BY <1>2, <2>1 DEF ClockInv
    <3>2. AtLeast(ToTick, MaxScan - scanTime) \in 0 .. IdleTimeout \div 4 + MaxScan
      BY <1>1, <3>1 DEF AtLeast
    <3> QED BY <1>1, <2>1, <3>2 DEF Wait
  <2>2. CASE loop = "select"
    BY <1>2, <2>2 DEF Wait
  <2>3. CASE loop \notin {"scanning", "select"}
    BY <2>3 DEF Wait
  <2> QED BY <2>1, <2>2, <2>3
<1> QED BY <1>2, <1>3, <1>4

LEMMA WaitBoundedNext == (ClockInv /\ PeriodInv /\ SettingsInv /\ TimelyEnv => Wait \in 0 .. Notice)'
<1>1. ClockInv /\ PeriodInv /\ SettingsInv /\ TimelyEnv => Wait \in 0 .. Notice
  BY WaitBounded
<1> QED BY <1>1, PTL

LEMMA InTimeBounds ==
  /\ \A u \in Nat, n \in 0 .. Notice : InTime(0, u, n)
  /\ \A c, u \in Nat, n, m \in 0 .. Notice : InTime(c, u, n) /\ m <= n => InTime(c, u, m)
  /\ \A c, d, u, v \in Nat, n, m \in 0 .. Notice :
        InTime(c, u, n) /\ d <= c + 1 /\ v <= u + 1 /\ m + 1 <= n => InTime(d, v, m)
  /\ \A c \in Nat, n \in 0 .. IdleTimeout \div 4 + MaxScan : InTime(c, 0, n)
BY NoticeIsNat DEF InTime

\* A step of no duration, of anybody but the manager, after which the wait is no
\* longer, or nothing has been missed.
LEMMA SoonerKeepsBusy ==
  ASSUME GroundInv, GroundInv', BusyInv, UNCHANGED <<pc, quiet, retrying>>, busyFor' \in {0, busyFor},
         Counts' => busyFor' = 0 \/ (TimelyEnv /\ Wait' <= Wait /\ ~MissedTick')
  PROVE  BusyInv'
<1> SUFFICES ASSUME Counts' PROVE InTime(busyFor', quiet', Wait') /\ (MissedTick' => busyFor' = 0)
  BY DEF BusyInv
<1>1. Wait' \in 0 .. Notice
  BY WaitBoundedNext DEF GroundInv, Counts
<1>2. busyFor \in Nat /\ busyFor' \in Nat /\ quiet' \in Nat
  BY NoticeIsNat DEF GroundInv, IdleInv, M!TypeOK
<1>3. CASE busyFor' = 0
  BY <1>1, <1>2, <1>3, InTimeBounds, Zenon
<1>4. CASE busyFor' # 0
  <2>1. busyFor' = busyFor /\ TimelyEnv /\ Wait' <= Wait /\ ~MissedTick'
    BY <1>4
  <2>2. InTime(busyFor', quiet', Wait) /\ Wait \in 0 .. Notice
    BY <2>1, WaitBounded DEF GroundInv, BusyInv, Counts
  <2>3. InTime(busyFor', quiet', Wait')
    BY <1>1, <1>2, <2>1, <2>2, InTimeBounds, Zenon
  <2> QED BY <2>1, <2>3
<1> QED BY <1>3, <1>4

LEMMA RestKeepsBusy ==
  ASSUME GroundInv, GroundInv', BusyInv, UNCHANGED <<pc, quiet, retrying>>, busyFor' \in {0, busyFor},
         UNCHANGED <<loop, env, sources, config, due, pending, cursor, scanTime>>
  PROVE  BusyInv'
<1> SUFFICES ASSUME Counts', busyFor' # 0 PROVE TimelyEnv /\ Wait' <= Wait /\ ~MissedTick'
  BY SoonerKeepsBusy
<1>1. Counts
  BY DEF Counts, TimelyEnv
<1>2. Wait' = Wait
  BY DEF Wait, Ahead, ToTick, Disabled
<1>3. Wait \in Nat
  BY <1>1, WaitBounded, NoticeIsNat DEF GroundInv, Counts
<1>4. ~MissedTick'
  BY <1>1 DEF BusyInv, MissedTick, Disabled
<1> QED BY <1>1, <1>2, <1>3, <1>4 DEF Counts

\* The watcher's own steps lead to the next report.
LEMMA LoopKeepsBusy ==
  ASSUME GroundInv, GroundInv', BusyInv, WatcherStep
  PROVE  BusyInv'
<1> USE DEF timerVars, fileVars
<1>0. /\ UNCHANGED <<pc, quiet, retrying, busyFor, env, busy, sources>>
      /\ scanTime' = IF loop' = "scanning" THEN scanTime ELSE 0
  BY DEF WatcherStep, managerVars, LoopStep, SelectStop, SelectTick, LookUpward, LookHome, StatMissing, StatUnchanged,
         StatChanged, ReadFails, ReadNew, FirstTicker, SkipScan, BeginScan, Scan
<1> SUFFICES ASSUME Counts', busyFor' # 0 PROVE TimelyEnv /\ Wait' <= Wait /\ ~MissedTick'
  BY <1>0, SoonerKeepsBusy
<1>1. Counts /\ busyFor # 0
  BY <1>0 DEF Counts, TimelyEnv
<1>2. /\ MaxScan \in Nat /\ scanTime \in 0 .. MaxScan /\ (loop # "scanning" => scanTime = 0)
      /\ Wait \in Nat /\ ~MissedTick
  BY <1>1, WaitBounded, NoticeIsNat DEF GroundInv, ClockInv, BusyInv, Counts
<1>3. /\ loop \in {"select", "scanning"} => ToTick \in Nat
      /\ Subject \in {sources[i] : i \in DOMAIN sources} /\ Subject \in busy /\ period # 0
      /\ ClockInv
  BY <1>1, WaitBounded DEF GroundInv, IdleInv, Counts
<1>4. CASE SelectStop
  <2>1. loop' = "stopped"
    BY <1>4 DEF SelectStop
  <2>2. Wait' = 0
    BY <2>1 DEF Wait
  <2> QED BY <1>1, <1>2, <2>1, <2>2 DEF Counts, MissedTick
<1>5. CASE SelectTick
  <2>1. loop = "select" /\ pending /\ ~Disabled /\ loop' = "load"
    BY <1>2, <1>5 DEF SelectTick, MissedTick
  <2>2. Wait' = MaxScan /\ Wait = 0 + MaxScan
    BY <2>1 DEF Wait, ToTick
  <2> QED BY <1>1, <1>2, <2>1, <2>2 DEF Counts, MissedTick
<1>6. CASE LookUpward \/ LookHome \/ StatMissing \/ StatUnchanged \/ StatChanged \/ ReadFails \/ ReadNew
  <2>1. loop \in {"load", "stat", "read"} /\ loop' \in {"load", "stat", "read", "loaded"}
    BY <1>6 DEF LookUpward, LookHome, StatMissing, StatUnchanged, StatChanged, ReadFails, ReadNew
  <2>2. Wait' = MaxScan /\ Wait = MaxScan
    BY <2>1 DEF Wait
  <2> QED BY <1>1, <1>2, <2>1, <2>2 DEF Counts, MissedTick
<1>7. CASE FirstTicker
  BY <1>3, <1>7 DEF FirstTicker
<1>8. CASE SkipScan
  <2>1. loop' = "select" /\ Disabled' /\ ~pending'
    BY <1>3, <1>8 DEF SkipScan, Disabled, ClockInv, KeepOrRestartTicker, NewTicker
  <2>2. Wait' = 0
    BY <2>1 DEF Wait
  <2> QED BY <1>1, <1>2, <2>1, <2>2 DEF Counts, MissedTick
<1>9. CASE BeginScan
  <2>1. loop = "loaded" /\ loop' = "scanning" /\ cursor' = 1
    BY <1>9 DEF BeginScan
  <2>2. Ahead'
    <3>1. Len(sources) \in Nat /\ DOMAIN sources = 1 .. Len(sources)
      BY <2>1, LenProperties DEF GroundInv, SourcesInv
    <3> QED BY <1>0, <1>3, <2>1, <3>1 DEF Ahead
  <2>3. Wait' = MaxScan - scanTime' /\ Wait = MaxScan /\ scanTime' = 0
    BY <1>0, <1>2, <2>1, <2>2 DEF Wait
  <2> QED BY <1>1, <1>2, <2>1, <2>3 DEF Counts, MissedTick
<1>10. CASE Scan
  <2>1. loop = "scanning" /\ UNCHANGED <<config, period, due, pending>> /\ ~Disabled /\ ~Disabled'
    BY <1>3, <1>10 DEF Scan, ClockInv, Disabled
  <2>2. Len(sources) \in Nat /\ DOMAIN sources = 1 .. Len(sources) /\ cursor \in 1 .. Len(sources)
    BY <1>3, <2>1, LenProperties DEF GroundInv, SourcesInv, ClockInv
  <2>3. CASE sources[cursor] \in busy
    <3>1. loop' = "ticking"
      BY <1>10, <2>3 DEF Scan
    <3>2. Wait' = 0
      BY <3>1 DEF Wait
    <3> QED BY <1>1, <1>2, <3>1, <3>2 DEF Counts, MissedTick
  <2>4. CASE sources[cursor] \notin busy /\ cursor < Len(sources)
    <3>1. loop' = "scanning" /\ cursor' = cursor + 1 /\ scanTime' = scanTime
      BY <1>0, <1>10, <2>1, <2>4 DEF Scan
    <3>2. Ahead' <=> Ahead
      BY <1>0, <1>3, <2>2, <2>4, <3>1 DEF Ahead
    <3>3. Wait' = Wait
      BY <2>1, <3>1, <3>2 DEF Wait, ToTick
    <3> QED BY <1>1, <1>2, <3>1, <3>3 DEF Counts, MissedTick
  <2>5. CASE sources[cursor] \notin busy /\ ~(cursor < Len(sources))
    <3>1. loop' = "select" /\ cursor = Len(sources)
      <4>1. loop' = "select"
        BY <1>10, <2>5 DEF Scan
      <4>2. \A n \in Nat : \A c \in 1 .. n : ~(c < n) => c = n
        OBVIOUS
      <4>3. cursor = Len(sources)
        BY <2>2, <2>5, <4>2, Zenon
      <4> QED BY <4>1, <4>3
    <3>2. ~Ahead
      BY <1>3, <2>2, <2>5, <3>1 DEF Ahead
    <3>3. Wait' = ToTick + MaxScan /\ Wait = AtLeast(ToTick, MaxScan - scanTime) + MaxScan
      BY <2>1, <3>1, <3>2 DEF Wait, ToTick
    <3>4. ToTick \in Nat
      BY <1>3, <2>1
    <3>5. \A t, m, s \in Nat : s <= m => t + m <= AtLeast(t, m - s) + m
      BY DEF AtLeast
    <3>6. ToTick + MaxScan <= AtLeast(ToTick, MaxScan - scanTime) + MaxScan
      <4> DEFINE t == ToTick
      <4>1. t \in Nat /\ MaxScan \in Nat /\ scanTime \in Nat /\ scanTime <= MaxScan
        BY <1>2, <3>4
      <4> HIDE DEF t
      <4>2. t + MaxScan <= AtLeast(t, MaxScan - scanTime) + MaxScan
        BY <3>5, <4>1
      <4> QED BY <4>2 DEF t
    <3>7. Wait' <= Wait
      BY <3>3, <3>6
    <3>8. ~MissedTick'
      BY <2>1 DEF MissedTick
    <3>9. TimelyEnv
      BY <1>1 DEF Counts
    <3> QED BY <3>7, <3>8, <3>9
  <2> QED BY <2>3, <2>4, <2>5
<1> QED BY <1>4, <1>5, <1>6, <1>7, <1>8, <1>9, <1>10 DEF WatcherStep, LoopStep

\* A step of the clock takes one off the wait.
LEMMA PassKeepsBusy ==
  ASSUME GroundInv, GroundInv', BusyInv, Pass
  PROVE  BusyInv'
<1> SUFFICES ASSUME Counts' PROVE InTime(busyFor', quiet', Wait') /\ (MissedTick' => busyFor' = 0)
  BY DEF BusyInv
<1>1. /\ UNCHANGED <<loop, started, stopChan, env, sources, config, period, cursor, pc, retrying>>
      /\ IF period = 0 \/ loop = "stopped" THEN UNCHANGED <<due, pending>>
         ELSE /\ due' = IF due = 1 THEN Steps(period) ELSE due - 1
              /\ pending' = (pending \/ due = 1)
      /\ scanTime' = IF loop = "scanning" THEN scanTime + 1 ELSE scanTime
      /\ quiet' = M!CountUp(quiet, IdleTimeout)
      /\ busyFor' = IF Subject \in busy /\ SubjectWatched THEN M!CountUp(busyFor, Notice + 1) ELSE 0
  BY DEF Pass, Elapse, M!Pass
<1>2. /\ \/ loop \in {"inert", "stopped"}
         \/ loop = "select" /\ ~pending /\ stopChan = "open"
         \/ loop = "scanning" /\ scanTime < MaxScan
  BY DEF Pass, AtRest
<1>3. Counts
  BY <1>1 DEF Counts, TimelyEnv
<1>4. Wait \in 0 .. Notice /\ Wait' \in 0 .. Notice
  BY <1>3, WaitBounded, WaitBoundedNext DEF GroundInv, Counts
<1>5. /\ busyFor \in Nat /\ busyFor' \in Nat /\ busyFor' <= busyFor + 1
      /\ quiet \in Nat /\ quiet' \in Nat /\ quiet' <= quiet + 1
  <2>1. busyFor \in Nat /\ quiet \in Nat /\ Notice \in Nat /\ IdleTimeout \in Nat
    BY NoticeIsNat DEF GroundInv, IdleInv, M!TypeOK
  <2> QED BY <1>1, <2>1 DEF M!CountUp
<1>6. CASE busyFor' = 0
  BY <1>4, <1>5, <1>6, InTimeBounds, Zenon
<1>7. CASE busyFor' # 0
  <2>1. started /\ ~Disabled /\ period # 0
    BY <1>1, <1>7 DEF SubjectWatched
  <2>2. loop # "stopped" /\ loop # "inert" /\ loop # "off" /\ due \in Nat \ {0}
    BY <2>1, StepsPositive DEF GroundInv, ClockInv
  <2>3. ~Disabled' /\ ~MissedTick'
    BY <1>1, <2>1 DEF Disabled, MissedTick
  <2>4. MaxScan \in Nat /\ scanTime \in 0 .. MaxScan /\ pending \in BOOLEAN
    BY NoticeIsNat DEF GroundInv, ClockInv
  <2>5. ToTick \in Nat /\ ToTick' \in Nat /\ (ToTick' + 1 <= ToTick \/ (ToTick = 0 /\ ToTick' = 0))
    <3>1. due' = (IF due = 1 THEN Steps(period) ELSE due - 1) /\ pending' = (pending \/ due = 1)
      BY <1>1, <2>1, <2>2
    <3>2. ToTick = IF pending THEN 0 ELSE due
      BY DEF ToTick
    <3>3. ToTick' = IF pending THEN 0 ELSE due - 1
      <4>1. CASE pending
        BY <3>1, <4>1 DEF ToTick
      <4>2. CASE ~pending /\ due = 1
        <5>1. pending'
          BY <3>1, <4>2, Zenon
        <5>2. ToTick' = 0
          BY <5>1 DEF ToTick
        <5>3. 1 - 1 = 0
          OBVIOUS
        <5> QED BY <4>2, <5>2, <5>3, Zenon
      <4>3. CASE ~pending /\ due # 1
        BY <3>1, <4>3 DEF ToTick
      <4> QED BY <2>4, <4>1, <4>2, <4>3
    <3>4. \A d \in Nat \ {0} : d - 1 \in Nat /\ (d - 1) + 1 <= d
      OBVIOUS
    <3>5. CASE pending
      BY <3>2, <3>3, <3>5
    <3>6. CASE ~pending
      <4>1. ToTick = due /\ ToTick' = due - 1
        BY <3>2, <3>3, <3>6
      <4> QED BY <2>2, <3>4, <4>1, Zenon
    <3> QED BY <3>5, <3>6
  <2>6. Wait' + 1 <= Wait
    <3>1. CASE loop = "select"
      <4>2. Wait' = ToTick' + MaxScan /\ Wait = ToTick + MaxScan /\ ToTick # 0
        BY <1>1, <1>2, <2>1, <2>2, <2>3, <3>1 DEF Wait, ToTick
      <4>3. \A t, u, m \in Nat : u + 1 <= t => (u + m) + 1 <= t + m
        OBVIOUS
      <4>4. (ToTick' + MaxScan) + 1 <= ToTick + MaxScan
        BY <2>4, <2>5, <4>2, <4>3, Zenon
      <4> QED BY <4>2, <4>4
    <3>2. CASE loop = "scanning" /\ Ahead
      <4>1. Ahead'
        BY <1>1, <3>2 DEF Ahead
      <4>2. Wait = MaxScan - scanTime /\ Wait' = MaxScan - (scanTime + 1)
        BY <1>1, <3>2, <4>1 DEF Wait
      <4> QED BY <2>4, <4>2
    <3>3. CASE loop = "scanning" /\ ~Ahead
      <4>1. ~Ahead'
        BY <1>1, <3>3 DEF Ahead
      <4>2. /\ Wait = AtLeast(ToTick, MaxScan - scanTime) + MaxScan
            /\ Wait' = AtLeast(ToTick', MaxScan - (scanTime + 1)) + MaxScan
        BY <1>1, <3>3, <4>1 DEF Wait
      <4>3. scanTime < MaxScan
        BY <1>2, <3>3
      <4>4. \A t, u, m, s \in Nat : s < m /\ (u + 1 <= t \/ (t = 0 /\ u = 0))
               => (AtLeast(u, m - (s + 1)) + m) + 1 <= AtLeast(t, m - s) + m
        BY DEF AtLeast
      <4>5. (AtLeast(ToTick', MaxScan - (scanTime + 1)) + MaxScan) + 1 <= AtLeast(ToTick, MaxScan - scanTime) + MaxScan
        <5>1. scanTime \in Nat
          BY <2>4
        <5> QED BY <2>4, <2>5, <4>3, <4>4, <5>1, Zenon
      <4> QED BY <4>2, <4>5
    <3> QED BY <1>2, <2>2, <3>1, <3>2, <3>3
  <2>7. InTime(busyFor, quiet, Wait)
    BY <1>3 DEF BusyInv
  <2>8. InTime(busyFor', quiet', Wait')
    BY <1>4, <1>5, <2>6, <2>7, InTimeBounds, Zenon
  <2> QED BY <2>3, <2>8
<1> QED BY <1>6, <1>7

\* A report that is received starts the count of the manager again.
LEMMA ReportKeepsBusy ==
  ASSUME GroundInv, GroundInv', BusyInv, ReportStep
  PROVE  BusyInv'
<1> SUFFICES ASSUME Counts' PROVE InTime(busyFor', quiet', Wait') /\ (MissedTick' => busyFor' = 0)
  BY DEF BusyInv
<1>1. /\ loop = "ticking" /\ loop' = "select"
      /\ UNCHANGED <<config, env, due, pending, busyFor>>
      /\ retrying' = (retrying /\ pc[M!Inactivity] # "parked")
      /\ IF pc[M!Inactivity] = "parked" THEN quiet' = 0 ELSE UNCHANGED <<pc, quiet>>
  BY DEF ReportStep, Report, M!Tick, timerVars
<1>2. ~Disabled /\ ~Disabled' /\ ~MissedTick'
  BY <1>1 DEF GroundInv, ClockInv, Disabled, MissedTick
<1>3. quiet' = 0
  <2>1. CASE pc[M!Inactivity] = "parked"
    BY <1>1, <2>1
  <2>2. CASE pc[M!Inactivity] # "parked"
    <3>1. ~retrying /\ pc' = pc /\ quiet' = quiet
      BY <1>1, <2>2 DEF Counts
    <3>2. pc[M!Inactivity] \in {"looping", "rearming"}
      <4>1. pc[M!Inactivity] \in M!PC
        BY DEF GroundInv, M!TypeOK, M!Managers
      <4>2. pc[M!Inactivity] # "off"
        BY DEF ReportStep, M!Tick
      <4> QED BY <2>2, <3>1, <4>1, <4>2 DEF Counts, M!PC
    <3> QED BY <3>1, <3>2 DEF GroundInv, QuietInv
  <2> QED BY <2>1, <2>2
<1>4. Wait' \in 0 .. IdleTimeout \div 4 + MaxScan
  <2>1. Wait' = ToTick' + MaxScan
    BY <1>1, <1>2 DEF Wait
  <2>2. ToTick' = ToTick
    BY <1>1 DEF ToTick
  <2>3. ToTick \in 0 .. IdleTimeout \div 4
    BY <1>1, <1>2, WaitBounded DEF GroundInv, Counts, TimelyEnv
  <2> QED BY <2>1, <2>2, <2>3, NoticeIsNat
<1>5. busyFor' \in Nat
  BY NoticeIsNat DEF GroundInv, IdleInv
<1>6. InTime(busyFor', 0, Wait')
  BY <1>4, <1>5, InTimeBounds, Zenon
<1> QED BY <1>2, <1>3, <1>6
\* The manager's own steps: a stop ends the count, and one that fails leads to a retry.
LEMMA ManagerKeepsBusy ==
  ASSUME GroundInv, GroundInv', BusyInv, ManagerStep
  PROVE  BusyInv'
<1> DEFINE In == M!Inactivity
<1>1. /\ UNCHANGED <<loop, env, sources, config, due, pending, cursor, scanTime, busyFor>>
      /\ retrying' = (retrying \/ (pc[In] = "stopping" /\ pc'[In] = "looping"))
  BY DEF ManagerStep, wvars, timerVars
<1>2. In \in M!Managers /\ pc \in [M!Managers -> M!PC]
  BY DEF GroundInv, M!TypeOK, M!Managers
<1>3. quiet' = quiet
  BY DEF ManagerStep, M!Rearm, M!Select, M!TimerFires, M!StopSucceeds, M!StopFails
<1> SUFFICES ASSUME Counts' PROVE InTime(busyFor', quiet', Wait') /\ (MissedTick' => busyFor' = 0)
  BY DEF BusyInv
<1>4. Counts
  <2>1. TimelyEnv /\ ~retrying /\ ~(pc[In] = "stopping" /\ pc'[In] = "looping")
    BY <1>1 DEF Counts, TimelyEnv
  <2>2. pc[In] \notin {"stopping", "returned"}
    <3>1. CASE M!Rearm
      BY <3>1 DEF M!Rearm
    <3>2. CASE M!Select(In)
      BY <3>2 DEF M!Select
    <3>3. CASE M!TimerFires(In) \/ M!StopSucceeds(In)
      BY <1>2, <3>3 DEF M!TimerFires, M!StopSucceeds, Counts
    <3>4. CASE M!StopFails(In)
      BY <1>2, <2>1, <3>4 DEF M!StopFails
    <3> QED BY <3>1, <3>2, <3>3, <3>4 DEF ManagerStep
  <2> QED BY <2>1, <2>2 DEF Counts
<1>5. Wait' = Wait /\ (MissedTick' <=> MissedTick)
  BY <1>1 DEF Wait, Ahead, ToTick, Disabled, MissedTick
<1> QED BY <1>1, <1>3, <1>4, <1>5 DEF BusyInv

LEMMA BusyInvNext ==
  ASSUME GroundInv, GroundInv', BusyInv, [Next]_vars
  PROVE  BusyInv'
<1> USE DEF timerVars, fileVars, managerVars
<1>1. CASE ActivityStep \/ UNCHANGED vars
  <2>1. /\ UNCHANGED <<pc, quiet, retrying>>
        /\ UNCHANGED <<loop, env, sources, config, due, pending, cursor, scanTime>>
        /\ busyFor' \in {0, busyFor}
    BY <1>1 DEF ActivityStep, SetBusy, vars, wvars
  <2> QED BY <2>1, RestKeepsBusy
<1>2. CASE EnvironmentStep
  <2>1. UNCHANGED <<pc, quiet, retrying, busyFor, scanTime>>
    BY <1>2 DEF EnvironmentStep
  <2>2. CASE FileStep \/ StopWatcher
    <3>1. UNCHANGED <<loop, env, sources, config, due, pending, cursor>>
      BY <2>2, FilesAlone DEF StopWatcher
    <3> QED BY <2>1, <3>1, RestKeepsBusy
  <2>3. CASE \E given \in Environs : Start(given)
    <3>1. period = 0
      BY <2>3 DEF Start, GroundInv, ClockInv
    <3>2. busyFor' = 0
      BY <2>1, <3>1 DEF GroundInv, IdleInv
    <3> QED BY <2>1, <3>2, SoonerKeepsBusy
  <2> QED BY <1>2, <2>2, <2>3 DEF EnvironmentStep
<1> QED BY <1>1, <1>2, PassKeepsBusy, LoopKeepsBusy, ReportKeepsBusy, ManagerKeepsBusy DEF Next

LEMMA BusyInvCorrect == Spec => [](GroundInv /\ BusyInv)
<1>1. Init => ClockInv /\ SourcesInv /\ PeriodInv /\ IdleInv /\ QuietInv /\ BusyInv
  <2> SUFFICES ASSUME Init PROVE ClockInv /\ SourcesInv /\ PeriodInv /\ IdleInv /\ QuietInv /\ BusyInv
    OBVIOUS
  <2>1. /\ loop = "off" /\ started = FALSE /\ stopChan = "open" /\ period = 0 /\ pending = FALSE
        /\ busyFor = 0 /\ scanTime = 0 /\ quiet = 0
    BY DEF Init, WInit, M!Init
  <2>2. Wait = 0 /\ ~MissedTick
    BY <2>1 DEF Wait, MissedTick
  <2>3. InTime(0, 0, 0)
    BY NoticeIsNat DEF InTime
  <2>4. ClockInv
    <3>1. 0 \in Nat /\ 0 \in 0 .. MaxScan
      BY NoticeIsNat
    <3>2. ~started /\ ~pending /\ pending \in BOOLEAN
      BY <2>1
    <3>3. loop \notin {"inert", "load", "stat", "read", "loaded", "select", "scanning", "ticking"}
      BY <2>1
    <3> QED BY <2>1, <3>1, <3>2, <3>3 DEF ClockInv
  <2>5. SourcesInv /\ PeriodInv /\ QuietInv
    BY <2>1 DEF SourcesInv, PeriodInv, QuietInv
  <2>6. IdleInv
    BY <2>1, NoticeIsNat DEF IdleInv
  <2>7. BusyInv
    BY <2>1, <2>2, <2>3 DEF BusyInv
  <2> QED BY <2>4, <2>5, <2>6, <2>7
<1>2. SettingsInv /\ SettingsInv' /\ M!TypeOK /\ M!TypeOK' /\ [Next]_vars
        /\ ClockInv /\ SourcesInv /\ PeriodInv /\ IdleInv /\ QuietInv /\ BusyInv
      => (ClockInv /\ SourcesInv /\ PeriodInv /\ IdleInv /\ QuietInv /\ BusyInv)'
  BY ClockInvNext, PeriodInvNext, IdleInvNext, QuietInvNext, BusyInvNext DEF GroundInv
<1>3. Spec => []SettingsInv
  BY SettingsInvCorrect
<1>4. Spec => []M!TypeOK
  BY ManagerInvariants, PTL
<1>5. SettingsInv /\ M!TypeOK /\ ClockInv /\ SourcesInv /\ PeriodInv /\ IdleInv /\ QuietInv => GroundInv
  BY DEF GroundInv
<1> QED BY <1>1, <1>2, <1>3, <1>4, <1>5, PTL DEF Spec

\* For every idle timeout, check period, environment, file and number of sources, and
\* every interleaving: a workspace in use is not stopped (cli-watcher.go:321-377,
\* inactivity.go:95-118).
THEOREM TheBusyAreNotStopped == Spec => BusyIsNotStopped
<1> DEFINE In == M!Inactivity
           Kept == TimelyEnv /\ ~retrying /\ pc[In] = "parked" /\ pc'[In] = "stopping" => busyFor <= Notice
<1>1. GroundInv /\ BusyInv /\ M!TimersInv /\ [Next]_vars => [Kept]_vars
  <2> SUFFICES ASSUME GroundInv, BusyInv, M!TimersInv, Next, TimelyEnv, ~retrying,
                      pc[In] = "parked", pc'[In] = "stopping"
               PROVE  busyFor <= Notice
    OBVIOUS
  <2>1. M!TimerFires(In)
    <3>1. In \in M!Managers /\ pc \in [M!Managers -> M!PC]
      BY DEF GroundInv, M!TypeOK, M!Managers
    <3>2. CASE Pass \/ ActivityStep \/ EnvironmentStep \/ WatcherStep
      BY <3>2 DEF Pass, M!Pass, ActivityStep, EnvironmentStep, WatcherStep, managerVars
    <3>3. CASE ReportStep
      BY <3>1, <3>3 DEF ReportStep, M!Tick
    <3>4. CASE M!Rearm \/ M!StopSucceeds(In) \/ M!StopFails(In)
      BY <3>4 DEF M!Rearm, M!StopSucceeds, M!StopFails
    <3>5. CASE M!Select(In)
      BY <3>5 DEF M!Select
    <3> QED BY <3>2, <3>3, <3>4, <3>5 DEF Next, ManagerStep
  <2>2. left[In] = 0
    BY <2>1 DEF M!TimerFires
  <2>3. quiet >= IdleTimeout /\ quiet \in Nat
    <3>1. left[In] + quiet >= IdleTimeout /\ quiet \in Nat
      BY NoticeIsNat DEF M!TimersInv, GroundInv, M!TypeOK
    <3> QED BY <2>2, <3>1
  <2>4. InTime(busyFor, quiet, Wait) /\ Wait \in 0 .. Notice /\ busyFor \in Nat
    BY WaitBounded, NoticeIsNat DEF Counts, BusyInv, GroundInv, IdleInv
  <2>5. \A c, u \in Nat, n \in 0 .. Notice : InTime(c, u, n) /\ u >= IdleTimeout => c <= Notice
    BY NoticeIsNat DEF InTime
  <2> QED BY <2>3, <2>4, <2>5, Zenon
<1>2. Spec => [](GroundInv /\ BusyInv) /\ []M!TimersInv
  BY BusyInvCorrect, ManagerInvariants, PTL
<1> QED BY <1>1, <1>2, PTL DEF Spec, BusyIsNotStopped

-----------------------------------------------------------------------------
(***************************************************************************)
(* Types.  The times of the files are bounded by the number of changes.    *)
(***************************************************************************)
SavedFiles == [mtime : 1 .. MaxChanges, content : Contents \cup {Broken}]

BoundsInv ==
    /\ loop \in {"off", "inert", "load", "stat", "read", "loaded", "select", "scanning",
                 "ticking", "stopped", "crashed"}
    /\ \A p \in Places : files[p] # Absent => files[p] \in SavedFiles
    /\ changes \in 0 .. MaxChanges /\ newest \in 0 .. MaxChanges
    /\ period = 0 => due = 0
    /\ retrying \in BOOLEAN

LEMMA ChangeKeepsBounds ==
  ASSUME BoundsInv, FilesInv, NEW p \in Places, NEW file \in SavedFiles \cup {Absent}, ChangeFile(p, file),
         UNCHANGED retrying
  PROVE  BoundsInv'
<1> DEFINE fs == [files EXCEPT ![p] = file]
<1>1. /\ changes < MaxChanges /\ changes' = changes + 1 /\ files' = fs
      /\ newest' = AtLeast(newest, TimeIn(fs))
      /\ UNCHANGED <<loop, period, due>>
  BY DEF ChangeFile, timerVars
<1>2. \A q \in Places : fs[q] # Absent => fs[q] \in SavedFiles
  BY DEF BoundsInv, FilesInv
<1> HIDE DEF fs
<1>3. TimeIn(fs) \in 0 .. MaxChanges
  <2>1. MaxChanges \in Nat /\ 0 \in 0 .. MaxChanges /\ 1 .. MaxChanges \subseteq 0 .. MaxChanges
    BY WatcherAssumption
  <2>2. \A q \in Places : fs[q] # Absent => fs[q].mtime \in 0 .. MaxChanges
    BY <1>2, <2>1 DEF SavedFiles
  <2> QED BY <2>1, <2>2, FoundIsThere DEF TimeIn
<1>4. newest' \in 0 .. MaxChanges
  <2>1. \A a, b \in 0 .. MaxChanges : AtLeast(a, b) \in 0 .. MaxChanges
    BY DEF AtLeast
  <2>2. newest \in 0 .. MaxChanges
    BY DEF BoundsInv
  <2> QED BY <1>1, <1>3, <2>1, <2>2, Zenon
<1>5. changes' \in 0 .. MaxChanges
  BY <1>1, WatcherAssumption DEF BoundsInv
<1> QED BY <1>1, <1>2, <1>4, <1>5 DEF BoundsInv

LEMMA BoundsInvNext == BoundsInv /\ SettingsInv /\ ClockInv /\ [Next]_vars => BoundsInv'
<1> SUFFICES ASSUME BoundsInv, SettingsInv, ClockInv, [Next]_vars PROVE BoundsInv'
  OBVIOUS
<1> USE DEF timerVars, fileVars
<1>1. CASE EnvironmentStep
  <2>1. UNCHANGED retrying
    BY <1>1 DEF EnvironmentStep
  <2>2. CASE FileStep
    <3>1. PICK p \in Places :
            \/ Remove(p)
            \/ \E content \in Contents \cup {Broken} :
                  Save(p, content) \/ (\E mtime \in 1 .. changes : MoveIn(p, content, mtime))
      BY <2>2 DEF FileStep
    <3>2. CASE Remove(p)
      BY <2>1, <3>2, ChangeKeepsBounds DEF Remove, SettingsInv
    <3>3. ASSUME NEW content \in Contents \cup {Broken}, NEW mtime \in 1 .. MaxChanges,
                 ChangeFile(p, [mtime |-> mtime, content |-> content])
          PROVE  BoundsInv'
      <4>1. [mtime |-> mtime, content |-> content] \in SavedFiles
        BY DEF SavedFiles
      <4> QED BY <2>1, <3>3, <4>1, ChangeKeepsBounds DEF SettingsInv
    <3>4. MaxChanges \in Nat /\ changes \in 0 .. MaxChanges /\ 1 .. changes \subseteq 1 .. MaxChanges
      BY WatcherAssumption DEF BoundsInv
    <3>5. ASSUME NEW content \in Contents \cup {Broken}, Save(p, content) PROVE BoundsInv'
      <4>1. changes + 1 \in 1 .. MaxChanges
        BY <3>4, <3>5 DEF Save, ChangeFile
      <4> QED BY <3>3, <3>5, <4>1 DEF Save
    <3>6. ASSUME NEW content \in Contents \cup {Broken}, NEW mtime \in 1 .. changes, MoveIn(p, content, mtime)
          PROVE  BoundsInv'
      BY <3>3, <3>4, <3>6 DEF MoveIn
    <3> QED BY <3>1, <3>2, <3>5, <3>6
  <2>3. CASE \/ \E given \in Environs : Start(given)
             \/ StopWatcher
    BY <2>1, <2>3 DEF Start, StopWatcher, BoundsInv
  <2> QED BY <1>1, <2>2, <2>3 DEF EnvironmentStep
<1>2. CASE Pass
  BY <1>2 DEF Pass, Elapse, BoundsInv
<1>3. CASE ActivityStep \/ UNCHANGED vars
  BY <1>3 DEF ActivityStep, SetBusy, vars, wvars, BoundsInv
<1>4. CASE ManagerStep
  BY <1>4 DEF ManagerStep, wvars, BoundsInv
<1>5. CASE ReportStep
  BY <1>5 DEF ReportStep, Report, BoundsInv
<1>6. CASE WatcherStep
  <2>1. UNCHANGED <<files, changes, retrying>>
    BY <1>6 DEF WatcherStep, LoopStep, SelectStop, SelectTick, LookUpward, LookHome, StatMissing, StatUnchanged,
                StatChanged, ReadFails, ReadNew, FirstTicker, SkipScan, BeginScan, Scan
  <2>4. newest' \in 0 .. MaxChanges
    <3>1. CASE StatChanged
      <4> DEFINE mtime == files[reading.path].mtime
      <4>1. reading.path \in Places /\ files[reading.path] # Absent /\ newest' = AtLeast(newest, mtime)
        BY <3>1 DEF StatChanged, Gone, Present
      <4>2. mtime \in 0 .. MaxChanges /\ newest \in 0 .. MaxChanges
        BY <4>1 DEF BoundsInv, SavedFiles
      <4> QED BY <4>1, <4>2 DEF AtLeast
    <3>2. CASE UNCHANGED newest
      BY <3>2 DEF BoundsInv
    <3> QED BY <1>6, <3>1, <3>2 DEF WatcherStep, LoopStep, SelectStop, SelectTick, LookUpward, LookHome,
             StatMissing, StatUnchanged, ReadFails, ReadNew, FirstTicker, SkipScan, BeginScan, Scan
  <2>2. loop' \in {"load", "stat", "read", "loaded", "select", "scanning", "ticking", "stopped", "crashed"}
    BY <1>6 DEF WatcherStep, LoopStep, SelectStop, SelectTick, LookUpward, LookHome, StatMissing, StatUnchanged,
                StatChanged, ReadFails, ReadNew, FirstTicker, SkipScan, BeginScan, Scan
  <2>3. period' = 0 => due' = 0
    <3>1. CASE SelectStop \/ SelectTick \/ LookUpward \/ LookHome \/ StatMissing \/ StatUnchanged
               \/ StatChanged \/ ReadFails \/ ReadNew \/ Scan
      BY <3>1 DEF SelectStop, SelectTick, LookUpward, LookHome, StatMissing, StatUnchanged,
                  StatChanged, ReadFails, ReadNew, Scan, BoundsInv
    <3>2. CASE FirstTicker
      BY <3>2 DEF FirstTicker, NewTicker, BoundsInv
    <3>3. CASE SkipScan
      <4>1. DefaultSeconds # 0
        BY DEF DefaultSeconds, DefaultCheckPeriod, Second
      <4> QED BY <3>3, <4>1 DEF SkipScan, KeepOrRestartTicker, NewTicker, BoundsInv
    <3>4. CASE BeginScan
      <4> DEFINE given == config.set.period \div Second
      <4>1. period # 0 /\ KeepOrRestartTicker(IF given > 0 THEN given ELSE period)
        BY <3>4 DEF BeginScan
      <4> HIDE DEF given
      <4>2. (IF given > 0 THEN given ELSE period) # 0
        BY <4>1
      <4> QED BY <4>1, <4>2 DEF KeepOrRestartTicker, NewTicker
    <3> QED BY <1>6, <3>1, <3>2, <3>3, <3>4 DEF WatcherStep, LoopStep
  <2> QED BY <2>1, <2>2, <2>3, <2>4 DEF BoundsInv
<1> QED BY <1>1, <1>2, <1>3, <1>4, <1>5, <1>6 DEF Next

\* The watcher and the manager keep their types, for every value of the constants.
THEOREM TypeCorrect == Spec => []TypeOK
<1>1. Init => BoundsInv
  <2> SUFFICES ASSUME Init PROVE BoundsInv
    OBVIOUS
  <2>1. /\ loop = "off" /\ files = [p \in Places |-> Absent] /\ changes = 0 /\ newest = 0
        /\ period = 0 /\ due = 0 /\ retrying = FALSE
    BY DEF Init, WInit
  <2>2. 0 \in 0 .. MaxChanges /\ retrying \in BOOLEAN /\ \A p \in Places : files[p] = Absent
    <3>1. 0 \in 0 .. MaxChanges
      BY WatcherAssumption
    <3>2. retrying \in BOOLEAN
      BY <2>1
    <3> QED BY <2>1, <3>1, <3>2
  <2> QED BY <2>1, <2>2 DEF BoundsInv
<1>2. Spec => []BoundsInv
  BY <1>1, BoundsInvNext, SettingsInvCorrect, BusyInvCorrect, PTL DEF Spec, GroundInv
<1>3. ASSUME BoundsInv, FollowInv, GroundInv PROVE TypeOK
  <2>1. files \in [Places -> {Absent} \cup SavedFiles]
    BY <1>3 DEF BoundsInv, GroundInv, SettingsInv, FilesInv
  <2>2. config = NoConfig \/ config.mtime \in 0 .. MaxChanges
    <3> SUFFICES ASSUME config # NoConfig PROVE config.mtime \in 0 .. MaxChanges
      OBVIOUS
    <3>1. config.mtime \in Nat
      BY <1>3 DEF FollowInv, ConfigTypes, Configs
    <3>2. config.mtime <= newest /\ newest \in 0 .. MaxChanges /\ MaxChanges \in Nat
      BY <1>3, WatcherAssumption DEF FollowInv, RememberedInv, BoundsInv
    <3> QED BY <3>1, <3>2
  <2>3. period \in Nat /\ due \in Nat /\ (period # 0 => due > 0)
    BY <1>3, StepsPositive DEF GroundInv, ClockInv, BoundsInv
  <2>4. /\ loop = "scanning" => cursor \in DOMAIN sources
        /\ loop \in {"scanning", "ticking"} => ~Disabled
        /\ scanTime \in 0 .. MaxScan
    BY <1>3 DEF GroundInv, ClockInv
  <2>5. WTypeOK
    BY <1>3, <2>1, <2>2, <2>3, <2>4 DEF BoundsInv, WTypeOK, SavedFiles
  <2> QED BY <1>3, <2>4, <2>5 DEF GroundInv, IdleInv, BoundsInv, TypeOK
<1> QED BY <1>2, <1>3, FollowInvCorrect, BusyInvCorrect, PTL
=============================================================================
