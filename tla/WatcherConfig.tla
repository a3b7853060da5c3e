---------------------------- MODULE WatcherConfig ----------------------------
(***************************************************************************)
(* How the CLI watcher arrives at its settings (package timeout): which    *)
(* .noidle file counts, what its values become, what the administrator's   *)
(* environment makes of them, and which activity sources are active.       *)
(*                                                                         *)
(* Durations are integers of milliseconds.  A duration as somebody writes  *)
(* it is 0 when it is not given and negative when it is a text that does   *)
(* not parse, or parses to something that is not positive.                 *)
(***************************************************************************)
EXTENDS Integers, Sequences, FiniteSets

Second == 1000
Minute == 60 * Second
Hour   == 60 * Minute

DefaultCheckPeriod    == 60 * Second
DefaultActivityWindow == 25 * Minute
DefaultGracePeriod    == 5 * Minute
DefaultMaxProcessAge  == 6 * Hour
MinActivityWindow     == 2 * Minute
MinGracePeriod        == 1 * Minute
MinCheckPeriod        == 10 * Second
SafetyBufferDuration  == 5 * Minute

AtLeast(n, bound) == IF n < bound THEN bound ELSE n
AtMost(n, bound)  == IF n > bound THEN bound ELSE n

\* parseDuration: a value beyond the maximum of its field counts as not usable,
\* and is replaced by the default rather than by the maximum.
ParseDuration(given, max, default) == IF given > 0 /\ given <= max THEN given ELSE default

-----------------------------------------------------------------------------
(***************************************************************************)
(* A file is a record of what it gives: the four durations, the deprecated *)
(* seconds, the watched commands and the ignored commands.                 *)
(***************************************************************************)

\* The check period goes up to its minimum first and then down to its maximum.
MaxCheckPeriod(idle) == IF idle > 0 THEN AtMost(idle \div 4, 10 * Minute) ELSE 10 * Minute

\* Mutant: there is no minimum.
CheckPeriodNoMinimum(file, idle) ==
    LET wanted == IF file.period # 0 THEN ParseDuration(file.period, Hour, DefaultCheckPeriod)
                  ELSE IF file.seconds > 0 THEN file.seconds * Second ELSE DefaultCheckPeriod
    IN  AtMost(wanted, MaxCheckPeriod(idle))

CheckPeriod(file, idle) ==
    LET wanted == IF file.period # 0 THEN ParseDuration(file.period, Hour, DefaultCheckPeriod)
                  ELSE IF file.seconds > 0 THEN file.seconds * Second ELSE DefaultCheckPeriod
    IN  AtMost(AtLeast(wanted, MinCheckPeriod), MaxCheckPeriod(idle))

GracePeriod(file, idle) ==
    ParseDuration(file.grace, Hour,
        IF file.grace = 0 /\ idle > 0
          THEN AtLeast(AtMost((idle * 15) \div 100, DefaultGracePeriod), MinGracePeriod)
          ELSE DefaultGracePeriod)

SafetyBuffer(idle) == AtMost(idle \div 5, SafetyBufferDuration)

\* Without an idle timeout the window outlasts the grace period by two minutes.
ActivityWindow(file, idle) ==
    LET grace == GracePeriod(file, idle)
    IN  ParseDuration(file.window, 24 * Hour,
            CASE file.window = 0 /\ idle > 0 -> AtLeast(idle - grace - SafetyBuffer(idle), MinActivityWindow)
              [] file.window = 0 /\ idle <= 0 -> AtLeast(grace + 2 * Minute, DefaultActivityWindow)
              [] OTHER -> DefaultActivityWindow)

MaxProcessAge(file) == ParseDuration(file.age, 7 * 24 * Hour, DefaultMaxProcessAge)

\* Commands that never prevent idling; a watched command is found here whatever
\* its case, and stays watched only with forceWatch.
alwaysIgnoredCommands == {"tail", "watch", "top", "htop"}

IsAlwaysIgnored(cmd) == cmd.name \in alwaysIgnoredCommands
Excluded(cmd) == IsAlwaysIgnored(cmd) /\ ~cmd.force

WatchedCommands(file) ==
    LET Kept(cmd) == ~Excluded(cmd) IN SelectSeq(file.watched, Kept)

IgnoredCommands(file) ==
    file.ignored \cup {file.watched[i].name : i \in {j \in DOMAIN file.watched : Excluded(file.watched[j])}}

\* What a missing file amounts to.
NoFile == [period |-> 0, seconds |-> 0, window |-> 0, grace |-> 0, age |-> 0,
           watched |-> <<>>, ignored |-> {}]

-----------------------------------------------------------------------------
(***************************************************************************)
(* The environment of the administrator.                                   *)
(***************************************************************************)

\* parseDurationEnv: a value that is not usable is as good as none (0).
EnvDuration(given) == ParseDuration(given, 24 * Hour, 0)

\* loadEnvConfig.  enabled is "true", "false" or "unset", an invalid value included.
LoadEnv(given) ==
    [enabled |-> given.enabled, period |-> EnvDuration(given.period),
     window |-> EnvDuration(given.window), grace |-> EnvDuration(given.grace),
     age |-> EnvDuration(given.age)]

\* Mutant: the value of the user is kept.
CeilingIgnored(limit, given, resolved) ==
    IF limit = 0 \/ given # 0 THEN resolved ELSE limit

\* applyDurationCeiling.  Only a field of the file counts as given, and it may
\* only be smaller; a default gives way to the limit, even to a larger one.
Ceiling(limit, given, resolved) ==
    IF limit = 0 THEN resolved
    ELSE IF given # 0 THEN AtMost(resolved, limit)
    ELSE limit

\* applyDefaults, ignoreExclusions and applyEnvCeilings, one after the other.
\* The deprecated seconds do not count as given.  Whether detection is enabled is
\* for the administrator alone to say, and false unless he does.
Resolve(file, env, idle) ==
    [enabled |-> env.enabled = "true",
     period  |-> Ceiling(env.period, file.period, CheckPeriod(file, idle)),
     window  |-> Ceiling(env.window, file.window, ActivityWindow(file, idle)),
     grace   |-> Ceiling(env.grace, file.grace, GracePeriod(file, idle)),
     age     |-> Ceiling(env.age, file.age, MaxProcessAge(file)),
     watched |-> WatchedCommands(file),
     ignored |-> IgnoredCommands(file)]

-----------------------------------------------------------------------------
(***************************************************************************)
(* The place of the file.                                                  *)
(***************************************************************************)
None == "none"

\* findUpward: from the first directory of the path towards the root of the file
\* system, up to and including stop, but through no more than 100 directories;
\* present are the places where there is a file.
maxIterations == 100

Visited(path, stop) ==
    {i \in DOMAIN path : i <= maxIterations /\ \A j \in 1 .. i - 1 : path[j] # stop}

FindUpward(path, stop, present) ==
    LET hits == {i \in Visited(path, stop) : path[i] \in present}
    IN  IF hits = {} THEN None ELSE path[CHOOSE i \in hits : \A j \in hits : i <= j]

\* getConfigPath: an explicit path is taken as it is; home is None when $HOME is
\* not set or the root.
ConfigPath(explicit, path, stop, home, present) ==
    LET found == FindUpward(path, stop, present)
    IN  CASE explicit # None -> explicit
          [] explicit = None /\ found # None -> found
          [] OTHER -> IF home # None /\ home \in present THEN home ELSE None

-----------------------------------------------------------------------------
(***************************************************************************)
(* The activity sources.  The variable that names them is a sequence of    *)
(* entries: a name, valid or not, and a flag.                              *)
(***************************************************************************)
Enabling  == {"none", "enabled", "true"}
Disabling == {"disabled", "false"}

\* The elements of s at these positions, in their order: what a loop with a continue
\* for the others appends.  (SelectSeq says the same, but is opaque to the provers.)
Those(s, positions) ==
    [k \in 1 .. Cardinality(positions) |->
        s[CHOOSE i \in positions : Cardinality({j \in positions : j <= i}) = k]]

\* parseActivitySourcesEnv: malformed entries are dropped, and of two entries for
\* one name the first counts.
ParseSelectors(entries) ==
    LET wellFormed(e) == e.valid /\ e.flag \in Enabling \cup Disabling
        good == Those(entries, {i \in DOMAIN entries : wellFormed(entries[i])})
        first == {i \in DOMAIN good : \A j \in 1 .. i - 1 : good[j].name # good[i].name}
    IN  [i \in DOMAIN good |->
            [name |-> good[i].name, enabled |-> good[i].flag \in Enabling, first |-> i \in first]]

\* allActivitySources and defaultOnActivitySources.
allActivitySources       == <<"tty", "codex-app-server">>
defaultOnActivitySources == {"tty"}

\* resolveActiveActivitySources: those the administrator enables, in his order,
\* then the default ones he does not mention, in the order of the registry.
ResolveSources(selectors) ==
    LET Enabled(s) == s.first /\ s.enabled /\ s.name \in {allActivitySources[i] : i \in DOMAIN allActivitySources}
        chosen     == Those(selectors, {i \in DOMAIN selectors : Enabled(selectors[i])})
        Implied(n) == n \in defaultOnActivitySources /\ \A i \in DOMAIN selectors : selectors[i].name # n
    IN  [i \in DOMAIN chosen |-> chosen[i].name]
            \o Those(allActivitySources, {i \in DOMAIN allActivitySources : Implied(allActivitySources[i])})
=============================================================================
