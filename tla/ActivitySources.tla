--------------------------- MODULE ActivitySources ---------------------------
(***************************************************************************)
(* The two activity sources side by side: the administrator has enabled    *)
(* one of them with CLI_WATCHER_ACTIVITY_SOURCES, and the other is at rest *)
(* (resolveActiveActivitySources in activity_source.go).  They share       *)
(* nothing but the processes' PIDs.                                        *)
(***************************************************************************)
EXTENDS Naturals

CONSTANTS
    Pids, Main, Shell, Terminals, NoTty, Kinds, Nothing, WatchFile,
    Window, Grace, MaxAge, Atime, maxDepth, CleanupAt, MaxTime, MaxTicks, MaxSpawns,
    ServerPids, Threads, MaxStarts, MaxChatter

VARIABLES
    enabled,  \* the one source that is active
    now, proc, spawned, atime, ttyCache, cpuCache, pc, todo, subject, peak,
    server, starts, conns, sockets, apiPc, apiTodo, cand, asked, left, got, result

ttyVars   == <<now, proc, spawned, atime, ttyCache, cpuCache, pc, todo, subject, peak>>
codexVars == <<server, starts, conns, sockets, apiPc, apiTodo, cand, asked, left, got, result>>
vars      == <<enabled, ttyVars, codexVars>>

Tty   == INSTANCE TtyActivity
Codex == INSTANCE CodexSource WITH Pids <- ServerPids, pc <- apiPc, todo <- apiTodo

ASSUME SourcesAssumption == Tty!TtyAssumption /\ Codex!CodexAssumption

Init == enabled \in {"tty", "codex-app-server"} /\ Tty!Init /\ Codex!Init

WithTty(action)   == enabled = "tty" /\ action /\ UNCHANGED <<enabled, codexVars>>
WithCodex(action) == enabled = "codex-app-server" /\ action /\ UNCHANGED <<enabled, ttyVars>>

Next == WithTty(Tty!Next) \/ WithCodex(Codex!Next)

\* The watcher scans again and again, and a server that does not hang answers.
Spec ==
    /\ Init /\ [][Next]_vars
    /\ WF_vars(WithCodex(Codex!ScanStep))
    /\ \A p \in ServerPids : WF_vars(WithCodex(Codex!ServerAnswers(p)))

-----------------------------------------------------------------------------
(***************************************************************************)
(* Properties: those of the source that is enabled.                        *)
(***************************************************************************)

\* The types of both sources; a scan of processes looks at each of them once.
TypeOK == Tty!TypeOK /\ Codex!TypeOK

\* No process in use is found inactive (activity_source_tty.go:42-145).
ActivityIsSeen == Tty!ActivityIsSeen

\* The CPU samples of processes that are gone do not pile up
\* (activity_source_tty.go:602-635).
CpuCacheBounded == Tty!CpuCacheBounded

\* What is open is what the source knows of
\* (activity_source_codex_app_server_api.go:161-210).
NoConnectionLeak == Codex!NoConnectionLeak

\* A call takes the answer to itself and to no other
\* (codex_app_server_client.go:174-219).
AnswersMatch == Codex!AnswersMatch

\* A thread at work is seen in the end
\* (activity_source_codex_app_server_api.go:60-158).
ActiveServerIsSeen == Codex!ActiveServerIsSeen
=============================================================================
