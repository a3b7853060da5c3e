------------------------- MODULE ContainerResolution -------------------------
(***************************************************************************)
(* In which container of the workspace an exec runs, and what command it   *)
(* is given there (packages filter, shell and exec-info, and               *)
(* command_resolver.go).                                                   *)
(*                                                                         *)
(* A container is known by its pod, its name, the value of its variable    *)
(* CHE_MACHINE_NAME and what becomes of the three commands that are tried  *)
(* in it: "id -u", "cat /etc/passwd" and "sh -c exit 0".  A trial ends,    *)
(* fails, or hangs; out is what was printed until then, and err says       *)
(* whether anything was printed to stderr.                                 *)
(***************************************************************************)
EXTENDS Sequences, Naturals

None == "none"
DefaultShell == "sh"
NoLogin == {"/sbin/nologin", "/usr/sbin/nologin"}

-----------------------------------------------------------------------------
\* Start of a KubernetesInfoExec succeeds also if the command hangs for three seconds.
Starts(trial) == trial.end # "fails" /\ ~trial.err

\* DetectShell: the user's shell in /etc/passwd.
DetectShell(c) ==
    IF Starts(c.id) /\ Starts(c.passwd)
      THEN IF c.id.out \in DOMAIN c.passwd.out THEN c.passwd.out[c.id.out] ELSE None
      ELSE None

\* What a container whose pod is down looks like.
Unreachable(c) ==
    LET fails == [end |-> "fails", err |-> FALSE, out |-> None]
    IN  [c EXCEPT !.id = fails, !.passwd = fails, !.test = fails]

setUpExecShellPath(c) ==
    CASE DetectShell(c) \notin NoLogin \cup {None} -> DetectShell(c)
      [] DetectShell(c) \in NoLogin \cup {None} -> IF Starts(c.test) THEN DefaultShell ELSE None

\* ResolveCmd fails when there is no shell.  A shell that is given is not tried out.
ResolveCmd(exec, c) ==
    LET given == IF exec.type \in {"", "shell"} /\ exec.cmd # <<>> THEN exec.cmd[1] ELSE None
        shell == IF given # None THEN given ELSE setUpExecShellPath(c)
        words == IF Len(exec.cmd) >= 2 /\ exec.cmd[2] = "-c" THEN SubSeq(exec.cmd, 3, Len(exec.cmd)) ELSE exec.cmd
    IN  [shell |-> shell, cwd |-> exec.cwd, words |-> IF words = <<>> THEN <<shell>> ELSE words]

-----------------------------------------------------------------------------
\* The containers a request without a machine name tries in turn, and the one a
\* request with a machine name is for; running are those of the running pods.
GetContainerList(running) == running

FindContainerInfo(running, machine) ==
    LET Named(c) == machine \in {c.machine, c.name}
        found == SelectSeq(running, Named)
    IN  IF found = <<>> THEN <<>> ELSE <<found[1]>>

Candidates(exec, running) ==
    IF exec.machine # None THEN FindContainerInfo(running, exec.machine) ELSE GetContainerList(running)
=============================================================================
