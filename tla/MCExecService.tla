---------------------------- MODULE MCExecService ----------------------------
(* Model values and bounds for the check of ExecService. *)
EXTENDS ExecService

CONSTANTS c1, c2, p1, p2

Ends(text) == [end |-> "ends", err |-> FALSE, out |-> text]
Fails == [end |-> "fails", err |-> FALSE, out |-> None]

\* A container without a login shell and without sh, and one whose user has a shell.
MCCluster == <<
    [pod |-> p1, name |-> "sidecar", machine |-> None,
     id |-> Ends("0"), passwd |-> Ends([u \in {"0"} |-> "/sbin/nologin"]), test |-> Fails],
    [pod |-> p2, name |-> "tools", machine |-> "dev",
     id |-> Ends("0"), passwd |-> Ends([u \in {"0"} |-> "/bin/bash"]), test |-> Fails] >>

MCWanted == {[type |-> "", cmd |-> <<>>, cwd |-> "", machine |-> None],
             [type |-> "shell", cmd |-> <<"sh", "-c", "make">>, cwd |-> "", machine |-> "dev"],
             [type |-> "", cmd |-> <<>>, cwd |-> "$(pwd)", machine |-> None]}

MCUnsafe == {"$(pwd)"}

MCMaxRequests == [c \in Clients |-> IF c = c1 THEN 2 ELSE 0]
=============================================================================
