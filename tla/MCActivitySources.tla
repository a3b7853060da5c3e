-------------------------- MODULE MCActivitySources --------------------------
(***************************************************************************)
(* Instances of ActivitySources for TLC: a build in the background, an     *)
(* editor that waits for its user, and a tail that the file wants watched. *)
(***************************************************************************)
EXTENDS ActivitySources

Kind(name, foreground, channel) ==
    [name |-> name, fg |-> foreground, wait |-> channel, tty |-> TRUE]

MCKinds == {Kind("make", FALSE, "nothing"), Kind("vi", TRUE, "tty"), Kind("tail", TRUE, "poll")}

MCWatchFile ==
    [watched |-> <<[name |-> "tail", force |-> TRUE, mode |-> "no"]>>, ignored |-> {"cat"}]
=============================================================================
