-------------------------- MODULE MCWatchedWorkspace --------------------------
(***************************************************************************)
(* Instances of WatchedWorkspace for TLC: a project with one directory,    *)
(* a file there and one in the home directory, and an idle timeout of 80 s *)
(* on a clock of steps of 10 s.                                            *)
(***************************************************************************)
EXTENDS WatchedWorkspace

Given(enabled, checkPeriod, entries) ==
    [enabled |-> enabled, period |-> checkPeriod, window |-> 0, grace |-> 0, age |-> 0,
     sources |-> entries]

Entry(name, flag) == [name |-> name, valid |-> TRUE, flag |-> flag]

Both == <<Entry("codex-app-server", "enabled")>>

MCEnvirons ==
    { Given("true", 0, Both),
      Given("true", 500, <<>>),
      Given("unset", 10 * Second, <<Entry("tty", "enabled"), Entry("tty", "disabled")>>),
      Given("true", 0, <<Entry("tty", "disabled"), Entry("tty", "true")>>) }

MCContents == { [NoFile EXCEPT !.period = 500], [NoFile EXCEPT !.period = Hour, !.seconds = 30] }

MCPath == <<"project">>
=============================================================================
