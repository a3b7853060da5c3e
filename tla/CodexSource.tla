----------------------------- MODULE CodexSource -----------------------------
(***************************************************************************)
(* The activity source "codex-app-server" (package timeout): for each      *)
(* process that looks like a codex app-server, a connection to its control *)
(* socket, kept from scan to scan under the PID, on which a scan asks for  *)
(* the loaded threads and then for each of them.  Activity is a thread     *)
(* whose updatedAt is recent.                                              *)
(*                                                                         *)
(* Threads are told apart only by what a scan makes of their updatedAt:    *)
(* "stale", "fresh" (within the window) or "future" (the clocks disagree); *)
(* a scan is short against the window.  A call is one request, and the     *)
(* frames that come until the one with its id, or the deadline of 5 s.     *)
(***************************************************************************)
EXTENDS Naturals, Sequences, FiniteSets

CONSTANTS
    Pids,       \* PIDs at which app-servers run, in the order of the directory
    Threads,
    Nothing,    \* no server, no connection, no answer
    MaxStarts,  \* bound: servers started at each PID
    MaxChatter  \* bound: frames nobody asked for, from each server

Stamps == {"stale", "fresh", "future"}

\* Requests and frames know which call they are of; "now" is the one under way.
Calls    == {"initialize", "list"} \cup Threads
Requests == [now : BOOLEAN, of : Calls]
Frames   == [kind : {"answer", "noise", "request"}, now : BOOLEAN, of : Calls \cup {"chatter"},
             value : {"ok", "error", "none"} \cup Stamps, list : SUBSET Threads]

\* A connection: the server it leads to, whether it has been initialized, the
\* requests that server has still to answer, and the frames still to be read.
Connections == [id : Nat, cached : BOOLEAN, requests : Seq(Requests), inbox : Seq(Frames)]

\* What is taken of the constants.
CodexAssumption ==
    /\ Pids \subseteq Nat /\ IsFiniteSet(Pids)
    /\ MaxStarts \in Nat /\ MaxChatter \in Nat
    /\ Threads \cap ({"initialize", "list"} \cup Stamps) = {}
    /\ Nothing \notin Threads \cup Stamps \cup Connections

VARIABLES
    server,   \* the server at each PID: which one it is, its threads, whether it answers
    starts,   \* servers started at each PID
    conns,    \* the connection to each PID, if any: see Connect
    sockets,  \* (history) sockets opened and not closed
    pc,       \* "idle", "next", or what is called: "initialize", "list" or "read"
    todo,     \* candidates still to be scanned
    cand,     \* the candidate being scanned
    asked,    \* thread being read
    left,     \* loaded threads still to be read
    got,      \* what was read of each thread
    result    \* of the last scan

scanVars == <<pc, todo, cand, asked, left, got, result>>
vars == <<server, starts, conns, sockets, scanVars>>

Loaded(p)   == {t \in Threads : server[p].threads[t] # Nothing}
NothingRead == [t \in Threads |-> Nothing]

Init ==
    /\ server = [p \in Pids |-> Nothing] /\ starts = [p \in Pids |-> 0]
    /\ conns = [p \in Pids |-> Nothing] /\ sockets = 0
    /\ pc = "idle" /\ todo = {} /\ cand = 0 /\ asked = Nothing /\ left = {}
    /\ got = NothingRead /\ result = "none"

-----------------------------------------------------------------------------
(***************************************************************************)
(* The servers.                                                            *)
(***************************************************************************)
Running == {p \in Pids : server[p] # Nothing}

ServerStarts(p) ==
    /\ p \notin Running /\ starts[p] < MaxStarts
    /\ starts' = [starts EXCEPT ![p] = @ + 1]
    /\ server' = [server EXCEPT ![p] =
                    [id |-> starts[p] + 1, threads |-> NothingRead, hangs |-> FALSE, chatter |-> 0]]
    /\ UNCHANGED <<conns, sockets, scanVars>>

ServerExits(p) ==
    /\ p \in Running
    /\ server' = [server EXCEPT ![p] = Nothing]
    /\ UNCHANGED <<starts, conns, sockets, scanVars>>

ServerHangs(p) ==
    /\ p \in Running
    /\ server' = [server EXCEPT ![p].hangs = ~@]
    /\ UNCHANGED <<starts, conns, sockets, scanVars>>

\* A thread is loaded, has a turn, grows old between two scans, or is unloaded.
ThreadChanges(p, t, stamp) ==
    /\ p \in Running /\ server[p].threads[t] # stamp
    /\ stamp = "stale" => pc = "idle"
    /\ server' = [server EXCEPT ![p].threads[t] = stamp]
    /\ UNCHANGED <<starts, conns, sockets, scanVars>>

\* The connection leads to the server that runs at its PID now.
Connected(p) == IF p \in Running /\ conns[p] # Nothing THEN conns[p].id = server[p].id ELSE FALSE

AnswerTo(p, r) ==
    [kind |-> "answer", now |-> r.now, of |-> r.of,
     value |-> CASE r.of \in {"initialize", "list"} -> "ok"
                 [] r.of \in Loaded(p)              -> server[p].threads[r.of]
                 [] OTHER                           -> "error",
     list |-> IF r.of = "list" THEN Loaded(p) ELSE {}]

\* Requests are answered in turn.
ServerAnswers(p) ==
    /\ Connected(p) /\ ~server[p].hangs
    /\ conns[p].requests # <<>>
    /\ conns' = [conns EXCEPT ![p].requests = Tail(@),
                    ![p].inbox = Append(@, AnswerTo(p, Head(conns[p].requests)))]
    /\ UNCHANGED <<server, starts, sockets, scanVars>>

Chatter(kind) == [kind |-> kind, now |-> TRUE, of |-> "chatter", value |-> "none", list |-> {}]

\* A notification, a frame that does not parse, or a request of the server's own,
\* whose id may happen to be that of the call under way.
ServerChatters(p, kind) ==
    /\ Connected(p) /\ server[p].chatter < MaxChatter
    /\ server' = [server EXCEPT ![p].chatter = @ + 1]
    /\ conns' = [conns EXCEPT ![p].inbox = Append(@, Chatter(kind))]
    /\ UNCHANGED <<starts, sockets, scanVars>>

-----------------------------------------------------------------------------
(***************************************************************************)
(* Calls.  A frame is for the present call ("now") if it carries its id.   *)
(***************************************************************************)
\* Mutant: every call has the same id.
EarlierSameId(frames) == frames

Earlier(frames) == [i \in DOMAIN frames |-> [frames[i] EXCEPT !.now = FALSE]]

Request(conn, method) ==
    [conn EXCEPT !.requests = Append(Earlier(@), [now |-> TRUE, of |-> method]),
                 !.inbox = Earlier(@)]

Connect(p) == [id |-> server[p].id, cached |-> FALSE, requests |-> <<>>, inbox |-> <<>>]

Waiting == pc \in {"initialize", "list", "read"}
Arrived == IF Waiting /\ conns[cand].inbox # <<>> THEN Head(conns[cand].inbox)
           ELSE [Chatter("noise") EXCEPT !.now = FALSE]
Mine(frame) == frame.kind \in {"answer", "request"} /\ frame.now

Taken == [conns[cand] EXCEPT !.inbox = Tail(@)]

\* Malformed frames, notifications and other ids are passed over.
SkipFrame ==
    /\ Waiting /\ conns[cand].inbox # <<>> /\ ~Mine(Arrived)
    /\ conns' = [conns EXCEPT ![cand] = Taken]
    /\ UNCHANGED <<server, starts, sockets, scanVars>>

\* The call comes back with an answer of the server.
Answered == Waiting /\ Arrived.kind = "answer" /\ Arrived.now

\* The call fails without one: the deadline passes, the server is gone, or the frame
\* with the id of the call is a request, which has no result to decode.
CallFails ==
    /\ Waiting
    /\ \/ cand \in Running /\ server[cand].hangs
       \/ ~Connected(cand)
       \/ Arrived.kind = "request" /\ Arrived.now /\ pc # "initialize"

-----------------------------------------------------------------------------
(***************************************************************************)
(* The scan.                                                               *)
(***************************************************************************)

\* findCodexAppServerProcesses and pruneStaleConnections.
ScanBegin ==
    LET stale == {p \in Pids \ Running : conns[p] # Nothing}
    IN  /\ pc = "idle"
        /\ pc' = "next" /\ todo' = Running
        /\ conns' = [p \in Pids |-> IF p \in stale THEN Nothing ELSE conns[p]]
        /\ sockets' = sockets - Cardinality(stale)
        /\ UNCHANGED <<server, starts, cand, asked, left, got, result>>

First == CHOOSE p \in todo : \A q \in todo : p <= q

\* getOrDialClient with a connection from an earlier scan, whoever it leads to.
UseCached ==
    /\ pc = "next" /\ todo # {} /\ conns[First] # Nothing
    /\ cand' = First /\ todo' = todo \ {First}
    /\ pc' = "list"
    /\ conns' = [conns EXCEPT ![First] = Request(@, "list")]
    /\ UNCHANGED <<server, starts, sockets, asked, left, got, result>>

Dial ==
    /\ pc = "next" /\ todo # {} /\ First \in Running /\ conns[First] = Nothing
    /\ cand' = First /\ todo' = todo \ {First}
    /\ pc' = "initialize"
    /\ conns' = [conns EXCEPT ![First] = Request(Connect(First), "initialize")]
    /\ sockets' = sockets + 1
    /\ UNCHANGED <<server, starts, asked, left, got, result>>

DialFails ==
    /\ pc = "next" /\ todo # {} /\ conns[First] = Nothing
    /\ First \in Running => server[First].hangs
    /\ todo' = todo \ {First}
    /\ UNCHANGED <<server, starts, conns, sockets, pc, cand, asked, left, got, result>>

\* The handshake is over, also when it was a request that had its id.
Initialized ==
    /\ pc = "initialize" /\ Mine(Arrived)
    /\ pc' = "list"
    /\ conns' = [conns EXCEPT ![cand] = Request([Taken EXCEPT !.cached = TRUE], "list")]
    /\ UNCHANGED <<server, starts, sockets, todo, cand, asked, left, got, result>>

\* Mutant: a connection that fails is forgotten but not closed.
DropLeaks == conns' = [conns EXCEPT ![cand] = Nothing] /\ UNCHANGED sockets

\* dropConnection, and the Close of a connection that could not be initialized.
Drop == conns' = [conns EXCEPT ![cand] = Nothing] /\ sockets' = sockets - 1

\* What one candidate leaves behind is gone when the next one is looked at.
NextCandidate ==
    pc' = "next" /\ cand' = 0 /\ asked' = Nothing /\ left' = {} /\ got' = NothingRead

ConnectionFails ==
    /\ pc \in {"initialize", "list"} /\ CallFails
    /\ Drop
    /\ NextCandidate
    /\ UNCHANGED <<server, starts, todo, result>>

\* The freshest thread decides, and one from the future hides the others.
Active(read) ==
    /\ \E t \in Threads : read[t] = "fresh"
    /\ \A t \in Threads : read[t] # "future"

Decide(read) ==
    IF Active(read)
      THEN /\ result' = "active" /\ pc' = "idle" /\ todo' = {}
           /\ cand' = 0 /\ asked' = Nothing /\ left' = {} /\ got' = NothingRead
      ELSE NextCandidate /\ UNCHANGED <<todo, result>>

ReadOrDecide(conn, remaining, read) ==
    IF remaining = {}
      THEN /\ conns' = [conns EXCEPT ![cand] = conn]
           /\ Decide(read)
      ELSE \E t \in remaining :
              /\ conns' = [conns EXCEPT ![cand] = Request(conn, t)]
              /\ pc' = "read" /\ asked' = t /\ left' = remaining \ {t} /\ got' = read
              /\ UNCHANGED <<todo, cand, result>>

Listed ==
    /\ pc = "list" /\ Answered
    /\ ReadOrDecide(Taken, Arrived.list, NothingRead)
    /\ UNCHANGED <<server, starts, sockets>>

\* Mutant: an error answer ends the reading of threads.
ThreadReadStops ==
    /\ pc = "read" /\ Answered
    /\ LET read == IF Arrived.value = "error" THEN got ELSE [got EXCEPT ![asked] = Arrived.value]
       IN  ReadOrDecide(Taken, IF Arrived.value = "error" THEN {} ELSE left, read)
    /\ UNCHANGED <<server, starts, sockets>>

\* An error answer, as for a thread that has just gone, costs only that thread.
ThreadRead ==
    /\ pc = "read" /\ Answered
    /\ ReadOrDecide(Taken, left, IF Arrived.value = "error" THEN got ELSE [got EXCEPT ![asked] = Arrived.value])
    /\ UNCHANGED <<server, starts, sockets>>

\* The connection is given up; what was read before still counts.
ThreadFails ==
    /\ pc = "read" /\ CallFails
    /\ Drop
    /\ Decide(got)
    /\ UNCHANGED <<server, starts>>

ScanEnd ==
    /\ pc = "next" /\ todo = {}
    /\ pc' = "idle" /\ result' = "inactive"
    /\ UNCHANGED <<server, starts, conns, sockets, todo, cand, asked, left, got>>

ServerStep(p) ==
    \/ ServerStarts(p) \/ ServerExits(p) \/ ServerHangs(p)
    \/ \E t \in Threads, stamp \in Stamps \cup {Nothing} : ThreadChanges(p, t, stamp)
    \/ \E kind \in {"noise", "request"} : ServerChatters(p, kind)

ScanStep ==
    \/ ScanBegin \/ UseCached \/ Dial \/ DialFails \/ Initialized \/ ConnectionFails \/ SkipFrame
    \/ Listed \/ ThreadRead \/ ThreadFails \/ ScanEnd

Next ==
    \/ \E p \in Pids : ServerStep(p) \/ ServerAnswers(p)
    \/ ScanStep

-----------------------------------------------------------------------------
(***************************************************************************)
(* Properties.                                                             *)
(***************************************************************************)

\* Every variable has its type, and a scan waits only on a connection it has.
TypeOK ==
    /\ pc \in {"idle", "next", "initialize", "list", "read"}
    /\ result \in {"none", "active", "inactive"} /\ todo \subseteq Pids /\ left \subseteq Threads
    /\ got \in [Threads -> Stamps \cup {Nothing}]
    /\ conns \in [Pids -> Connections \cup {Nothing}]
    /\ Waiting => conns[cand] # Nothing
    /\ pc = "read" => asked \in Threads \ left

\* No connection leaks: what is open is what the source knows of, and between two
\* calls every connection has been initialized
\* (activity_source_codex_app_server_api.go:161-210, codex_app_server_client.go:117-140).
NoConnectionLeak ==
    /\ sockets = Cardinality({p \in Pids : conns[p] # Nothing})
    /\ pc \in {"idle", "next"} => \A p \in Pids : conns[p] # Nothing => conns[p].cached

\* The frame a call takes for its answer is the server's answer to that call and to
\* no other: a late answer, kept in a connection that was used again, would make a
\* scan read one thread for another (codex_app_server_client.go:174-219).
AnswersMatch ==
    Answered => Arrived.of = (IF pc = "read" THEN asked ELSE pc)

\* A thread with a recent turn, in a server that answers, is seen again and again,
\* even if the PID was that of another server, whose connection is still there, and
\* whatever other threads and candidates are looked at before; unless one of its
\* neighbours is from the future
\* (activity_source_codex_app_server_api.go:60-158).
KeepsWorking(p, t) ==
    /\ p \in Running
    /\ server[p].threads[t] = "fresh"
    /\ \A u \in Threads : server[p].threads[u] # "future"
    /\ \A q \in Running : ~server[q].hangs

ActiveServerIsSeen ==
    (\E p \in Pids, t \in Threads : <>[]KeepsWorking(p, t)) => []<>(result = "active")
=============================================================================
