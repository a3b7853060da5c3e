----------------------------- MODULE ExecService -----------------------------
(***************************************************************************)
(* The JSON-RPC interface to the execs of a workspace: the registry of     *)
(* kubernetes_exec_manager.go, the handlers of api/jsonrpc, the tunnel     *)
(* each client has (che-go-jsonrpc), and the event bus on which the        *)
(* watcher of an exec publishes its end.                                   *)
(*                                                                         *)
(* A tunnel is three goroutines: the read loop handles one request after   *)
(* the other; the write loop takes what anybody sends on the channel       *)
(* jsonOut, which has no buffer, and then writes it, while the sender goes *)
(* on; and each request has a goroutine that answers when its handler has  *)
(* not done so in a minute.  A request is known by its number: the         *)
(* client's first is 1.  Once the read loop has closed jsonOut, who sends  *)
(* on it panics: trySend recovers, SendError does not.  The life of an     *)
(* exec after its creation is that of ExecSession, seen from here: it is   *)
(* streaming, and then it has ended.                                       *)
(***************************************************************************)
EXTENDS ContainerResolution, FiniteSets, Functions

CONSTANTS
    Clients,
    Cluster,      \* the containers of the workspace, in the order of the API
    Pods,
    Wanted,       \* what clients ask to be created
    Unsafe,       \* working directories with a metacharacter of the shell
    AuthEnabled,
    Fickle,       \* bound: the clients that may stop reading, or leave
    MaxExecs,     \* bound: execs created
    MaxRequests   \* bound: requests of one client

ASSUME ServiceAssumption ==
    /\ AuthEnabled \in BOOLEAN /\ MaxExecs \in Nat
    /\ MaxRequests \in [Clients -> Nat]

Ids == 1 .. MaxExecs

VARIABLES
    execMap,    \* the identifiers that are registered
    prevExecID,
    life,       \* of each exec: "none", "created", "streaming" or "ended"
    sized,      \* the execs whose SizeChan is full
    watcher,    \* of each exec: where it is, and whom it still has to notify
    consumers,  \* of the event bus, in the order they subscribed
    client,     \* "away", "connected", "stalled" (it reads nothing) or "gone"
    setup,      \* where HandleConnect is
    open,       \* jsonOut has not been closed
    out,        \* the message each write loop writes
    request,    \* the request each read loop handles
    reader,     \* where each read loop is
    replies,    \* calls of Send and SendError the handler still has to make
    timer,      \* of the request: "off", "armed" or "sending"
    once,       \* who answers the request: "nobody", "handler" or "timer"; or "done"
    asked,      \* how many requests of each client have been read
    crashed,    \* a panic was not recovered
    answers,    \* (history) which requests the answers were to that it has received
    notices     \* (history) how often it was notified of the end of each exec

registryVars == <<execMap, prevExecID, life, sized>>
busVars      == <<watcher, consumers>>
tunnelVars   == <<client, setup, open, out>>
requestVars  == <<request, reader, replies, timer, once, asked>>
historyVars  == <<answers, notices>>
vars == <<registryVars, busVars, tunnelVars, requestVars, crashed, historyVars>>

NoRequest == [method |-> "none"]

Nothing   == [kind |-> "nothing"]
Hello     == [kind |-> "hello"]
Answer(n) == [kind |-> "answer", n |-> n]
End(id)   == [kind |-> "end", id |-> id]
Messages  == {Nothing, Hello} \cup [kind : {"answer"}, n : Nat] \cup [kind : {"end"}, id : Ids]

Init ==
    /\ execMap = {} /\ prevExecID = 0 /\ sized = {}
    /\ life = [id \in Ids |-> "none"]
    /\ watcher = [id \in Ids |-> [at |-> "none", left |-> <<>>]]
    /\ consumers = <<>>
    /\ client = [c \in Clients |-> "away"] /\ setup = [c \in Clients |-> "none"]
    /\ open = [c \in Clients |-> FALSE] /\ out = [c \in Clients |-> Nothing]
    /\ request = [c \in Clients |-> NoRequest] /\ reader = [c \in Clients |-> "idle"]
    /\ replies = [c \in Clients |-> <<>>]
    /\ timer = [c \in Clients |-> "off"] /\ once = [c \in Clients |-> "done"]
    /\ asked = [c \in Clients |-> 0]
    /\ crashed = FALSE
    /\ answers = [c \in Clients |-> <<>>]
    /\ notices = [c \in Clients |-> [id \in Ids |-> 0]]

Requests ==
    [method : {"create"}, exec : Wanted, left : {<<>>}]
        \cup [method : {"check", "resize"}, id : Ids] \cup [method : {"list"}]

-----------------------------------------------------------------------------
(***************************************************************************)
(* Clients come, stop reading for a while, and go.                         *)
(***************************************************************************)
ClientChanges(c) ==
    /\ c \in Fickle
    /\ \E to \in CASE client[c] = "connected" -> {"stalled", "gone"}
                  [] client[c] = "stalled"   -> {"connected", "gone"}
                  [] OTHER                   -> {} :
          client' = [client EXCEPT ![c] = to]
    /\ UNCHANGED <<registryVars, busVars, setup, open, out, requestVars, crashed, historyVars>>

-----------------------------------------------------------------------------
(***************************************************************************)
(* The write loop: one message after the other, also once no more can be   *)
(* sent.                                                                   *)
(***************************************************************************)
\* It is idle and takes the message, whether or not the client reads.
HandsOver(c, message) ==
    /\ open[c] /\ out[c] = Nothing
    /\ out' = [out EXCEPT ![c] = message]

\* Write returns when the client has read, or with an error when it has gone.
Writes(c) ==
    /\ out[c] # Nothing /\ client[c] # "stalled"
    /\ out' = [out EXCEPT ![c] = Nothing]
    /\ answers' = IF client[c] = "connected" /\ out[c].kind = "answer"
                    THEN [answers EXCEPT ![c] = Append(@, out[c].n)] ELSE answers
    /\ notices' = IF client[c] = "connected" /\ out[c].kind = "end"
                    THEN [notices EXCEPT ![c][out[c].id] = @ + 1] ELSE notices
    /\ UNCHANGED <<registryVars, busVars, client, setup, open, requestVars, crashed>>

-----------------------------------------------------------------------------
(***************************************************************************)
(* HandleConnect.  NewManagedTunnel starts the loops before the token is   *)
(* stored and before the client is subscribed to the events.               *)
(***************************************************************************)
Connect(c) ==
    /\ client[c] = "away"
    /\ client' = [client EXCEPT ![c] = "connected"]
    /\ open' = [open EXCEPT ![c] = TRUE]
    /\ setup' = [setup EXCEPT ![c] = IF AuthEnabled THEN "token" ELSE "subscribe"]
    /\ UNCHANGED <<registryVars, busVars, out, requestVars, crashed, historyVars>>

StoreToken(c) ==
    /\ setup[c] = "token"
    /\ setup' = [setup EXCEPT ![c] = "subscribe"]
    /\ UNCHANGED <<registryVars, busVars, client, open, out, requestVars, crashed, historyVars>>

SubAny(c) ==
    /\ setup[c] = "subscribe"
    /\ consumers' = Append(consumers, c)
    /\ setup' = [setup EXCEPT ![c] = "hello"]
    /\ UNCHANGED <<registryVars, watcher, client, open, out, requestVars, crashed, historyVars>>

\* SayHello: the message is taken, or trySend recovers from the closed channel.
SayHello(c) ==
    /\ setup[c] = "hello"
    /\ HandsOver(c, Hello) \/ (~open[c] /\ UNCHANGED out)
    /\ setup' = [setup EXCEPT ![c] = "done"]
    /\ UNCHANGED <<registryVars, busVars, client, open, requestVars, crashed, historyVars>>

-----------------------------------------------------------------------------
(***************************************************************************)
(* The read loop: a request is handled to its end before the next one is   *)
(* read.                                                                   *)
(***************************************************************************)
Creating == {c \in Clients : request[c].method = "create" /\ reader[c] \in {"handle", "try"}}

\* Also what a client sent before it left can be read.
Ask(c) ==
    /\ client[c] # "away" /\ open[c] /\ reader[c] = "idle"
    /\ asked[c] < MaxRequests[c]
    /\ asked' = [asked EXCEPT ![c] = @ + 1]
    /\ \E r \in Requests :
          /\ r.method = "create" => prevExecID + Cardinality(Creating) < MaxExecs
          /\ request' = [request EXCEPT ![c] = r]
    /\ reader' = [reader EXCEPT ![c] = "handle"]
    /\ timer' = [timer EXCEPT ![c] = "armed"]
    /\ once' = [once EXCEPT ![c] = "nobody"]
    /\ UNCHANGED <<registryVars, busVars, tunnelVars, replies, crashed, historyVars>>

\* Mutant: the tunnel is closed as soon as the client has gone.
CloseAtOnce(c) ==
    /\ client[c] = "gone" /\ open[c]
    /\ open' = [open EXCEPT ![c] = FALSE]
    /\ reader' = [reader EXCEPT ![c] = "ended"]
    /\ UNCHANGED <<registryVars, busVars, client, setup, out, request, replies, timer, once, asked, crashed, historyVars>>

\* Next has failed: closeOnce.
CloseOnce(c) ==
    /\ client[c] = "gone" /\ open[c] /\ reader[c] = "idle"
    /\ open' = [open EXCEPT ![c] = FALSE]
    /\ reader' = [reader EXCEPT ![c] = "ended"]
    /\ UNCHANGED <<registryVars, busVars, client, setup, out, request, replies, timer, once, asked, crashed, historyVars>>

\* The handler of c has done its work and goes on to make these calls.
Reply(c, calls) ==
    /\ reader' = [reader EXCEPT ![c] = "reply"]
    /\ replies' = [replies EXCEPT ![c] = calls]
    /\ request' = [request EXCEPT ![c] = NoRequest]

Handles(c, method, at) == request[c].method = method /\ reader[c] = at
InHandler == <<busVars, tunnelVars, timer, once, asked, crashed, historyVars>>

-----------------------------------------------------------------------------
(***************************************************************************)
(* Answering.  sync.Once lets one of the handler and the timer answer; the *)
(* other waits until the answer has been taken, and then does nothing.     *)
(***************************************************************************)
\* Mutant: no sync.Once.
MayReleaseAlways(c) == once[c] # "handler"

MayRelease(c) == once[c] = "nobody"

HandlerReleases(c) ==
    /\ reader[c] = "reply" /\ replies[c] # <<>>
    /\ IF MayRelease(c)
         THEN /\ reader' = [reader EXCEPT ![c] = "sending"]
              /\ once' = [once EXCEPT ![c] = "handler"]
              /\ UNCHANGED replies
         ELSE /\ once[c] = "done"
              /\ replies' = [replies EXCEPT ![c] = Tail(@)]
              /\ UNCHANGED <<reader, once>>
    /\ UNCHANGED <<registryVars, busVars, tunnelVars, request, timer, asked, crashed, historyVars>>

HandlerReturns(c) ==
    /\ reader[c] = "reply" /\ replies[c] = <<>>
    /\ reader' = [reader EXCEPT ![c] = "idle"]
    /\ UNCHANGED <<registryVars, busVars, tunnelVars, request, replies, timer, once, asked, crashed, historyVars>>

\* Mutant: the minute begins when the handler has done its work.
TimerFiresLate(c) ==
    /\ timer[c] = "armed" /\ MayRelease(c) /\ reader[c] = "reply"
    /\ timer' = [timer EXCEPT ![c] = "sending"]
    /\ once' = [once EXCEPT ![c] = "timer"]
    /\ UNCHANGED <<registryVars, busVars, tunnelVars, request, reader, replies, asked, crashed, historyVars>>

\* The minute is over.
TimerFires(c) ==
    /\ timer[c] = "armed" /\ MayRelease(c)
    /\ timer' = [timer EXCEPT ![c] = "sending"]
    /\ once' = [once EXCEPT ![c] = "timer"]
    /\ UNCHANGED <<registryVars, busVars, tunnelVars, request, reader, replies, asked, crashed, historyVars>>

TakeReply(c) ==
    /\ reader[c] = "sending"
    /\ HandsOver(c, Answer(asked[c]))
    /\ reader' = [reader EXCEPT ![c] = "reply"]
    /\ once' = [once EXCEPT ![c] = "done"]
    /\ timer' = [timer EXCEPT ![c] = "off"]
    /\ replies' = [replies EXCEPT ![c] = Tail(@)]
    /\ UNCHANGED <<registryVars, busVars, client, setup, open, request, asked, crashed, historyVars>>

\* SendError does not recover from the panic of a send on a closed channel.
TakeTimeout(c) ==
    /\ timer[c] = "sending"
    /\ \/ HandsOver(c, Answer(asked[c])) /\ UNCHANGED crashed
       \/ ~open[c] /\ crashed' = TRUE /\ UNCHANGED out
    /\ timer' = [timer EXCEPT ![c] = "off"]
    /\ once' = [once EXCEPT ![c] = "done"]
    /\ UNCHANGED <<registryVars, busVars, client, setup, open, request, reader, replies, asked, historyVars>>

-----------------------------------------------------------------------------
(***************************************************************************)
(* The handlers.                                                           *)
(***************************************************************************)
setToken(c) == ~AuthEnabled \/ setup[c] # "token"

\* The containers of running pods, one of the sequences the API may give: pods stop
\* and start at any time, and the API may refuse.
Listed(running) == SelectSeq(Cluster, LAMBDA k : k.pod \in running)

ValidateNoShellMetacharacters(cwd) == cwd \notin Unsafe

\* Create starts with the list of the containers.
CreateExec(c) ==
    /\ Handles(c, "create", "handle")
    /\ IF ValidateNoShellMetacharacters(request[c].exec.cwd) /\ setToken(c)
         THEN /\ reader' = [reader EXCEPT ![c] = "try"]
              /\ \E running \in SUBSET Pods :
                    request' = [request EXCEPT ![c].left = Candidates(request[c].exec, Listed(running))]
              /\ UNCHANGED replies
         ELSE Reply(c, <<"error">>)
    /\ UNCHANGED <<registryVars, InHandler>>

\* Mutant: the identifier is that of the exec before.
NextIDAgain == prevExecID

NextID == prevExecID + 1

\* doCreate in the next container, whose pod may have stopped since.
DoCreate(c) ==
    /\ Handles(c, "create", "try") /\ request[c].left # <<>>
    /\ \E k \in {Head(request[c].left), Unreachable(Head(request[c].left))} :
           IF ResolveCmd(request[c].exec, k).shell = None
             THEN /\ request' = [request EXCEPT ![c].left = Tail(@)]
                  /\ UNCHANGED <<reader, execMap, prevExecID, life, sized>>
             ELSE /\ prevExecID' = prevExecID + 1
                  /\ execMap' = execMap \cup {NextID}
                  /\ life' = [life EXCEPT ![NextID] = "created"]
                  /\ sized' = sized \cup {NextID}
                  /\ request' = [request EXCEPT ![c] = [method |-> "create", id |-> NextID]]
                  /\ reader' = [reader EXCEPT ![c] = "watch"]
    /\ UNCHANGED <<replies, InHandler>>

\* CleanUpOnExitOrError is called before the error of Create is looked at: that
\* watcher waits for ever, and nobody else hears of it.
CreateFails(c) ==
    /\ Handles(c, "create", "try") /\ request[c].left = <<>>
    /\ Reply(c, <<"error">>)
    /\ UNCHANGED <<registryVars, InHandler>>

CreateSucceeds(c) ==
    /\ Handles(c, "create", "watch")
    /\ watcher' = [watcher EXCEPT ![request[c].id].at = "waiting"]
    /\ Reply(c, <<"id">>)
    /\ UNCHANGED <<registryVars, consumers, tunnelVars, timer, once, asked, crashed, historyVars>>

\* An error is sent, and then the result as well.
CheckExec(c) ==
    /\ Handles(c, "check", "handle")
    /\ Reply(c, IF request[c].id \in execMap THEN <<"result">> ELSE <<"error", "result">>)
    /\ UNCHANGED <<registryVars, InHandler>>

ListContainersExec(c) ==
    /\ Handles(c, "list", "handle")
    /\ \E listed \in BOOLEAN :
          Reply(c, CASE ~setToken(c) -> <<"error">>
                     [] setToken(c) /\ listed -> <<"result">>
                     [] OTHER -> <<"error", "result">>)
    /\ UNCHANGED <<registryVars, InHandler>>

\* The exec is looked up, and then the size is sent, for which SizeChan has room
\* again only when a stream has taken the one before.
ResizeExec(c) ==
    /\ Handles(c, "resize", "handle")
    /\ IF request[c].id \in execMap
         THEN reader' = [reader EXCEPT ![c] = "resize"] /\ UNCHANGED <<replies, request>>
         ELSE Reply(c, <<"error">>)
    /\ UNCHANGED <<registryVars, InHandler>>

SendSize(c) ==
    /\ Handles(c, "resize", "resize") /\ request[c].id \notin sized
    /\ sized' = sized \cup {request[c].id}
    /\ Reply(c, <<"result">>)
    /\ UNCHANGED <<execMap, prevExecID, life, InHandler>>

-----------------------------------------------------------------------------
(***************************************************************************)
(* The exec, and its watcher, which publishes to all consumers in turn.    *)
(***************************************************************************)
InExec == <<prevExecID, client, setup, open, requestVars, crashed, historyVars>>

Attach(id) ==
    /\ id \in execMap /\ life[id] = "created"
    /\ life' = [life EXCEPT ![id] = "streaming"]
    /\ UNCHANGED <<execMap, sized, busVars, out, InExec>>

TakeSize(id) ==
    /\ life[id] = "streaming" /\ id \in sized
    /\ sized' = sized \ {id}
    /\ UNCHANGED <<execMap, life, busVars, out, InExec>>

StreamEnds(id) ==
    /\ life[id] = "streaming"
    /\ life' = [life EXCEPT ![id] = "ended"]
    /\ UNCHANGED <<execMap, sized, busVars, out, InExec>>

WatcherMoves(id, at, left) == watcher' = [watcher EXCEPT ![id] = [at |-> at, left |-> left]]

\* Mutant: the exec is not removed before the event is published.
RemoveLate(id) ==
    /\ watcher[id].at = "waiting" /\ life[id] = "ended"
    /\ WatcherMoves(id, "pub", <<>>)
    /\ UNCHANGED <<execMap, life, sized, consumers, out, InExec>>

\* The end is received from ExitChan or ErrorChan.
Remove(id) ==
    /\ watcher[id].at = "waiting" /\ life[id] = "ended"
    /\ execMap' = execMap \ {id}
    /\ WatcherMoves(id, "pub", <<>>)
    /\ UNCHANGED <<life, sized, consumers, out, InExec>>

Pub(id) ==
    /\ watcher[id].at = "pub"
    /\ WatcherMoves(id, "accept", consumers)
    /\ UNCHANGED <<execMap, life, sized, consumers, out, InExec>>

\* Mutant: neither IsClosed nor a recovered panic.
AcceptOpen(id) ==
    /\ watcher[id].at = "accept" /\ watcher[id].left # <<>>
    /\ HandsOver(Head(watcher[id].left), End(id))
    /\ WatcherMoves(id, "accept", Tail(watcher[id].left))
    /\ UNCHANGED <<execMap, life, sized, consumers, InExec>>

\* Accept of one consumer: nothing if its tunnel is closed, or closed in the meantime.
Accept(id) ==
    /\ watcher[id].at = "accept" /\ watcher[id].left # <<>>
    /\ LET c == Head(watcher[id].left)
       IN  HandsOver(c, End(id)) \/ (~open[c] /\ UNCHANGED out)
    /\ WatcherMoves(id, "accept", Tail(watcher[id].left))
    /\ UNCHANGED <<execMap, life, sized, consumers, InExec>>

-----------------------------------------------------------------------------
Answering(c) == HandlerReleases(c) \/ HandlerReturns(c) \/ TimerFires(c) \/ TakeReply(c) \/ TakeTimeout(c)

Handling(c) ==
    \/ CreateExec(c) \/ DoCreate(c) \/ CreateFails(c) \/ CreateSucceeds(c)
    \/ CheckExec(c) \/ ListContainersExec(c) \/ ResizeExec(c) \/ SendSize(c)

SettingUp(c) == StoreToken(c) \/ SubAny(c) \/ SayHello(c)

Watching(id) == Remove(id) \/ Pub(id) \/ Accept(id)

Next ==
    \/ \E c \in Clients :
          \/ ClientChanges(c) \/ Connect(c) \/ SettingUp(c) \/ Ask(c) \/ CloseOnce(c) \/ Writes(c)
          \/ Answering(c) \/ Handling(c)
    \/ \E id \in Ids : Attach(id) \/ TakeSize(id) \/ StreamEnds(id) \/ Watching(id)

Spec == Init /\ [][Next]_vars

\* Goroutines run, and a minute comes to its end; a channel serves who has waited
\* longest, and a write ends if its client reads again and again.  Clients, containers
\* and pods promise nothing.
FairSpec ==
    /\ Spec
    /\ \A c \in Clients :
          /\ WF_vars(StoreToken(c) \/ SubAny(c)) /\ WF_vars(TimerFires(c))
          /\ WF_vars(Handling(c) \/ HandlerReleases(c) \/ HandlerReturns(c) \/ CloseOnce(c))
          /\ SF_vars(SayHello(c) \/ TakeReply(c) \/ TakeTimeout(c) \/ Writes(c))
    /\ \A id \in Ids : SF_vars(Watching(id))

-----------------------------------------------------------------------------
(***************************************************************************)
(* What clients see of it: where the request of c is, and where an exec is *)
(* in its life.                                                            *)
(***************************************************************************)
Call(c) ==
    CASE reader[c] \in {"idle", "ended"}                      -> "none"
      [] reader[c] \notin {"idle", "ended"} /\ once[c] = "done" -> "answered"
      [] OTHER                                                -> "waiting"

Phase(id) ==
    IF id \in execMap
      THEN CASE life[id] = "created"   -> "available"
             [] life[id] = "streaming" -> "running"
             [] life[id] = "ended"     -> "over"
      ELSE CASE life[id] = "none"          -> "none"
             [] watcher[id].at = "pub"     -> "removed"
             [] watcher[id].at = "accept"  -> "notified"

Subscribed == Range(consumers)
Calls      == [c \in Clients |-> Call(c)]
Phases     == [id \in Ids |-> Phase(id)]
Owed       == [id \in Ids |-> Range(watcher[id].left)]

Contract == INSTANCE ServiceContract WITH
    subscribed <- Subscribed, call <- Calls, mail <- out,
    phase <- Phases, owed <- Owed, told <- notices

-----------------------------------------------------------------------------
(***************************************************************************)
(* Properties.                                                             *)
(***************************************************************************)

\* Every variable has its type.
TypeOK ==
    /\ execMap \subseteq Ids /\ prevExecID \in 0 .. MaxExecs
    /\ sized \subseteq Ids
    /\ life \in [Ids -> {"none", "created", "streaming", "ended"}]
    /\ watcher \in [Ids -> [at : {"none", "waiting", "pub", "accept"}, left : Seq(Clients)]]
    /\ consumers \in Seq(Clients)
    /\ client \in [Clients -> {"away", "connected", "stalled", "gone"}]
    /\ setup \in [Clients -> {"none", "token", "subscribe", "hello", "done"}]
    /\ open \in [Clients -> BOOLEAN] /\ out \in [Clients -> Messages]
    /\ reader \in [Clients -> {"idle", "handle", "try", "watch", "resize", "reply", "sending", "ended"}]
    /\ replies \in [Clients -> Seq({"error", "result", "id"})]
    /\ timer \in [Clients -> {"off", "armed", "sending"}]
    /\ once \in [Clients -> {"nobody", "handler", "timer", "done"}]
    /\ asked \in [Clients -> Nat] /\ answers \in [Clients -> Seq(Nat)]
    /\ crashed \in BOOLEAN
    /\ notices \in [Clients -> [Ids -> Nat]]

\* No goroutine sends an error on a channel the read loop has closed, although the
\* timer of a request may go off when its client has long gone (tunnel.go:444-455,
\* 566-574): the server, and every exec with it, would end.
NoPanic == ~crashed

\* The client gets one answer to each request, in the order of its requests, although
\* CheckExec and ListContainers may give two (handlers.go:91-100, 114-128) and the timer
\* a third, and although the next request may be read before the client has the answer
\* to the one before: that is then being written (tunnel.go:300-308, 560-582).
AnsweredOnce ==
    \A c \in Clients :
        LET due     == IF once[c] = "done" THEN asked[c] ELSE asked[c] - 1
            onItsWay == IF out[c].kind = "answer" THEN 1 ELSE 0
        IN  /\ \A i \in DOMAIN answers[c] : answers[c][i] = i
            /\ client[c] # "gone" => Len(answers[c]) + onItsWay = due

\* The service keeps its contract: whatever its goroutines do, a request is answered
\* once, an exec is numbered, ends and leaves the registry before its end is
\* announced, and everybody who had subscribed by then is told of it once; only who
\* has left misses an answer or an end (tunnel.go:300-308, 444-455, 545-582,
\* kubernetes_exec_manager.go:229-241, health-watcher.go:36-52, event.go:66-79).
ImplementsContract == Contract!Spec

NobodyStaysStalled == \A c \in Clients : []<>(client[c] # "stalled")

\* A client that reads gets an answer to every request, also when the handler is
\* held by an exec nobody attaches to (handlers.go:102-112, tunnel.go:545-553).
RequestIsAnswered ==
    NobodyStaysStalled =>
        \A c \in Clients : \A n \in 1 .. MaxRequests[c] :
            (asked[c] = n /\ reader[c] \notin {"idle", "ended"})
                ~> (n \in Range(answers[c]) \/ client[c] = "gone")

\* Every subscribed client learns of an end, also when others have closed their
\* tunnels or are held by a request, if each client reads again in the end: Pub
\* calls one consumer after the other (event.go:66-79, event_bus.go:32-38).
EndsAreNotified ==
    NobodyStaysStalled =>
        \A c \in Clients, id \in Ids :
            (watcher[id].at = "waiting" /\ life[id] = "ended" /\ setup[c] \in {"hello", "done"})
                ~> (notices[c][id] = 1 \/ client[c] = "gone")
=============================================================================
