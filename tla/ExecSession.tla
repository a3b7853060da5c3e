----------------------------- MODULE ExecSession -----------------------------
(***************************************************************************)
(* One exec, from its creation to its exit notification: Attach, the       *)
(* stream to the container process, the terminal handler that feeds it     *)
(* (PtyHandlerImpl), the activity saver, Resize and the health watcher     *)
(* (package exec), over the connection handler of WsConnHandler.           *)
(*                                                                         *)
(* Each /attach request is a goroutine with a connection of its own, so    *)
(* both are named by an element of Conns.  A request that finds no output  *)
(* buffer opens a stream, also named by its connection; nothing makes the  *)
(* test and the assignment of machineExec.Buffer one step, so two requests *)
(* may both open one.  An output chunk is what one call of ProcessRaw      *)
(* returns, and output is the set of chunks: its order and text are not    *)
(* what the properties are about, and the buffer's bound of 1000 lines is  *)
(* not reached.                                                            *)
(***************************************************************************)
EXTENDS Naturals, FiniteSets, Sequences

CONSTANTS
    Conns,      \* /attach requests, with their connections and their streams
    Resizers,   \* requests to resize the exec
    Tty,        \* whether the exec was created with a terminal
    NoWriter,
    MaxOut,     \* bound: chunks each output of a process produces
    Typists,    \* bound: clients that type
    Ticking,    \* bound: streams whose activity saver's ticker fires
    Pinged      \* bound: connections open for as long as the 54 s of pingPeriod

\* Outputs of a process: with a terminal, stderr is merged into stdout.
Outputs == IF Tty THEN {"out"} ELSE {"out", "err"}

\* One goroutine copies each output of each stream to the terminal handler.
Writers == Conns \X Outputs
Chunks  == Writers \X (1..MaxOut)

\* The goroutines that send to MsgChan.
Senders == {"reader", "saver"} \X Conns

ASSUME SessionAssumption ==
    /\ IsFiniteSet(Conns) /\ Tty \in BOOLEAN
    /\ Pinged \subseteq Conns /\ Typists \subseteq Conns /\ Ticking \subseteq Conns
    /\ MaxOut \in Nat
    /\ NoWriter \notin Writers

VARIABLES wsConns, lock, todo, working, sock, inflight, garbled, reader, pinger, serverUp

H == INSTANCE WsConnHandler

VARIABLES
    registered,  \* the exec is in execs.execMap
    attach,      \* program counter of each Attach call
    hasBuffer,   \* machineExec.Buffer # nil
    buffer,      \* its content
    snapshot,    \* restoreContent of each Attach call
    process,     \* the container process behind each stream
    outcome,     \* what Executor.Stream returned: nil or an error
    produced,    \* chunks each output goroutine has read so far
    busy,        \* output goroutines inside PtyHandlerImpl.Write
    seen,        \* chunks each client has been sent
    stdin,       \* goroutine copying MsgChan to the standard input of a stream
    senders,     \* goroutines that wait to send to MsgChan, the longest first
    saver,       \* program counter of saveActivity, per stream
    stopSaver,   \* whether stopActivitySaver holds its one message
    sizeChan,    \* messages in SizeChan, whose capacity is 1
    sizeLoops,   \* streams whose goroutine reads SizeChan (handleResizes)
    resizer,     \* program counter of each Resize call
    watcher,     \* program counter of the health watcher
    signal,      \* what it received from ExitChan or ErrorChan
    event        \* the event published for the exec

handlerVars == <<wsConns, lock, todo, working, sock, inflight, garbled, reader, pinger, serverUp>>
outVars     == <<hasBuffer, buffer, snapshot, produced, busy, seen>>
inVars      == <<stdin, senders, saver, stopSaver>>
sizeVars    == <<sizeChan, sizeLoops, resizer>>
endVars     == <<registered, watcher, signal, event>>
procVars    == <<process, outcome>>
vars == <<handlerVars, attach, outVars, inVars, sizeVars, endVars, procVars>>

AttachState == {"idle", "upgraded", "refused", "found", "registered", "restore", "restoring",
                "first", "streaming", "stopping", "closing", "signalling", "returned"}

\* doCreate has filled SizeChan with the initial size and stored the exec, and
\* jsonRpcCreateExec has started the watcher.
Init ==
    /\ H!Init
    /\ registered = TRUE
    /\ attach = [c \in Conns |-> "idle"]
    /\ hasBuffer = FALSE
    /\ buffer = {}
    /\ snapshot = [c \in Conns |-> {}]
    /\ process = [c \in Conns |-> "none"]
    /\ outcome = [c \in Conns |-> "none"]
    /\ produced = [w \in Writers |-> 0]
    /\ busy = {}
    /\ seen = [c \in Conns |-> {}]
    /\ stdin = [c \in Conns |-> "none"]
    /\ senders = <<>>
    /\ saver = [c \in Conns |-> "none"]
    /\ stopSaver = [c \in Conns |-> FALSE]
    /\ sizeChan = 1
    /\ sizeLoops = {}
    /\ resizer = [r \in Resizers |-> "idle"]
    /\ watcher = "waiting"
    /\ signal = "none"
    /\ event = "none"

\* The Attach call of c moves from one point of its code to another.
Goto(c, from, to) ==
    /\ attach[c] = from
    /\ attach' = [attach EXCEPT ![c] = to]

-----------------------------------------------------------------------------
(***************************************************************************)
(* Attach, up to the stream or the replay.                                 *)
(***************************************************************************)

\* doAttach upgrades the request to a websocket connection.
AttachUpgrade(c) ==
    /\ Goto(c, "idle", "upgraded")
    /\ H!Open(c)
    /\ UNCHANGED <<outVars, inVars, sizeVars, endVars, procVars>>

\* Mutant: a request for a removed exec is not refused.
AttachLookupUnchecked(c) ==
    /\ Goto(c, "upgraded", "found")
    /\ UNCHANGED <<handlerVars, outVars, inVars, sizeVars, endVars, procVars>>

\* getByID; on failure the connection is left as it is.
AttachLookup(c) ==
    /\ Goto(c, "upgraded", IF registered THEN "found" ELSE "refused")
    /\ UNCHANGED <<handlerVars, outVars, inVars, sizeVars, endVars, procVars>>

AttachRegister(c) ==
    /\ Goto(c, "found", "registered")
    /\ H!ReadConnection(c)
    /\ UNCHANGED <<outVars, inVars, sizeVars, endVars, procVars>>

\* There is a buffer: take its content, to be replayed to this client.
AttachSnapshot(c) ==
    /\ hasBuffer
    /\ Goto(c, "registered", "restore")
    /\ snapshot' = [snapshot EXCEPT ![c] = buffer]
    /\ UNCHANGED <<handlerVars, hasBuffer, buffer, produced, busy, seen, inVars, sizeVars, endVars, procVars>>

RestoreBegin(c) ==
    /\ Goto(c, "restore", "restoring")
    /\ H!AttachWriteBegin(c)
    /\ UNCHANGED <<outVars, inVars, sizeVars, endVars, procVars>>

RestoreEnd(c, ok) ==
    /\ Goto(c, "restoring", "returned")
    /\ H!AttachWriteEnd(c, ok)
    /\ seen' = IF ok THEN [seen EXCEPT ![c] = @ \cup snapshot[c]] ELSE seen
    /\ snapshot' = [snapshot EXCEPT ![c] = {}]
    /\ UNCHANGED <<hasBuffer, buffer, produced, busy, inVars, sizeVars, endVars, procVars>>

\* The replay panicked on a concurrent write, and gin recovered the request.
RestorePanicked(c) ==
    /\ H!Attacher(c) \notin inflight[c]
    /\ Goto(c, "restoring", "returned")
    /\ snapshot' = [snapshot EXCEPT ![c] = {}]
    /\ UNCHANGED <<handlerVars, hasBuffer, buffer, produced, busy, seen, inVars, sizeVars, endVars, procVars>>

\* There is no buffer yet: this request will open a stream ...
AttachFirst(c) ==
    /\ ~hasBuffer
    /\ Goto(c, "registered", "first")
    /\ saver' = [saver EXCEPT ![c] = "waiting"]
    /\ UNCHANGED <<handlerVars, outVars, stdin, senders, stopSaver, sizeVars, endVars, procVars>>

\* ... but the buffer is created only now, a new one whatever came in between.
AttachNewBuffer(c) ==
    /\ Goto(c, "first", "streaming")
    /\ hasBuffer' = TRUE
    /\ buffer' = {}
    /\ UNCHANGED <<handlerVars, snapshot, produced, busy, seen, inVars, sizeVars, endVars, procVars>>

-----------------------------------------------------------------------------
(***************************************************************************)
(* Executor.Stream, called by Attach.                                      *)
(***************************************************************************)

\* The streams are negotiated: the copying goroutines start, and with a terminal
\* the one that passes on sizes.
StreamOpen(c) ==
    /\ attach[c] = "streaming"
    /\ process[c] = "none"
    /\ process' = [process EXCEPT ![c] = "running"]
    /\ stdin' = [stdin EXCEPT ![c] = "waiting"]
    /\ sizeLoops' = IF Tty THEN sizeLoops \cup {c} ELSE sizeLoops
    /\ UNCHANGED <<handlerVars, attach, outVars, senders, saver, stopSaver, sizeChan, resizer, endVars, outcome>>

\* The streams cannot be negotiated or created.
StreamFails(c) ==
    /\ process[c] = "none"
    /\ Goto(c, "streaming", "stopping")
    /\ outcome' = [outcome EXCEPT ![c] = "error"]
    /\ UNCHANGED <<handlerVars, outVars, inVars, sizeVars, endVars, process>>

\* The process exits, or the connection to it is lost: its outputs are at their end.
ProcessExits(c) ==
    /\ process[c] = "running"
    /\ process' = [process EXCEPT ![c] = "exited"]
    /\ UNCHANGED <<handlerVars, attach, outVars, inVars, sizeVars, endVars, outcome>>

\* Mutant: the state of the process is taken for the result of Stream.
StreamReturnsState(c, res) ==
    /\ process[c] = "exited"
    /\ \A o \in Outputs : <<c, o>> \notin busy
    /\ Goto(c, "streaming", "stopping")
    /\ outcome' = [outcome EXCEPT ![c] = process[c]]
    /\ UNCHANGED <<handlerVars, outVars, inVars, sizeVars, endVars, process>>

\* Stream returns once every output is copied, with nil or with the exit status.
StreamReturns(c, res) ==
    /\ process[c] = "exited"
    /\ \A o \in Outputs : <<c, o>> \notin busy
    /\ Goto(c, "streaming", "stopping")
    /\ outcome' = [outcome EXCEPT ![c] = res]
    /\ UNCHANGED <<handlerVars, outVars, inVars, sizeVars, endVars, process>>

-----------------------------------------------------------------------------
(***************************************************************************)
(* Attach, after the stream.                                               *)
(***************************************************************************)

AttachStopSaver(c) ==
    /\ Goto(c, "stopping", "closing")
    /\ stopSaver' = [stopSaver EXCEPT ![c] = TRUE]
    /\ UNCHANGED <<handlerVars, outVars, stdin, senders, saver, sizeVars, endVars, procVars>>

AttachClose(c) ==
    /\ Goto(c, "closing", "signalling")
    /\ H!CloseConnections
    /\ UNCHANGED <<outVars, inVars, sizeVars, endVars, procVars>>

\* Mutant: Attach returns on an error of Stream without sending it to ErrorChan.
AttachSignalsExitOnly(c) ==
    /\ Goto(c, "signalling", "returned")
    /\ IF outcome[c] = "exit"
         THEN watcher = "waiting" /\ watcher' = "removing" /\ signal' = outcome[c]
         ELSE UNCHANGED <<watcher, signal>>
    /\ UNCHANGED <<handlerVars, outVars, inVars, sizeVars, registered, event, procVars>>

\* ExitChan and ErrorChan are unbuffered: Attach and the watcher meet.
AttachSignal(c) ==
    /\ watcher = "waiting"
    /\ Goto(c, "signalling", "returned")
    /\ watcher' = "removing"
    /\ signal' = outcome[c]
    /\ UNCHANGED <<handlerVars, outVars, inVars, sizeVars, registered, event, procVars>>

(***************************************************************************)
(* The health watcher (CleanUpOnExitOrError).                              *)
(***************************************************************************)

\* Mutant: the watcher does not remove the exec.
WatcherForgetsRemove ==
    /\ watcher = "removing"
    /\ watcher' = "publishing"
    /\ UNCHANGED <<handlerVars, attach, outVars, inVars, sizeVars, registered, signal, event, procVars>>

WatcherRemove ==
    /\ watcher = "removing"
    /\ watcher' = "publishing"
    /\ registered' = FALSE
    /\ UNCHANGED <<handlerVars, attach, outVars, inVars, sizeVars, signal, event, procVars>>

WatcherPublish ==
    /\ watcher = "publishing"
    /\ watcher' = "done"
    /\ event' = signal
    /\ UNCHANGED <<handlerVars, attach, outVars, inVars, sizeVars, registered, signal, procVars>>

-----------------------------------------------------------------------------
(***************************************************************************)
(* Output: PtyHandlerImpl.Write, called by the output goroutine w.         *)
(***************************************************************************)
ChunkOf(w) == <<w, produced[w]>>

\* Mutant: Write sends the chunk without storing it.
PtyStoreForgetsBuffer(w) ==
    /\ process[w[1]] = "running"
    /\ w \notin busy
    /\ produced[w] < MaxOut
    /\ produced' = [produced EXCEPT ![w] = @ + 1]
    /\ busy' = busy \cup {w}
    /\ UNCHANGED <<handlerVars, attach, hasBuffer, buffer, snapshot, seen, inVars, sizeVars, endVars, procVars>>

\* A chunk is read from the process, filtered and stored in the buffer ...
PtyStore(w) ==
    /\ process[w[1]] = "running"
    /\ w \notin busy
    /\ produced[w] < MaxOut
    /\ produced' = [produced EXCEPT ![w] = @ + 1]
    /\ busy' = busy \cup {w}
    /\ buffer' = buffer \cup {<<w, produced[w] + 1>>}
    /\ UNCHANGED <<handlerVars, attach, hasBuffer, snapshot, seen, inVars, sizeVars, endVars, procVars>>

\* ... then sent to the connections registered by now.
PtySend(w) ==
    /\ w \in busy
    /\ H!WriteDataToWsConnections(w)
    /\ UNCHANGED <<attach, outVars, inVars, sizeVars, endVars, procVars>>

PtySendBegin(w, c) ==
    /\ H!BroadcastBegin(w, c)
    /\ UNCHANGED <<attach, outVars, inVars, sizeVars, endVars, procVars>>

PtySendEnd(w, c, ok) ==
    /\ H!BroadcastEnd(w, c, ok)
    /\ seen' = IF ok THEN [seen EXCEPT ![c] = @ \cup {ChunkOf(w)}] ELSE seen
    /\ UNCHANGED <<attach, hasBuffer, buffer, snapshot, produced, busy, inVars, sizeVars, endVars, procVars>>

PtySent(w) ==
    /\ H!BroadcastDone(w)
    /\ busy' = busy \ {w}
    /\ UNCHANGED <<attach, hasBuffer, buffer, snapshot, produced, seen, inVars, sizeVars, endVars, procVars>>

-----------------------------------------------------------------------------
(***************************************************************************)
(* Input: the readers of the connections and the activity savers meet the  *)
(* standard input goroutines of the streams on MsgChan, unbuffered: who    *)
(* has waited longest on a channel is served first.                        *)
(***************************************************************************)

\* The reader of c has a text message, and waits for somebody to take it.
Type(c) ==
    /\ c \in Typists
    /\ H!ReadText(c)
    /\ senders' = Append(senders, <<"reader", c>>)
    /\ UNCHANGED <<attach, outVars, stdin, saver, stopSaver, sizeVars, endVars, procVars>>

\* The input goroutine of s is in PtyHandlerImpl.Read, and it is the turn of a sender.
Receives(s, sender) ==
    /\ stdin[s] = "waiting"
    /\ senders # <<>> /\ Head(senders) = sender
    /\ senders' = Tail(senders)

\* Mutant: a stream takes the messages of the client that opened it, only.
TakeInputOfOpener(s, c) ==
    /\ s = c
    /\ Receives(s, <<"reader", c>>)
    /\ H!InputTaken(c)
    /\ stdin' = [stdin EXCEPT ![s] = "writing"]
    /\ UNCHANGED <<attach, outVars, saver, stopSaver, sizeVars, endVars, procVars>>

\* The reader of c goes on, and io.Copy has a message to write to the process ...
TakeInput(s, c) ==
    /\ Receives(s, <<"reader", c>>)
    /\ H!InputTaken(c)
    /\ stdin' = [stdin EXCEPT ![s] = "writing"]
    /\ UNCHANGED <<attach, outVars, saver, stopSaver, sizeVars, endVars, procVars>>

\* ... which can take as long as the process does not read.
InputWritten(s) ==
    /\ stdin[s] = "writing"
    /\ attach[s] = "streaming"
    /\ stdin' = [stdin EXCEPT ![s] = "waiting"]
    /\ UNCHANGED <<handlerVars, attach, outVars, senders, saver, stopSaver, sizeVars, endVars, procVars>>

\* The input of the process has been closed, at the latest when Stream returned: the
\* write fails and ends the goroutine.  Stream does not wait for it.
InputFails(s) ==
    /\ stdin[s] = "writing"
    /\ stdin' = [stdin EXCEPT ![s] = "dead"]
    /\ UNCHANGED <<handlerVars, attach, outVars, senders, saver, stopSaver, sizeVars, endVars, procVars>>

\* saveActivity: the ticker fires, and it waits to send an empty message ...
SaverTick(c) ==
    /\ c \in Ticking
    /\ saver[c] = "waiting"
    /\ saver' = [saver EXCEPT ![c] = "sending"]
    /\ senders' = Append(senders, <<"saver", c>>)
    /\ UNCHANGED <<handlerVars, attach, outVars, stdin, stopSaver, sizeVars, endVars, procVars>>

\* ... of which Read makes 0 bytes, and io.Copy writes nothing when it reads nothing.
TakeTick(s, c) ==
    /\ Receives(s, <<"saver", c>>)
    /\ saver' = [saver EXCEPT ![c] = "waiting"]
    /\ UNCHANGED <<handlerVars, attach, outVars, stdin, stopSaver, sizeVars, endVars, procVars>>

SaverStop(c) ==
    /\ saver[c] = "waiting"
    /\ stopSaver[c]
    /\ saver' = [saver EXCEPT ![c] = "done"]
    /\ stopSaver' = [stopSaver EXCEPT ![c] = FALSE]
    /\ UNCHANGED <<handlerVars, attach, outVars, stdin, senders, sizeVars, endVars, procVars>>

-----------------------------------------------------------------------------
(***************************************************************************)
(* Sizes: Resize and the goroutines that pass them on (Next).              *)
(***************************************************************************)
ResizeLookup(r) ==
    /\ resizer[r] = "idle"
    /\ resizer' = [resizer EXCEPT ![r] = IF registered THEN "sending" ELSE "refused"]
    /\ UNCHANGED <<handlerVars, attach, outVars, inVars, sizeChan, sizeLoops, endVars, procVars>>

ResizeSend(r) ==
    /\ resizer[r] = "sending"
    /\ sizeChan = 0
    /\ sizeChan' = 1
    /\ resizer' = [resizer EXCEPT ![r] = "done"]
    /\ UNCHANGED <<handlerVars, attach, outVars, inVars, sizeLoops, endVars, procVars>>

\* Next never returns nil, so this goes on after the end of the stream.
SizeTaken(s) ==
    /\ s \in sizeLoops
    /\ sizeChan = 1
    /\ sizeChan' = 0
    /\ UNCHANGED <<handlerVars, attach, outVars, inVars, sizeLoops, resizer, endVars, procVars>>

-----------------------------------------------------------------------------
\* Steps of the connections, their clients, readers and pingers alone.
ConnStep(c) ==
    /\ \/ H!ClientLeaves(c)
       \/ H!ReadError(c) \/ H!ReadDeadline(c) \/ H!RemoveConnection(c)
       \/ (c \in Pinged /\ H!PingBegin(c)) \/ (\E ok \in BOOLEAN : H!PingEnd(c, ok))
    /\ UNCHANGED <<attach, outVars, inVars, sizeVars, endVars, procVars>>

AttachStep(c) ==
    \/ AttachUpgrade(c) \/ AttachLookup(c) \/ AttachRegister(c)
    \/ AttachSnapshot(c) \/ RestoreBegin(c) \/ (\E ok \in BOOLEAN : RestoreEnd(c, ok))
    \/ RestorePanicked(c)
    \/ AttachFirst(c) \/ AttachNewBuffer(c)
    \/ StreamOpen(c) \/ StreamFails(c) \/ (\E res \in {"exit", "error"} : StreamReturns(c, res))
    \/ AttachStopSaver(c) \/ AttachClose(c) \/ AttachSignal(c)

WriterStep(w) ==
    \/ PtyStore(w) \/ PtySend(w) \/ PtySent(w)
    \/ \E c \in Conns : PtySendBegin(w, c)
    \/ \E c \in Conns, ok \in BOOLEAN : PtySendEnd(w, c, ok)

InputStep(c) ==
    \/ Type(c) \/ SaverTick(c) \/ SaverStop(c) \/ InputWritten(c) \/ InputFails(c)
    \/ \E s \in Conns : TakeInput(s, c) \/ TakeTick(s, c)

SizeStep ==
    \/ \E r \in Resizers : ResizeLookup(r) \/ ResizeSend(r)
    \/ \E s \in Conns : SizeTaken(s)

Next ==
    /\ serverUp
    /\ \/ \E c \in Conns : AttachStep(c) \/ ProcessExits(c) \/ ConnStep(c) \/ InputStep(c)
       \/ \E w \in Writers : WriterStep(w)
       \/ SizeStep
       \/ WatcherRemove \/ WatcherPublish

Spec == Init /\ [][Next]_vars

(***************************************************************************)
(* Fairness.  Goroutines run; a lock or a channel that a goroutine keeps   *)
(* finding free or ready is given to it (mutex starvation mode, FIFO       *)
(* queues of channels): strong fairness there.  A client drains its        *)
(* connection or is reported gone, and Stream returns once its outputs     *)
(* have ended.  Nothing says that a process exits or reads its input, or   *)
(* that a client acts.                                                     *)
(***************************************************************************)
Running(A) == serverUp /\ A

AttachRuns(c) ==
    /\ WF_vars(Running(
          \/ AttachLookup(c) \/ AttachSnapshot(c) \/ AttachFirst(c) \/ AttachNewBuffer(c)
          \/ RestoreBegin(c) \/ (\E ok \in BOOLEAN : RestoreEnd(c, ok)) \/ RestorePanicked(c)
          \/ StreamOpen(c) \/ StreamFails(c) \/ (\E res \in {"exit", "error"} : StreamReturns(c, res))
          \/ AttachStopSaver(c) \/ AttachSignal(c)))
    /\ SF_vars(Running(AttachRegister(c) \/ AttachClose(c)))

WriterRuns(w) ==
    /\ SF_vars(Running(PtySend(w)))
    /\ WF_vars(Running(
          \/ PtySent(w)
          \/ \E c \in Conns : PtySendBegin(w, c) \/ \E ok \in BOOLEAN : PtySendEnd(w, c, ok)))

\* What each liveness property rests on.
EndSpec ==
    /\ Spec
    /\ \A c \in Conns : AttachRuns(c)
    /\ \A w \in Writers : WriterRuns(w)
    /\ WF_vars(Running(WatcherRemove \/ WatcherPublish))

InputSpec ==
    /\ Spec
    /\ \A s \in Conns : WF_vars(Running(\E c \in Conns : TakeInput(s, c) \/ TakeTick(s, c)))

-----------------------------------------------------------------------------
(***************************************************************************)
(* Properties.                                                             *)
(***************************************************************************)
TypeOK ==
    /\ H!TypeOK
    /\ registered \in BOOLEAN
    /\ attach \in [Conns -> AttachState]
    /\ hasBuffer \in BOOLEAN
    /\ buffer \subseteq Chunks
    /\ snapshot \in [Conns -> SUBSET Chunks]
    /\ process \in [Conns -> {"none", "running", "exited"}]
    /\ outcome \in [Conns -> {"none", "exit", "error"}]
    /\ produced \in [Writers -> 0..MaxOut]
    /\ busy \subseteq Writers
    /\ seen \in [Conns -> SUBSET Chunks]
    /\ stdin \in [Conns -> {"none", "waiting", "writing", "dead"}]
    /\ senders \in Seq(Senders)
    /\ saver \in [Conns -> {"none", "waiting", "sending", "done"}]
    /\ stopSaver \in [Conns -> BOOLEAN]
    /\ sizeChan \in 0..1
    /\ sizeLoops \subseteq Conns
    /\ resizer \in [Resizers -> {"idle", "sending", "refused", "done"}]
    /\ watcher \in {"waiting", "removing", "publishing", "done"}
    /\ signal \in {"none", "exit", "error"}
    /\ event \in {"none", "exit", "error"}

\* The Attach calls that have taken it on themselves to open the stream.
Streamers == {c \in Conns : saver[c] # "none"}
SingleStream == Cardinality(Streamers) <= 1

\* Chunks in the buffer that their output goroutine has still to send to c.
Unsent(c) == {ChunkOf(w) : w \in {v \in busy : lock # v \/ c \in todo \/ v \in inflight[c]}}

\* The client of c follows the session: it is registered, its connection is up
\* and its replay, if it was given one, is over.
Following(c) ==
    /\ c \in wsConns /\ sock[c] = "open" /\ c \notin garbled
    /\ attach[c] \in {"streaming", "returned"}

\* Everything the exec has written.
Emitted == {k \in Chunks : k[2] <= produced[k[1]]}

\* No output falls between the replay and the live output: whatever the exec has
\* written, a client that follows the session has been sent it, in the replay or
\* live, or is about to be.  Attach registers the connection before it copies the
\* buffer, and Write stores a chunk before it looks for connections
\* (kubernetes_exec_manager.go:279-284, pty_handler.go:41-43).
NoOutputLost ==
    SingleStream => \A c \in Conns : Following(c) => Emitted \subseteq seen[c] \cup Unsent(c)

\* The notification tells the truth: it comes after the exec was removed, says
\* what a stream of the exec ended with, and, when only one request opened a
\* stream, comes after its process has gone.
NotificationTruthful ==
    event # "none" =>
        /\ ~registered
        /\ \E c \in Conns : attach[c] = "returned" /\ outcome[c] = event
        /\ SingleStream => \A c \in Conns : process[c] # "running"

\* Exit or failure of a stream is notified, unless the server has died.
EndIsNotified ==
    (\E c \in Conns : process[c] = "exited" \/ outcome[c] # "none")
        ~> (event # "none" \/ ~serverUp)

\* The input of the stream's process can be written to.
InputOpen(s) == process[s] = "running" /\ stdin[s] # "dead"

\* A message a client has typed is taken to be written to the running process, if no
\* write to it stays blocked for ever: neither other clients that type on and on nor
\* the activity savers keep it from the channel (pty_handler.go:28,
\* activity-connection-saver.go:37).
InputIsTaken ==
    \A s, c \in Conns :
        []<>(stdin[s] # "writing") =>
            ((reader[c] = "sending" /\ InputOpen(s))
                ~> (reader[c] # "sending" \/ ~InputOpen(s) \/ ~serverUp))

-----------------------------------------------------------------------------
(***************************************************************************)
(* The session implements the lifecycle.  The phase is told by the watcher *)
(* and, before it is woken, by the buffer; a request is answered by        *)
(* getByID.                                                                *)
(***************************************************************************)
Phase ==
    CASE watcher = "waiting"    -> IF hasBuffer THEN "running" ELSE "available"
      [] watcher = "removing"   -> "over"
      [] watcher = "publishing" -> "removed"
      [] watcher = "done"       -> "notified"

Answer(c) ==
    CASE attach[c] \in {"idle", "upgraded"} -> "none"
      [] attach[c] = "refused"              -> "refused"
      [] OTHER                              -> "accepted"

L == INSTANCE ExecLifecycle WITH
        Clients <- Conns, phase <- Phase, request <- [c \in Conns |-> Answer(c)],
        result <- signal

\* However requests, streams and the watcher interleave, two streams racing
\* included, clients see an exec that ends once, is removed, and then is
\* notified once; a request is accepted exactly while the exec is registered.
ImplementsLifecycle == L!Spec

-----------------------------------------------------------------------------
(***************************************************************************)
(* What is said of the code, and does not hold.                            *)
(***************************************************************************)

\* gorilla/websocket: "Applications are responsible for ensuring that no more
\* than one goroutine calls the write methods [...] concurrently"
\* (vendor/github.com/gorilla/websocket/doc.go:128).
OneWriterPerConnection == \A c \in Conns : Cardinality(inflight[c]) <= 1
=============================================================================
