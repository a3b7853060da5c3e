---------------------------- MODULE WsConnHandler ----------------------------
(***************************************************************************)
(* The websocket connection handler of one exec (package ws-conn), with    *)
(* the write discipline of the gorilla connections it drives.              *)
(*                                                                         *)
(* A connection is read by one goroutine and pinged by another, both       *)
(* started by ReadConnection.  Output is written to all registered         *)
(* connections by WriteDataToWsConnections under wsConnsLock, which is     *)
(* held while the writes block.  Two other goroutines write to the same    *)
(* connection without that lock: the ping goroutine, and Attach when it    *)
(* replays earlier output.  Payloads are left to the module that calls     *)
(* this one: here a write begins, blocks, and ends well or with an error.  *)
(*                                                                         *)
(* wsConns is a slice in the code.  The order in which it is ranged over   *)
(* is not observable here, and a connection is registered at most once, so *)
(* it is a set.                                                            *)
(***************************************************************************)

CONSTANTS
    Conns,     \* websocket connections, one per /attach request
    Writers,   \* goroutines that may call WriteDataToWsConnections
    NoWriter   \* the value of lock while wsConnsLock is free

\* The two goroutines that write to c without holding wsConnsLock.
Pinger(c)   == <<c, "ping">>
Attacher(c) == <<c, "attach">>

Threads == Writers \cup {Pinger(c) : c \in Conns} \cup {Attacher(c) : c \in Conns}

ASSUME WriterAssumption ==
    /\ NoWriter \notin Writers
    /\ \A c \in Conns : Pinger(c) \notin Writers /\ Attacher(c) \notin Writers

VARIABLES
    wsConns,    \* handler.wsConns
    lock,       \* the writer inside WriteDataToWsConnections, or NoWriter
    todo,       \* connections its range loop has not reached yet
    working,    \* its local workingConns, {} outside of a broadcast
    sock,       \* the TCP connection under each websocket connection
    inflight,   \* goroutines inside conn.WriteMessage, per connection
    garbled,    \* connections on which two writes have overlapped
    reader,     \* program counter of readDataFromConnection
    pinger,     \* program counter of sendPingMessage
    serverUp    \* FALSE once an unrecovered panic has killed the process

vars == <<wsConns, lock, todo, working, sock, inflight, garbled, reader, pinger, serverUp>>

SockState   == {"new", "open", "gone", "closed"}
ReaderState == {"none", "reading", "sending", "removing", "dead"}
PingerState == {"none", "waiting", "writing", "dead"}

Init ==
    /\ wsConns = {}
    /\ lock = NoWriter
    /\ todo = {}
    /\ working = {}
    /\ sock = [c \in Conns |-> "new"]
    /\ inflight = [c \in Conns |-> {}]
    /\ garbled = {}
    /\ reader = [c \in Conns |-> "none"]
    /\ pinger = [c \in Conns |-> "none"]
    /\ serverUp = TRUE

-----------------------------------------------------------------------------
(***************************************************************************)
(* The connection itself.                                                  *)
(***************************************************************************)

\* A client connects: upgrader.Upgrade in doAttach.
Open(c) ==
    /\ sock[c] = "new"
    /\ sock' = [sock EXCEPT ![c] = "open"]
    /\ UNCHANGED <<wsConns, lock, todo, working, inflight, garbled, reader, pinger, serverUp>>

\* The client closes the connection or the network loses it.
ClientLeaves(c) ==
    /\ sock[c] = "open"
    /\ sock' = [sock EXCEPT ![c] = "gone"]
    /\ UNCHANGED <<wsConns, lock, todo, working, inflight, garbled, reader, pinger, serverUp>>

(***************************************************************************)
(* Goroutine t enters conn.WriteMessage.  A connection has one write       *)
(* buffer and one isWriting flag, checked and set without synchronisation. *)
(* When t finds another goroutine h inside, either of the two panics on    *)
(* the flag (the later on entering, the earlier on leaving), or neither    *)
(* notices; whichever it is, their frames share the buffer.  A panic in an *)
(* HTTP handler goroutine is recovered by gin; any other ends the process. *)
(***************************************************************************)
BeginWrite(c, t) ==
    /\ t \notin inflight[c]
    /\ \/ /\ inflight[c] = {}
          /\ inflight' = [inflight EXCEPT ![c] = {t}]
          /\ UNCHANGED <<garbled, serverUp>>
       \/ /\ inflight[c] # {}
          /\ garbled' = garbled \cup {c}
          /\ \/ /\ inflight' = [inflight EXCEPT ![c] = @ \cup {t}]
                /\ UNCHANGED serverUp
             \/ \E h \in inflight[c] \cup {t} :
                   /\ inflight' = [inflight EXCEPT ![c] = (@ \cup {t}) \ {h}]
                   /\ IF h = Attacher(c) THEN UNCHANGED serverUp ELSE serverUp' = FALSE

\* WriteMessage returns to t.  Writing to an open connection succeeds (after
\* blocking as long as the client does not read: there is no write deadline),
\* to one the server closed it fails, and to one the client left it may do either.
EndWrite(c, t, ok) ==
    /\ t \in inflight[c]
    /\ ok => sock[c] # "closed"
    /\ ~ok => sock[c] # "open"
    /\ inflight' = [inflight EXCEPT ![c] = @ \ {t}]

-----------------------------------------------------------------------------
(***************************************************************************)
(* The operations of ConnectionHandlerImpl.                                *)
(***************************************************************************)

\* Mutant: ReadConnection without wsConnsLock.
ReadConnectionUnlocked(c) ==
    /\ sock[c] # "new"
    /\ reader[c] = "none"
    /\ wsConns' = wsConns \cup {c}
    /\ reader' = [reader EXCEPT ![c] = "reading"]
    /\ pinger' = [pinger EXCEPT ![c] = "waiting"]
    /\ UNCHANGED <<lock, todo, working, sock, inflight, garbled, serverUp>>

\* ReadConnection: register c and start its reader and its pinger.
ReadConnection(c) ==
    /\ sock[c] # "new"
    /\ reader[c] = "none"
    /\ lock = NoWriter
    /\ wsConns' = wsConns \cup {c}
    /\ reader' = [reader EXCEPT ![c] = "reading"]
    /\ pinger' = [pinger EXCEPT ![c] = "waiting"]
    /\ UNCHANGED <<lock, todo, working, sock, inflight, garbled, serverUp>>

\* WriteDataToWsConnections takes the lock and starts its range loop.
WriteDataToWsConnections(w) ==
    /\ lock = NoWriter
    /\ lock' = w
    /\ todo' = wsConns
    /\ UNCHANGED <<wsConns, working, sock, inflight, garbled, reader, pinger, serverUp>>

\* The holder of the lock is between two writes.
BetweenWrites(w) == lock = w /\ \A c \in Conns : w \notin inflight[c]

\* One turn of the loop: the write to c begins ...
BroadcastBegin(w, c) ==
    /\ BetweenWrites(w)
    /\ c \in todo
    /\ todo' = todo \ {c}
    /\ BeginWrite(c, w)
    /\ UNCHANGED <<wsConns, lock, working, sock, reader, pinger>>

\* Mutant: the copy has a slot per connection, and a failed write leaves nil in it.
BroadcastEndKeepsNil(w, c, ok) ==
    /\ lock = w
    /\ EndWrite(c, w, ok)
    /\ working' = working \cup {IF ok THEN c ELSE NoWriter}
    /\ UNCHANGED <<wsConns, lock, todo, sock, garbled, reader, pinger, serverUp>>

\* ... and ends; only a connection written without error is kept.
BroadcastEnd(w, c, ok) ==
    /\ lock = w
    /\ EndWrite(c, w, ok)
    /\ working' = IF ok THEN working \cup {c} ELSE working
    /\ UNCHANGED <<wsConns, lock, todo, sock, garbled, reader, pinger, serverUp>>

\* Mutant: the lock is not released.
BroadcastDoneKeepsLock(w) ==
    /\ BetweenWrites(w)
    /\ todo = {}
    /\ wsConns' = working
    /\ UNCHANGED <<lock, todo, working, sock, inflight, garbled, reader, pinger, serverUp>>

\* The loop is over: the survivors replace the list, the lock is released.
BroadcastDone(w) ==
    /\ BetweenWrites(w)
    /\ todo = {}
    /\ wsConns' = working
    /\ lock' = NoWriter
    /\ working' = {}
    /\ UNCHANGED <<todo, sock, inflight, garbled, reader, pinger, serverUp>>

\* CloseConnections: close everything registered and forget it.
CloseConnections ==
    /\ lock = NoWriter
    /\ sock' = [c \in Conns |-> IF c \in wsConns THEN "closed" ELSE sock[c]]
    /\ wsConns' = {}
    /\ UNCHANGED <<lock, todo, working, inflight, garbled, reader, pinger, serverUp>>

-----------------------------------------------------------------------------
(***************************************************************************)
(* The goroutines of one connection.                                       *)
(***************************************************************************)

\* readDataFromConnection reads a text message (data the client sent before it
\* left can still be read) and blocks on inputChan with it ...
ReadText(c) ==
    /\ reader[c] = "reading"
    /\ sock[c] \in {"open", "gone"}
    /\ reader' = [reader EXCEPT ![c] = "sending"]
    /\ UNCHANGED <<wsConns, lock, todo, working, sock, inflight, garbled, pinger, serverUp>>

\* ... until somebody receives it.
InputTaken(c) ==
    /\ reader[c] = "sending"
    /\ reader' = [reader EXCEPT ![c] = "reading"]
    /\ UNCHANGED <<wsConns, lock, todo, working, sock, inflight, garbled, pinger, serverUp>>

\* Mutant: the reader returns without its deferred removeConnection.
ReadErrorForgetsToRemove(c) ==
    /\ reader[c] = "reading"
    /\ sock[c] # "open"
    /\ reader' = [reader EXCEPT ![c] = "dead"]
    /\ UNCHANGED <<wsConns, lock, todo, working, sock, inflight, garbled, pinger, serverUp>>

\* ReadMessage fails: the connection is down ...
ReadError(c) ==
    /\ reader[c] = "reading"
    /\ sock[c] # "open"
    /\ reader' = [reader EXCEPT ![c] = "removing"]
    /\ UNCHANGED <<wsConns, lock, todo, working, sock, inflight, garbled, pinger, serverUp>>

\* ... or no pong has come for pongWait since the last one: the reader gives up
\* on a connection that stays open, for nothing closes it here.
ReadDeadline(c) ==
    /\ reader[c] = "reading"
    /\ sock[c] = "open"
    /\ reader' = [reader EXCEPT ![c] = "removing"]
    /\ UNCHANGED <<wsConns, lock, todo, working, sock, inflight, garbled, pinger, serverUp>>

\* Mutant: removeConnection without wsConnsLock.
RemoveConnectionUnlocked(c) ==
    /\ reader[c] = "removing"
    /\ wsConns' = wsConns \ {c}
    /\ reader' = [reader EXCEPT ![c] = "dead"]
    /\ UNCHANGED <<lock, todo, working, sock, inflight, garbled, pinger, serverUp>>

\* The deferred removeConnection; the reader goroutine ends.
RemoveConnection(c) ==
    /\ reader[c] = "removing"
    /\ lock = NoWriter
    /\ wsConns' = wsConns \ {c}
    /\ reader' = [reader EXCEPT ![c] = "dead"]
    /\ UNCHANGED <<lock, todo, working, sock, inflight, garbled, pinger, serverUp>>

\* The ping ticker fires: WriteMessage(PingMessage), without the lock.
PingBegin(c) ==
    /\ pinger[c] = "waiting"
    /\ pinger' = [pinger EXCEPT ![c] = "writing"]
    /\ BeginWrite(c, Pinger(c))
    /\ UNCHANGED <<wsConns, lock, todo, working, sock, reader>>

\* The first ping that fails ends the goroutine.
PingEnd(c, ok) ==
    /\ pinger[c] = "writing"
    /\ EndWrite(c, Pinger(c), ok)
    /\ pinger' = [pinger EXCEPT ![c] = IF ok THEN "waiting" ELSE "dead"]
    /\ UNCHANGED <<wsConns, lock, todo, working, sock, garbled, reader, serverUp>>

\* Attach writes the replayed output to the connection it has registered, also
\* without the lock.
AttachWriteBegin(c) ==
    /\ reader[c] # "none"
    /\ BeginWrite(c, Attacher(c))
    /\ UNCHANGED <<wsConns, lock, todo, working, sock, reader, pinger>>

AttachWriteEnd(c, ok) ==
    /\ EndWrite(c, Attacher(c), ok)
    /\ UNCHANGED <<wsConns, lock, todo, working, sock, garbled, reader, pinger, serverUp>>

-----------------------------------------------------------------------------
WriterStep(w) ==
    \/ WriteDataToWsConnections(w)
    \/ BroadcastDone(w)
    \/ \E c \in Conns : BroadcastBegin(w, c)
    \/ \E c \in Conns, ok \in BOOLEAN : BroadcastEnd(w, c, ok)

ConnStep(c) ==
    \/ Open(c) \/ ClientLeaves(c)
    \/ ReadConnection(c)
    \/ ReadText(c) \/ InputTaken(c) \/ ReadError(c) \/ ReadDeadline(c) \/ RemoveConnection(c)
    \/ PingBegin(c) \/ (\E ok \in BOOLEAN : PingEnd(c, ok))
    \/ AttachWriteBegin(c) \/ (\E ok \in BOOLEAN : AttachWriteEnd(c, ok))

Next ==
    /\ serverUp
    /\ \/ \E w \in Writers : WriterStep(w)
       \/ \E c \in Conns : ConnStep(c)
       \/ CloseConnections

Spec == Init /\ [][Next]_vars

(***************************************************************************)
(* Fairness.  Every goroutine that can run does run.  sync.Mutex hands the *)
(* lock to a waiter it has starved, so a goroutine that keeps finding it   *)
(* free gets it (strong fairness).  ClientsDrain is an assumption on the   *)
(* environment: a client reads what it is sent, or TCP reports it gone.    *)
(***************************************************************************)
Running(A) == serverUp /\ A

ClientsDrain ==
    \A c \in Conns : WF_vars(Running(\E w \in Writers, ok \in BOOLEAN : BroadcastEnd(w, c, ok)))

GoroutinesRun ==
    /\ \A w \in Writers : WF_vars(Running(BroadcastDone(w) \/ \E c \in Conns : BroadcastBegin(w, c)))
    /\ \A c \in Conns : WF_vars(Running(ReadError(c))) /\ SF_vars(Running(RemoveConnection(c)))

FairSpec == Spec /\ GoroutinesRun /\ ClientsDrain

-----------------------------------------------------------------------------
(***************************************************************************)
(* Properties.                                                             *)
(***************************************************************************)

\* Every variable has its type.
TypeOK ==
    /\ wsConns \subseteq Conns
    /\ lock \in Writers \cup {NoWriter}
    /\ todo \subseteq Conns
    /\ working \subseteq Conns
    /\ sock \in [Conns -> SockState]
    /\ inflight \in [Conns -> SUBSET Threads]
    /\ garbled \subseteq Conns
    /\ reader \in [Conns -> ReaderState]
    /\ pinger \in [Conns -> PingerState]
    /\ serverUp \in BOOLEAN

\* An attached client keeps receiving output: as long as its connection is open
\* and its reader runs, it stays in wsConns, although every broadcast replaces
\* the whole list by the copy it has built (ws-connection-handler.go:96) while
\* other goroutines register and remove connections.
LiveConnRegistered ==
    \A c \in Conns :
        reader[c] \in {"reading", "sending"} /\ sock[c] = "open" => c \in wsConns

\* A connection once removed never comes back: neither one whose reader has
\* ended nor one CloseConnections has closed is in wsConns, whatever copy of the
\* list a broadcast was holding when it went away.
ForgottenStaysForgotten ==
    \A c \in wsConns : reader[c] \notin {"none", "dead"} /\ sock[c] # "closed"

\* What makes the replacement safe.  While a broadcast holds the lock, the part
\* of the list it has still to reach and the copy it has built are parts of
\* wsConns, and together with the connection being written they hold every
\* connection of wsConns that is open.  Nobody else is writing output, and a
\* connection is read only after it was opened and closed only once it is read.
BroadcastInv ==
    /\ \A c \in Conns : reader[c] = "none" => sock[c] # "closed"
    /\ \A c \in Conns : sock[c] = "new" => reader[c] = "none"
    /\ lock = NoWriter => todo = {} /\ working = {}
    /\ \A c \in Conns : \A w \in Writers \cap inflight[c] : lock = w
    /\ lock # NoWriter =>
          /\ todo \subseteq wsConns
          /\ working \subseteq wsConns
          /\ \A c \in Conns : lock \in inflight[c] => c \in wsConns
    /\ lock # NoWriter /\ serverUp =>
          \A c \in wsConns :
              sock[c] = "open" => c \in todo \/ c \in working \/ lock \in inflight[c]

\* wsConnsLock is not held for ever: a broadcast ends and releases it, provided
\* every client drains its connection or is reported gone.
LockIsReleased ==
    \A w \in Writers : (lock = w) ~> (lock # w \/ ~serverUp)

\* A connection that went down while its reader waited for input is forgotten,
\* even if broadcasts keep taking the lock the reader needs for that.
DownIsForgotten ==
    \A c \in Conns :
        (sock[c] \in {"gone", "closed"} /\ reader[c] = "reading")
            ~> (c \notin wsConns \/ reader[c] = "sending" \/ ~serverUp)
=============================================================================
