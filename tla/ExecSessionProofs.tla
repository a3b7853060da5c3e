-------------------------- MODULE ExecSessionProofs --------------------------
(***************************************************************************)
(* Proofs about an exec session, for any number of clients, resize         *)
(* requests and chunks, whoever types: that it drives its handler and    *)
(* implements the life cycle of an exec, its types, the truth of the       *)
(* notification, and that no output falls between the replay and the live  *)
(* output.                                                                 *)
(***************************************************************************)
EXTENDS ExecSession, FiniteSetTheorems, TLAPS

HP == INSTANCE WsConnHandlerProofs

\* The goroutines that write output are not among those that write to a
\* connection without its lock.
LEMMA WritersApart ==
  /\ NoWriter \notin Writers
  /\ \A c \in Conns : H!Pinger(c) \notin Writers /\ H!Attacher(c) \notin Writers
BY SessionAssumption DEF Writers, Outputs, H!Pinger, H!Attacher

-----------------------------------------------------------------------------
(***************************************************************************)
(* A session drives its connection handler only by the handler's own       *)
(* operations: each of its steps is a step of the handler or leaves the    *)
(* handler as it was.  So what is proved of the handler holds of it.       *)
(***************************************************************************)
LEMMA AttachDrivesHandler ==
  ASSUME NEW c \in Conns, AttachStep(c), serverUp
  PROVE  H!Next \/ UNCHANGED H!vars
<1> USE DEF handlerVars, H!vars
<1>1. CASE AttachUpgrade(c)
  BY <1>1 DEF AttachUpgrade, H!Next, H!ConnStep
<1>2. CASE AttachRegister(c)
  BY <1>2 DEF AttachRegister, H!Next, H!ConnStep
<1>3. CASE RestoreBegin(c)
  BY <1>3 DEF RestoreBegin, H!Next, H!ConnStep
<1>4. ASSUME NEW ok \in BOOLEAN, RestoreEnd(c, ok) PROVE H!Next
  BY <1>4 DEF RestoreEnd, H!Next, H!ConnStep
<1>5. CASE AttachClose(c)
  BY <1>5 DEF AttachClose, H!Next
<1>6. CASE AttachLookup(c) \/ AttachSnapshot(c) \/ RestorePanicked(c) \/ AttachFirst(c) \/ AttachNewBuffer(c)
  BY <1>6 DEF AttachLookup, AttachSnapshot, RestorePanicked, AttachFirst, AttachNewBuffer
<1>7. CASE StreamOpen(c) \/ StreamFails(c) \/ AttachStopSaver(c) \/ AttachSignal(c)
  BY <1>7 DEF StreamOpen, StreamFails, AttachStopSaver, AttachSignal
<1>8. ASSUME NEW res \in {"exit", "error"}, StreamReturns(c, res) PROVE UNCHANGED H!vars
  BY <1>8 DEF StreamReturns
<1> QED BY <1>1, <1>2, <1>3, <1>4, <1>5, <1>6, <1>7, <1>8 DEF AttachStep

LEMMA StepDrivesHandler == [Next]_vars => [H!Next]_H!vars
<1> SUFFICES ASSUME [Next]_vars PROVE H!Next \/ UNCHANGED H!vars
  OBVIOUS
<1> USE DEF handlerVars, H!vars
<1>1. ASSUME NEW c \in Conns, AttachStep(c), serverUp PROVE H!Next \/ UNCHANGED H!vars
  BY <1>1, AttachDrivesHandler
<1>2. ASSUME NEW c \in Conns, ProcessExits(c) PROVE UNCHANGED H!vars
  BY <1>2 DEF ProcessExits
<1>3. ASSUME NEW c \in Conns, ConnStep(c), serverUp PROVE H!Next
  BY <1>3 DEF ConnStep, H!Next, H!ConnStep
<1>4. ASSUME NEW c \in Conns, InputStep(c), serverUp PROVE H!Next \/ UNCHANGED H!vars
  <2>1. CASE Type(c)
    BY <1>4, <2>1 DEF Type, H!Next, H!ConnStep
  <2>2. ASSUME NEW s \in Conns, TakeInput(s, c) PROVE H!Next
    BY <1>4, <2>2 DEF TakeInput, H!Next, H!ConnStep
  <2>3. ASSUME NEW s \in Conns, TakeTick(s, c) PROVE UNCHANGED H!vars
    BY <2>3 DEF TakeTick
  <2>4. CASE SaverTick(c) \/ SaverStop(c) \/ InputWritten(c) \/ InputFails(c)
    BY <2>4 DEF SaverTick, SaverStop, InputWritten, InputFails
  <2> QED BY <1>4, <2>1, <2>2, <2>3, <2>4 DEF InputStep
<1>5. ASSUME NEW w \in Writers, WriterStep(w), serverUp PROVE H!Next \/ UNCHANGED H!vars
  <2>1. CASE PtyStore(w)
    BY <2>1 DEF PtyStore
  <2>2. CASE PtySend(w) \/ PtySent(w)
    BY <1>5, <2>2 DEF PtySend, PtySent, H!Next, H!WriterStep
  <2>3. ASSUME NEW c \in Conns, PtySendBegin(w, c) PROVE H!Next
    BY <1>5, <2>3 DEF PtySendBegin, H!Next, H!WriterStep
  <2>4. ASSUME NEW c \in Conns, NEW ok \in BOOLEAN, PtySendEnd(w, c, ok) PROVE H!Next
    BY <1>5, <2>4 DEF PtySendEnd, H!Next, H!WriterStep
  <2> QED BY <1>5, <2>1, <2>2, <2>3, <2>4 DEF WriterStep
<1>6. CASE SizeStep
  BY <1>6 DEF SizeStep, ResizeLookup, ResizeSend, SizeTaken
<1>7. CASE WatcherRemove \/ WatcherPublish
  BY <1>7 DEF WatcherRemove, WatcherPublish
<1>8. CASE UNCHANGED vars
  BY <1>8 DEF vars
<1> QED BY <1>1, <1>2, <1>3, <1>4, <1>5, <1>6, <1>7, <1>8 DEF Next

THEOREM SessionDrivesHandler == Spec => H!Spec
<1>1. Init => H!Init
  BY DEF Init
<1> QED BY <1>1, StepDrivesHandler, PTL DEF Spec, H!Spec

\* HP names the same handler as H: its proofs speak of the same behaviours.
LEMMA SameHandler == H!Spec => HP!Spec
<1>1. H!Init => HP!Init
  BY DEF H!Init, HP!Init
<1>2. H!Next <=> HP!Next
  BY DEF H!Open, H!ClientLeaves, H!BeginWrite, H!EndWrite, H!ReadConnection,
         H!WriteDataToWsConnections, H!BetweenWrites, H!BroadcastBegin,
         H!BroadcastEnd, H!BroadcastDone, H!CloseConnections, H!ReadText,
         H!InputTaken, H!ReadError, H!ReadDeadline, H!RemoveConnection,
         H!PingBegin, H!PingEnd, H!AttachWriteBegin, H!AttachWriteEnd,
         H!WriterStep, H!ConnStep, H!Next, H!Pinger, H!Attacher,
         HP!Open, HP!ClientLeaves, HP!BeginWrite, HP!EndWrite,
         HP!ReadConnection, HP!WriteDataToWsConnections, HP!BetweenWrites,
         HP!BroadcastBegin, HP!BroadcastEnd, HP!BroadcastDone,
         HP!CloseConnections, HP!ReadText, HP!InputTaken, HP!ReadError,
         HP!ReadDeadline, HP!RemoveConnection, HP!PingBegin, HP!PingEnd,
         HP!AttachWriteBegin, HP!AttachWriteEnd, HP!WriterStep, HP!ConnStep,
         HP!Next, HP!Pinger, HP!Attacher
<1>3. [H!Next]_H!vars => [HP!Next]_HP!vars
  BY <1>2 DEF H!vars, HP!vars
<1> QED BY <1>1, <1>3, PTL DEF H!Spec, HP!Spec

\* In a session too, no open connection whose reader runs is ever dropped ...
THEOREM SessionKeepsLiveConns == Spec => []H!LiveConnRegistered
<1>1. HP!LiveConnRegistered => H!LiveConnRegistered
  BY DEF HP!LiveConnRegistered, H!LiveConnRegistered
<1>2. HP!WriterAssumption
  BY WritersApart DEF HP!WriterAssumption, HP!Pinger, HP!Attacher, H!Pinger, H!Attacher
<1>3. HP!Spec => []HP!LiveConnRegistered
  BY <1>2, HP!LiveConnStaysRegistered
<1> QED
  BY <1>1, <1>3, SessionDrivesHandler, SameHandler, PTL

\* ... nor does any broadcast bring back one that was removed or closed.
THEOREM SessionForgetsConns == Spec => []H!ForgottenStaysForgotten
<1>1. HP!ForgottenStaysForgotten => H!ForgottenStaysForgotten
  BY DEF HP!ForgottenStaysForgotten, H!ForgottenStaysForgotten
<1>2. HP!WriterAssumption
  BY WritersApart DEF HP!WriterAssumption, HP!Pinger, HP!Attacher, H!Pinger, H!Attacher
<1>3. HP!Spec => []HP!ForgottenStaysForgotten
  BY <1>2, HP!ForgottenIsForgotten
<1> QED
  BY <1>1, <1>3, SessionDrivesHandler, SameHandler, PTL

\* Nor do more goroutines of a session meet in WriteMessage than those three:
\* stdout and stderr of one exec never write to one connection at once
\* (ws-connection-handler.go:82, 88, 126; pty_handler.go:43).
THEOREM SessionWritersMeet == Spec => []HP!OnlyItsThreeWriters
<1>1. HP!WriterAssumption
  BY WritersApart DEF HP!WriterAssumption, HP!Pinger, HP!Attacher, H!Pinger, H!Attacher
<1>2. HP!Spec => []HP!OnlyItsThreeWriters
  BY <1>1, HP!AtMostThreeWritersMeet
<1> QED
  BY <1>2, SessionDrivesHandler, SameHandler, PTL

-----------------------------------------------------------------------------
(***************************************************************************)
(* The session implements the lifecycle.  What the simulation needs to     *)
(* know: the exec is registered until the watcher removes it; a request    *)
(* that is streaming, or done with it, has seen the buffer created and,    *)
(* once done, has a result; the watcher wakes only with a result.          *)
(***************************************************************************)
AfterStream == {"stopping", "closing", "signalling"}
Results     == {"exit", "error"}

LifeInv ==
    /\ attach \in [Conns -> AttachState]
    /\ outcome \in [Conns -> Results \cup {"none"}]
    /\ hasBuffer \in BOOLEAN
    /\ watcher \in {"waiting", "removing", "publishing", "done"}
    /\ registered <=> watcher \in {"waiting", "removing"}
    /\ \A c \in Conns : attach[c] \in AfterStream \cup {"streaming"} => hasBuffer
    /\ \A c \in Conns : attach[c] \in AfterStream => outcome[c] \in Results
    /\ watcher # "waiting" => hasBuffer

\* What the steps of other parts leave alone is all that LifeInv and the
\* lifecycle speak of.
lifeVars == <<attach, outcome, hasBuffer, watcher, registered, signal, event>>

LEMMA OtherSteps ==
  ASSUME [Next]_vars
  PROVE  \/ UNCHANGED lifeVars
         \/ \E c \in Conns : AttachStep(c)
         \/ WatcherRemove \/ WatcherPublish
<1> USE DEF lifeVars, handlerVars, outVars, endVars, procVars
<1>1. ASSUME NEW c \in Conns, ProcessExits(c) PROVE UNCHANGED lifeVars
  BY <1>1 DEF ProcessExits
<1>2. ASSUME NEW c \in Conns, ConnStep(c) PROVE UNCHANGED lifeVars
  BY <1>2 DEF ConnStep
<1>3. ASSUME NEW c \in Conns, InputStep(c) PROVE UNCHANGED lifeVars
  BY <1>3 DEF InputStep, Type, SaverTick, SaverStop, InputWritten, InputFails,
         TakeInput, TakeTick, Receives
<1>4. ASSUME NEW w \in Writers, WriterStep(w) PROVE UNCHANGED lifeVars
  BY <1>4 DEF WriterStep, PtyStore, PtySend, PtySendBegin, PtySendEnd, PtySent
<1>5. CASE SizeStep
  BY <1>5 DEF SizeStep, ResizeLookup, ResizeSend, SizeTaken
<1>6. CASE UNCHANGED vars
  BY <1>6 DEF vars
<1> QED BY <1>1, <1>2, <1>3, <1>4, <1>5, <1>6 DEF Next

LEMMA LifeInvNext == LifeInv /\ [Next]_vars => LifeInv'
<1> SUFFICES ASSUME LifeInv, [Next]_vars PROVE LifeInv'
  OBVIOUS
<1> USE DEF LifeInv, AfterStream, Results, AttachState, handlerVars, outVars, endVars, procVars
<1>1. CASE UNCHANGED lifeVars
  BY <1>1 DEF lifeVars
<1>2. ASSUME NEW c \in Conns, AttachStep(c) PROVE LifeInv'
  <2>1. CASE AttachUpgrade(c) \/ AttachRegister(c) \/ RestoreBegin(c) \/ AttachClose(c)
    BY <2>1 DEF AttachUpgrade, AttachRegister, RestoreBegin, AttachClose, Goto
  <2>2. CASE AttachLookup(c)
    BY <2>2 DEF AttachLookup, Goto
  <2>3. ASSUME NEW ok \in BOOLEAN, RestoreEnd(c, ok) PROVE LifeInv'
    BY <2>3 DEF RestoreEnd, Goto
  <2>4. CASE AttachSnapshot(c) \/ RestorePanicked(c) \/ AttachFirst(c)
    BY <2>4 DEF AttachSnapshot, RestorePanicked, AttachFirst, Goto
  <2>5. CASE AttachNewBuffer(c)
    BY <2>5 DEF AttachNewBuffer, Goto
  <2>6. CASE StreamOpen(c)
    BY <2>6 DEF StreamOpen
  <2>7. CASE StreamFails(c)
    BY <2>7 DEF StreamFails, Goto
  <2>8. ASSUME NEW res \in {"exit", "error"}, StreamReturns(c, res) PROVE LifeInv'
    BY <2>8 DEF StreamReturns, Goto
  <2>9. CASE AttachStopSaver(c)
    BY <2>9 DEF AttachStopSaver, Goto
  <2>10. CASE AttachSignal(c)
    BY <2>10 DEF AttachSignal, Goto
  <2> QED
    BY <1>2, <2>1, <2>2, <2>3, <2>4, <2>5, <2>6, <2>7, <2>8, <2>9, <2>10 DEF AttachStep
<1>3. CASE WatcherRemove
  BY <1>3 DEF WatcherRemove
<1>4. CASE WatcherPublish
  BY <1>4 DEF WatcherPublish
<1> QED BY <1>1, <1>2, <1>3, <1>4, OtherSteps

LEMMA LifeInvCorrect == Spec => []LifeInv
<1>1. Init => LifeInv
  <2>1. Init => /\ attach = [c \in Conns |-> "idle"] /\ outcome = [c \in Conns |-> "none"]
                /\ hasBuffer = FALSE /\ registered = TRUE
                /\ watcher = "waiting" /\ signal = "none" /\ event = "none"
    BY Zenon DEF Init
  <2> QED BY <2>1, Zenon DEF LifeInv, AfterStream, Results, AttachState
<1> QED BY <1>1, LifeInvNext, PTL DEF Spec

\* The step that an Attach call makes in the lifecycle, if any.
LEMMA AttachStepSimulated ==
  ASSUME LifeInv, NEW c \in Conns, AttachStep(c)
  PROVE  L!Next \/ UNCHANGED L!vars
<1> USE DEF LifeInv, AfterStream, Results, AttachState, Phase, Answer, L!vars,
            handlerVars, outVars, endVars, procVars
<1>1. CASE AttachLookup(c)
  <2>1. CASE registered
    BY <1>1, <2>1 DEF AttachLookup, Goto, L!Next, L!Accept, L!Removed
  <2>2. CASE ~registered
    BY <1>1, <2>2 DEF AttachLookup, Goto, L!Next, L!Refuse, L!Removed
  <2> QED BY <2>1, <2>2
<1>2. CASE AttachNewBuffer(c)
  BY <1>2 DEF AttachNewBuffer, Goto, L!Next, L!Start
<1>3. CASE AttachSignal(c)
  BY <1>3 DEF AttachSignal, Goto, L!Next, L!End
<1>4. CASE AttachUpgrade(c) \/ AttachRegister(c) \/ RestoreBegin(c) \/ AttachClose(c)
  BY <1>4 DEF AttachUpgrade, AttachRegister, RestoreBegin, AttachClose, Goto
<1>5. ASSUME NEW ok \in BOOLEAN, RestoreEnd(c, ok) PROVE UNCHANGED L!vars
  BY <1>5 DEF RestoreEnd, Goto
<1>6. CASE AttachSnapshot(c) \/ RestorePanicked(c) \/ AttachFirst(c)
  BY <1>6 DEF AttachSnapshot, RestorePanicked, AttachFirst, Goto
<1>7. CASE StreamOpen(c)
  BY <1>7 DEF StreamOpen
<1>8. CASE StreamFails(c) \/ AttachStopSaver(c)
  BY <1>8 DEF StreamFails, AttachStopSaver, Goto
<1>9. ASSUME NEW res \in {"exit", "error"}, StreamReturns(c, res) PROVE UNCHANGED L!vars
  BY <1>9 DEF StreamReturns, Goto
<1> QED BY <1>1, <1>2, <1>3, <1>4, <1>5, <1>6, <1>7, <1>8, <1>9 DEF AttachStep

\* Every step of a session is a step of the lifecycle or leaves it unchanged, so
\* what its clients are promised is kept whatever the interleaving.
THEOREM SessionImplementsLifecycle == Spec => ImplementsLifecycle
<1>1. Init => L!Init
  BY DEF Init, L!Init, Phase, Answer
<1>2. LifeInv /\ [Next]_vars => [L!Next]_L!vars
  <2> SUFFICES ASSUME LifeInv, [Next]_vars PROVE L!Next \/ UNCHANGED L!vars
    OBVIOUS
  <2>1. CASE UNCHANGED lifeVars
    BY <2>1 DEF lifeVars, L!vars, Phase, Answer
  <2>2. ASSUME NEW c \in Conns, AttachStep(c) PROVE L!Next \/ UNCHANGED L!vars
    BY <2>2, AttachStepSimulated
  <2>3. CASE WatcherRemove
    BY <2>3 DEF WatcherRemove, LifeInv, L!Next, L!Remove, Phase, Answer
  <2>4. CASE WatcherPublish
    BY <2>4 DEF WatcherPublish, LifeInv, L!Next, L!Notify, Phase, Answer
  <2> QED BY <2>1, <2>2, <2>3, <2>4, OtherSteps
<1> QED
  BY <1>1, <1>2, LifeInvCorrect, PTL DEF Spec, L!Spec, ImplementsLifecycle

-----------------------------------------------------------------------------
\* What the handler's proofs say of the handler of a session.
HandlerInv == H!TypeOK /\ H!BroadcastInv

LEMMA HandlerInvCorrect == Spec => []HandlerInv
<1>1. HP!TypeOK /\ HP!IInv => HandlerInv
  BY DEF HP!TypeOK, HP!IInv, HP!BroadcastInv, HandlerInv, H!TypeOK, H!BroadcastInv,
         H!SockState, H!ReaderState, H!PingerState, H!Threads, H!Pinger, H!Attacher,
         HP!SockState, HP!ReaderState, HP!PingerState, HP!Threads, HP!Pinger, HP!Attacher
<1>2. HP!WriterAssumption
  BY WritersApart DEF HP!WriterAssumption, HP!Pinger, HP!Attacher, H!Pinger, H!Attacher
<1>3. HP!Spec => [](HP!TypeOK /\ HP!IInv)
  BY <1>2, HP!TypeCorrect, HP!InvCorrect, PTL
<1> QED
  BY <1>1, <1>3, SessionDrivesHandler, SameHandler, PTL

-----------------------------------------------------------------------------
(***************************************************************************)
(* Types.  A goroutine that is writing has produced a chunk, and whoever   *)
(* holds the lock of the handler is writing.                               *)
(***************************************************************************)
OutTypes ==
    /\ hasBuffer \in BOOLEAN
    /\ buffer \subseteq Chunks
    /\ snapshot \in [Conns -> SUBSET Chunks]
    /\ produced \in [Writers -> 0..MaxOut]
    /\ busy \subseteq Writers
    /\ seen \in [Conns -> SUBSET Chunks]

InTypes ==
    /\ stdin \in [Conns -> {"none", "waiting", "writing", "dead"}]
    /\ senders \in Seq(Senders)
    /\ saver \in [Conns -> {"none", "waiting", "sending", "done"}]
    /\ stopSaver \in [Conns -> BOOLEAN]

SizeTypes ==
    /\ sizeChan \in 0..1
    /\ sizeLoops \subseteq Conns
    /\ resizer \in [Resizers -> {"idle", "sending", "refused", "done"}]

EndTypes ==
    /\ registered \in BOOLEAN
    /\ attach \in [Conns -> AttachState]
    /\ process \in [Conns -> {"none", "running", "exited"}]
    /\ outcome \in [Conns -> {"none", "exit", "error"}]
    /\ watcher \in {"waiting", "removing", "publishing", "done"}
    /\ signal \in {"none", "exit", "error"}
    /\ event \in {"none", "exit", "error"}

WritersInv ==
    /\ lock # NoWriter => lock \in busy
    /\ \A w \in busy : produced[w] > 0

Types == OutTypes /\ InTypes /\ SizeTypes /\ EndTypes /\ WritersInv

LEMMA AttachKeepsTypes ==
  ASSUME Types, HandlerInv, NEW c \in Conns, AttachStep(c)
  PROVE  Types'
<1> USE DEF Types, OutTypes, InTypes, SizeTypes, EndTypes, WritersInv, AttachState, Goto,
            handlerVars, outVars, inVars, sizeVars, endVars, procVars
<1>1. CASE AttachUpgrade(c) \/ AttachRegister(c)
  BY <1>1 DEF AttachUpgrade, AttachRegister, H!Open, H!ReadConnection
<1>14. CASE AttachClose(c)
  BY <1>14 DEF AttachClose, H!CloseConnections
<1>2. CASE AttachLookup(c)
  BY <1>2 DEF AttachLookup
<1>8. CASE AttachSnapshot(c)
  BY <1>8 DEF AttachSnapshot
<1>9. CASE AttachFirst(c)
  BY <1>9 DEF AttachFirst
<1>10. CASE AttachNewBuffer(c)
  BY <1>10 DEF AttachNewBuffer
<1>3. CASE RestoreBegin(c)
  BY <1>3 DEF RestoreBegin, H!AttachWriteBegin
<1>4. ASSUME NEW ok \in BOOLEAN, RestoreEnd(c, ok) PROVE Types'
  BY <1>4 DEF RestoreEnd, H!AttachWriteEnd
<1>5. CASE RestorePanicked(c)
  BY <1>5 DEF RestorePanicked
<1>13. CASE StreamFails(c)
  BY <1>13 DEF StreamFails
<1>12. CASE StreamOpen(c)
  BY <1>12 DEF StreamOpen
<1>6. ASSUME NEW res \in {"exit", "error"}, StreamReturns(c, res) PROVE Types'
  BY <1>6 DEF StreamReturns
<1>7. CASE AttachStopSaver(c)
  BY <1>7 DEF AttachStopSaver
<1>11. CASE AttachSignal(c)
  BY <1>11 DEF AttachSignal
<1> QED
  BY <1>1, <1>2, <1>3, <1>4, <1>5, <1>6, <1>7, <1>8, <1>9, <1>10, <1>11, <1>12, <1>13, <1>14
  DEF AttachStep

LEMMA WriterKeepsTypes ==
  ASSUME Types, HandlerInv, NEW w \in Writers, WriterStep(w)
  PROVE  Types'
<1> USE DEF Types, OutTypes, WritersInv, inVars, sizeVars, endVars, procVars
<1>0. InTypes' /\ SizeTypes' /\ EndTypes'
  <2>1. UNCHANGED <<attach, inVars, sizeVars, endVars, procVars>>
    BY DEF WriterStep, PtyStore, PtySend, PtySendBegin, PtySendEnd, PtySent
  <2> QED BY <2>1 DEF InTypes, SizeTypes, EndTypes
<1>1. CASE PtyStore(w)
  <2>1. /\ <<w, produced[w] + 1>> \in Chunks /\ produced[w] + 1 \in 0..MaxOut /\ produced[w] + 1 > 0
        /\ \A v \in Writers : produced[v] \in Nat
    BY <1>1, SessionAssumption DEF PtyStore, Chunks
  <2>2. /\ produced' = [produced EXCEPT ![w] = produced[w] + 1]
        /\ busy' = busy \cup {w} /\ buffer' = buffer \cup {<<w, produced[w] + 1>>}
        /\ UNCHANGED <<lock, hasBuffer, snapshot, seen>>
    BY <1>1 DEF PtyStore, handlerVars
  <2>3. OutTypes'
    BY <2>1, <2>2
  <2>4. WritersInv'
    BY <2>1, <2>2
  <2> QED BY <1>0, <2>3, <2>4
<1>2. CASE PtySend(w)
  BY <1>0, <1>2 DEF PtySend, H!WriteDataToWsConnections, outVars
<1>3. ASSUME NEW c \in Conns, PtySendBegin(w, c) PROVE Types'
  BY <1>0, <1>3 DEF PtySendBegin, H!BroadcastBegin, outVars
<1>4. ASSUME NEW c \in Conns, NEW ok \in BOOLEAN, PtySendEnd(w, c, ok) PROVE Types'
  <2>1. /\ lock = w
        /\ UNCHANGED <<lock, hasBuffer, buffer, snapshot, produced, busy>>
        /\ seen' = seen \/ seen' = [seen EXCEPT ![c] = @ \cup {<<w, produced[w]>>}]
    BY <1>4 DEF PtySendEnd, H!BroadcastEnd, ChunkOf
  <2>2. produced[w] \in 1..MaxOut
    <3> HIDE DEF WritersInv
    <3>0. w # NoWriter
      BY WritersApart
    <3>1. w \in busy
      BY <2>1, <3>0 DEF WritersInv
    <3>2. produced[w] \in 0..MaxOut /\ produced[w] > 0
      BY <3>1 DEF WritersInv
    <3> QED BY <3>2, SessionAssumption
  <2>3. <<w, produced[w]>> \in Chunks
    BY <2>2 DEF Chunks
  <2>4. seen' \in [Conns -> SUBSET Chunks]
    BY <2>1, <2>3
  <2>5. OutTypes' /\ WritersInv'
    BY <2>1, <2>4
  <2> QED BY <1>0, <2>5
<1>5. CASE PtySent(w)
  BY <1>0, <1>5 DEF PtySent, H!BroadcastDone
<1> QED BY <1>1, <1>2, <1>3, <1>4, <1>5 DEF WriterStep

LEMMA InputKeepsTypes ==
  ASSUME Types, NEW c \in Conns, InputStep(c)
  PROVE  Types'
<1> USE DEF Types, InTypes, handlerVars, outVars, sizeVars, endVars, procVars
<1>0. OutTypes' /\ SizeTypes' /\ EndTypes' /\ WritersInv'
  <2>1. UNCHANGED <<lock, attach, outVars, sizeVars, endVars, procVars>>
    BY DEF InputStep, Type, SaverTick, SaverStop, InputWritten, InputFails,
         TakeInput, TakeTick, Receives, H!ReadText, H!InputTaken
  <2> QED BY <2>1 DEF OutTypes, SizeTypes, EndTypes, WritersInv
<1>s. <<"reader", c>> \in Senders /\ <<"saver", c>> \in Senders
  BY DEF Senders
<1>1. CASE Type(c)
  BY <1>0, <1>1, <1>s DEF Type
<1>2. CASE SaverTick(c)
  BY <1>0, <1>2, <1>s DEF SaverTick
<1>5. CASE SaverStop(c) \/ InputWritten(c) \/ InputFails(c)
  BY <1>0, <1>5 DEF SaverStop, InputWritten, InputFails
<1>3. ASSUME NEW s \in Conns, TakeInput(s, c) PROVE Types'
  BY <1>0, <1>3 DEF TakeInput, Receives
<1>4. ASSUME NEW s \in Conns, TakeTick(s, c) PROVE Types'
  BY <1>0, <1>4 DEF TakeTick, Receives
<1> QED BY <1>1, <1>2, <1>3, <1>4, <1>5 DEF InputStep

LEMMA TypesNext == Types /\ HandlerInv /\ [Next]_vars => Types'
<1> SUFFICES ASSUME Types, HandlerInv, [Next]_vars PROVE Types'
  OBVIOUS
<1>1. ASSUME NEW c \in Conns, AttachStep(c) PROVE Types'
  BY <1>1, AttachKeepsTypes
<1>2. ASSUME NEW w \in Writers, WriterStep(w) PROVE Types'
  BY <1>2, WriterKeepsTypes
<1>3. ASSUME NEW c \in Conns, InputStep(c) PROVE Types'
  BY <1>3, InputKeepsTypes
<1> USE DEF Types, OutTypes, InTypes, SizeTypes, EndTypes, WritersInv, handlerVars,
            outVars, inVars, sizeVars, endVars, procVars
<1>4. ASSUME NEW c \in Conns, ProcessExits(c) PROVE Types'
  BY <1>4 DEF ProcessExits
<1>5. ASSUME NEW c \in Conns, ConnStep(c) PROVE Types'
  BY <1>5 DEF ConnStep, H!ClientLeaves, H!ReadError, H!ReadDeadline, H!RemoveConnection, H!PingBegin, H!PingEnd
<1>6. CASE SizeStep
  <2>1. ASSUME NEW r \in Resizers, ResizeLookup(r) PROVE Types'
    BY <2>1 DEF ResizeLookup
  <2>2. ASSUME NEW r \in Resizers, ResizeSend(r) PROVE Types'
    BY <2>2 DEF ResizeSend
  <2>3. ASSUME NEW s \in Conns, SizeTaken(s) PROVE Types'
    BY <2>3 DEF SizeTaken
  <2> QED BY <1>6, <2>1, <2>2, <2>3 DEF SizeStep
<1>7. CASE WatcherRemove \/ WatcherPublish
  BY <1>7 DEF WatcherRemove, WatcherPublish
<1>8. CASE UNCHANGED vars
  BY <1>8 DEF vars
<1> QED BY <1>1, <1>2, <1>3, <1>4, <1>5, <1>6, <1>7, <1>8 DEF Next

LEMMA TypesCorrect == Spec => [](Types /\ HandlerInv)
<1>1. Init => Types
  <2> SUFFICES ASSUME Init PROVE Types
    OBVIOUS
  <2> USE DEF Init
  <2>1. OutTypes
    <3>1. produced \in [Writers -> 0..MaxOut]
      BY SessionAssumption
    <3> QED BY <3>1 DEF OutTypes
  <2>2. InTypes
    BY SessionAssumption DEF InTypes
  <2>3. SizeTypes
    BY DEF SizeTypes
  <2>4. EndTypes
    BY DEF EndTypes, AttachState
  <2>5. WritersInv
    BY DEF H!Init, WritersInv
  <2> QED BY <2>1, <2>2, <2>3, <2>4, <2>5 DEF Types
<1> QED BY <1>1, TypesNext, HandlerInvCorrect, PTL DEF Spec

\* Every variable of the session keeps its type.
THEOREM SessionTypeCorrect == Spec => []TypeOK
<1>1. Types /\ HandlerInv => TypeOK
  BY DEF Types, OutTypes, InTypes, SizeTypes, EndTypes, HandlerInv, TypeOK
<1> QED BY <1>1, TypesCorrect, PTL

-----------------------------------------------------------------------------
(***************************************************************************)
(* Streams.  Who is at a stream, or beyond it, has a saver; what a process *)
(* has written, and the buffer, come from such a stream.                   *)
(***************************************************************************)
Started == AfterStream \cup {"streaming", "returned"}

StreamInv ==
    /\ \A c \in Conns : attach[c] \in AfterStream \cup {"first", "streaming"} => saver[c] # "none"
    /\ \A c \in Conns : process[c] # "none" =>
          saver[c] # "none" /\ attach[c] \in Started /\ hasBuffer
    /\ \A c \in Conns : outcome[c] # "none" =>
          saver[c] # "none" /\ attach[c] \in Started \ {"streaming"} /\ process[c] # "running"
    /\ hasBuffer => \E c \in Conns : saver[c] # "none" /\ attach[c] \in Started
    /\ \A w \in Writers : produced[w] > 0 => process[w[1]] # "none"

streamVars == <<attach, saver, process, outcome, hasBuffer, produced>>

LEMMA StreamInvNext == Types /\ LifeInv /\ StreamInv /\ [Next]_vars => StreamInv'
<1> SUFFICES ASSUME Types, LifeInv, StreamInv, [Next]_vars PROVE StreamInv'
  OBVIOUS
<1>0. /\ saver \in [Conns -> {"none", "waiting", "sending", "done"}]
      /\ attach \in [Conns -> AttachState]
      /\ process \in [Conns -> {"none", "running", "exited"}]
      /\ outcome \in [Conns -> {"none", "exit", "error"}]
      /\ produced \in [Writers -> 0..MaxOut]
  BY DEF Types, InTypes, EndTypes, OutTypes
<1>00. \A w \in Writers : w[1] \in Conns
  BY DEF Writers
<1> USE DEF StreamInv, Started, AfterStream, Goto, outVars, inVars, procVars
<1>1. CASE UNCHANGED streamVars
  BY <1>1 DEF streamVars
<1>2. ASSUME NEW c \in Conns, AttachStep(c) PROVE StreamInv'
  <2>1. CASE AttachUpgrade(c) \/ AttachLookup(c) \/ AttachRegister(c)
    BY <1>0, <1>00, <2>1 DEF AttachUpgrade, AttachLookup, AttachRegister
  <2>2. CASE AttachSnapshot(c)
    BY <1>0, <1>00, <2>2 DEF AttachSnapshot
  <2>3. CASE RestoreBegin(c)
    BY <1>0, <1>00, <2>3 DEF RestoreBegin
  <2>4. ASSUME NEW ok \in BOOLEAN, RestoreEnd(c, ok) PROVE StreamInv'
    BY <1>0, <1>00, <2>4 DEF RestoreEnd
  <2>5. CASE RestorePanicked(c)
    BY <1>0, <1>00, <2>5 DEF RestorePanicked
  <2>6. CASE AttachFirst(c)
    BY <1>0, <1>00, <2>6 DEF AttachFirst
  <2>7. CASE AttachNewBuffer(c)
    BY <1>0, <1>00, <2>7 DEF AttachNewBuffer
  <2>8. CASE StreamOpen(c)
    BY <1>0, <1>00, <2>8 DEF StreamOpen, LifeInv
  <2>9. CASE StreamFails(c)
    BY <1>0, <1>00, <2>9 DEF StreamFails
  <2>10. ASSUME NEW res \in {"exit", "error"}, StreamReturns(c, res) PROVE StreamInv'
    BY <1>0, <1>00, <2>10 DEF StreamReturns
  <2>11. CASE AttachStopSaver(c)
    BY <1>0, <1>00, <2>11 DEF AttachStopSaver
  <2>12. CASE AttachClose(c)
    BY <1>0, <1>00, <2>12 DEF AttachClose
  <2>13. CASE AttachSignal(c)
    BY <1>0, <1>00, <2>13 DEF AttachSignal
  <2> QED
    BY <1>2, <2>1, <2>2, <2>3, <2>4, <2>5, <2>6, <2>7, <2>8, <2>9, <2>10, <2>11, <2>12, <2>13
    DEF AttachStep
<1>3. ASSUME NEW c \in Conns, ProcessExits(c) PROVE StreamInv'
  BY <1>0, <1>00, <1>3 DEF ProcessExits
<1>4. ASSUME NEW c \in Conns, InputStep(c) PROVE StreamInv'
  <2>1. /\ UNCHANGED <<attach, process, outcome, hasBuffer, produced>>
        /\ \A d \in Conns : saver[d] # "none" => saver'[d] # "none"
    BY <1>0, <1>4 DEF InputStep, Type, SaverTick, SaverStop, InputWritten, InputFails,
         TakeInput, TakeTick, Receives
  <2> QED BY <1>0, <1>00, <2>1
<1>5. ASSUME NEW w \in Writers, WriterStep(w) PROVE StreamInv'
  <2>1. CASE PtyStore(w)
    <3>1. /\ process[w[1]] = "running" /\ UNCHANGED <<attach, saver, process, outcome, hasBuffer>>
          /\ produced' = [produced EXCEPT ![w] = produced[w] + 1]
      BY <2>1 DEF PtyStore
    <3>2. \A v \in Writers : produced'[v] > 0 => produced[v] > 0 \/ v = w
      BY <1>0, <3>1
    <3> QED BY <1>0, <1>00, <3>1, <3>2
  <2>2. CASE ~PtyStore(w)
    <3>1. UNCHANGED streamVars
      BY <1>5, <2>2 DEF WriterStep, PtySend, PtySendBegin, PtySendEnd, PtySent, streamVars
    <3> QED BY <1>1, <3>1
  <2> QED BY <2>1, <2>2
<1>6. ASSUME NEW c \in Conns, ConnStep(c) PROVE UNCHANGED streamVars
  BY <1>6 DEF ConnStep, streamVars
<1>7. CASE SizeStep \/ WatcherRemove \/ WatcherPublish \/ UNCHANGED vars
  <2>1. UNCHANGED streamVars
    BY <1>7 DEF SizeStep, ResizeLookup, ResizeSend, SizeTaken, WatcherRemove, WatcherPublish, vars, streamVars
  <2> QED BY <1>1, <2>1
<1> QED BY <1>1, <1>2, <1>3, <1>4, <1>5, <1>6, <1>7 DEF Next

LEMMA StreamInvCorrect == Spec => []StreamInv
<1>1. Init => StreamInv
  <2> SUFFICES ASSUME Init PROVE StreamInv
    OBVIOUS
  <2>1. \A c \in Conns : attach[c] = "idle" /\ process[c] = "none" /\ outcome[c] = "none"
    BY DEF Init
  <2>2. ~hasBuffer /\ \A w \in Writers : produced[w] = 0
    BY DEF Init
  <2> QED BY <2>1, <2>2 DEF StreamInv, Started, AfterStream
<1> QED BY <1>1, StreamInvNext, TypesCorrect, LifeInvCorrect, PTL DEF Spec

\* When at most one request opened a stream, all that are at one are the same.
OneStreamer == \A c, d \in Conns : saver[c] # "none" /\ saver[d] # "none" => c = d

LEMMA SingleIsOne == SingleStream => OneStreamer
<1> SUFFICES ASSUME SingleStream, NEW c \in Streamers, NEW d \in Streamers, c # d PROVE FALSE
  BY DEF OneStreamer, Streamers
<1>1. IsFiniteSet(Streamers)
  BY SessionAssumption, FS_Subset DEF Streamers
<1>2. Cardinality({c, d}) <= Cardinality(Streamers) /\ Cardinality(Streamers) \in Nat
  BY <1>1, FS_Subset, FS_CardinalityType
<1>3. Cardinality({c, d}) = 2
  <2>1. IsFiniteSet({c}) /\ Cardinality({c}) = 1
    BY FS_Singleton
  <2>2. Cardinality({c} \cup {d}) = Cardinality({c}) + 1
    BY <2>1, FS_AddElement
  <2>3. {c} \cup {d} = {c, d}
    OBVIOUS
  <2> QED BY <2>1, <2>2, <2>3
<1> QED BY <1>2, <1>3 DEF SingleStream

-----------------------------------------------------------------------------
(***************************************************************************)
(* The notification.                                                       *)
(***************************************************************************)
EndInv ==
    /\ watcher # "waiting" =>
          \E c \in Conns : attach[c] = "returned" /\ outcome[c] = signal /\ signal # "none"
    /\ event # "none" => event = signal /\ watcher = "done"

LEMMA EndInvNext == Types /\ LifeInv /\ EndInv /\ [Next]_vars => EndInv'
<1> SUFFICES ASSUME Types, LifeInv, EndInv, [Next]_vars PROVE EndInv'
  OBVIOUS
<1>0. /\ attach \in [Conns -> AttachState] /\ outcome \in [Conns -> {"none", "exit", "error"}]
  BY DEF Types, EndTypes
<1>1. CASE UNCHANGED lifeVars
  BY <1>1 DEF lifeVars, EndInv
<1>2. ASSUME NEW c \in Conns, AttachStep(c) PROVE EndInv'
  <2>1. CASE AttachSignal(c)
    <3>1. /\ watcher' = "removing" /\ signal' = outcome[c] /\ attach'[c] = "returned"
          /\ attach[c] = "signalling" /\ watcher = "waiting" /\ UNCHANGED <<event, outcome>>
      BY <1>0, <2>1 DEF AttachSignal, Goto, procVars
    <3>2. outcome[c] \in {"exit", "error"}
      BY <3>1 DEF LifeInv, AfterStream, Results
    <3> QED BY <3>1, <3>2 DEF EndInv
  <2>2. CASE ~AttachSignal(c)
    <3>1. /\ UNCHANGED <<watcher, signal, event>>
          /\ \A d \in Conns : attach[d] = "returned" => attach'[d] = "returned" /\ outcome'[d] = outcome[d]
      <4> USE DEF endVars, procVars, Goto
      <4>1. CASE AttachUpgrade(c) \/ AttachLookup(c) \/ AttachRegister(c) \/ AttachSnapshot(c) \/ RestoreBegin(c)
        BY <1>0, <4>1 DEF AttachUpgrade, AttachLookup, AttachRegister, AttachSnapshot, RestoreBegin
      <4>2. ASSUME NEW ok \in BOOLEAN, RestoreEnd(c, ok)
            PROVE  /\ UNCHANGED <<watcher, signal, event>>
                   /\ \A d \in Conns : attach[d] = "returned" => attach'[d] = "returned" /\ outcome'[d] = outcome[d]
        BY <1>0, <4>2 DEF RestoreEnd
      <4>3. CASE RestorePanicked(c) \/ AttachFirst(c) \/ AttachNewBuffer(c) \/ StreamOpen(c)
        BY <1>0, <4>3 DEF RestorePanicked, AttachFirst, AttachNewBuffer, StreamOpen
      <4>4. CASE StreamFails(c)
        BY <1>0, <4>4 DEF StreamFails
      <4>5. ASSUME NEW res \in {"exit", "error"}, StreamReturns(c, res)
            PROVE  /\ UNCHANGED <<watcher, signal, event>>
                   /\ \A d \in Conns : attach[d] = "returned" => attach'[d] = "returned" /\ outcome'[d] = outcome[d]
        BY <1>0, <4>5 DEF StreamReturns
      <4>6. CASE AttachStopSaver(c) \/ AttachClose(c)
        BY <1>0, <4>6 DEF AttachStopSaver, AttachClose
      <4> QED BY <1>2, <2>2, <4>1, <4>2, <4>3, <4>4, <4>5, <4>6 DEF AttachStep
    <3> QED BY <3>1 DEF EndInv
  <2> QED BY <2>1, <2>2
<1>3. CASE WatcherRemove \/ WatcherPublish
  BY <1>3 DEF WatcherRemove, WatcherPublish, EndInv, procVars
<1> QED BY <1>1, <1>2, <1>3, OtherSteps

\* A notification comes after the removal of the exec and says what one of its
\* streams ended with; if there was but one, its process has gone.
THEOREM NotificationIsTruthful == Spec => []NotificationTruthful
<1>1. Init => EndInv
  BY DEF Init, EndInv
<1>2. Spec => []EndInv
  BY <1>1, EndInvNext, TypesCorrect, LifeInvCorrect, PTL DEF Spec
<1>3. LifeInv /\ StreamInv /\ Types /\ EndInv => NotificationTruthful
  <2> SUFFICES ASSUME LifeInv, StreamInv, Types, EndInv, event # "none" PROVE NotificationTruthful
    BY DEF NotificationTruthful
  <2>1. ~registered /\ watcher = "done"
    BY DEF EndInv, LifeInv
  <2>2. PICK c \in Conns : attach[c] = "returned" /\ outcome[c] = event /\ event # "none"
    BY <2>1 DEF EndInv
  <2>3. ASSUME SingleStream, NEW d \in Conns PROVE process[d] # "running"
    BY <2>2, <2>3, SingleIsOne DEF OneStreamer, StreamInv
  <2> QED BY <2>1, <2>2, <2>3 DEF NotificationTruthful
<1> QED BY <1>2, <1>3, LifeInvCorrect, StreamInvCorrect, TypesCorrect, PTL

-----------------------------------------------------------------------------
(***************************************************************************)
(* What a step of the handler does to the writes in progress.              *)
(***************************************************************************)
LEMMA BeginWriteGrows ==
  ASSUME HandlerInv, NEW d \in Conns, NEW t, H!BeginWrite(d, t)
  PROVE  /\ garbled \subseteq garbled'
         /\ \A c \in Conns : c \notin garbled' => inflight[c] \subseteq inflight'[c]
         /\ d \notin garbled' => t \in inflight'[d]
BY DEF HandlerInv, H!TypeOK, H!BeginWrite

LEMMA EndWriteShrinks ==
  ASSUME HandlerInv, NEW d \in Conns, NEW t, NEW ok, H!EndWrite(d, t, ok)
  PROVE  /\ \A c \in Conns : inflight[c] \ {t} \subseteq inflight'[c]
         /\ \A c \in Conns : c # d => inflight'[c] = inflight[c]
         /\ ~ok => sock[d] # "open"
BY DEF HandlerInv, H!TypeOK, H!EndWrite

\* A request that replays is writing, unless it panicked on a connection that was
\* written to by two.
RestoringInv == \A c \in Conns : attach[c] = "restoring" => H!Attacher(c) \in inflight[c] \/ c \in garbled

LEMMA RestoringInvNext == Types /\ HandlerInv /\ RestoringInv /\ [Next]_vars => RestoringInv'
<1> SUFFICES ASSUME Types, HandlerInv, RestoringInv, [Next]_vars PROVE RestoringInv'
  OBVIOUS
<1>0. attach \in [Conns -> AttachState]
  BY DEF Types, EndTypes
<1>00. \A c \in Conns : /\ H!Attacher(c) \notin Writers
                        /\ \A d \in Conns : H!Attacher(c) # H!Pinger(d)
                        /\ \A d \in Conns : d # c => H!Attacher(c) # H!Attacher(d)
  BY WritersApart DEF H!Attacher, H!Pinger
<1>1. CASE UNCHANGED <<attach, inflight, garbled>>
  BY <1>1 DEF RestoringInv
<1>2. CASE UNCHANGED attach /\ \E d \in Conns : \E t : H!BeginWrite(d, t)
  BY <1>2, BeginWriteGrows DEF RestoringInv
<1>3. CASE UNCHANGED attach /\ UNCHANGED garbled
           /\ \E d \in Conns, t \in Writers \cup {H!Pinger(e) : e \in Conns}, ok \in BOOLEAN : H!EndWrite(d, t, ok)
  BY <1>00, <1>3, EndWriteShrinks DEF RestoringInv
<1>4. ASSUME NEW c \in Conns, AttachStep(c) PROVE RestoringInv'
  <2> USE DEF Goto
  <2>1. CASE RestoreBegin(c)
    <3>1. /\ attach' = [attach EXCEPT ![c] = "restoring"] /\ H!BeginWrite(c, H!Attacher(c))
      BY <2>1 DEF RestoreBegin, H!AttachWriteBegin
    <3> QED BY <1>0, <3>1, BeginWriteGrows DEF RestoringInv
  <2>2. ASSUME NEW ok \in BOOLEAN, RestoreEnd(c, ok) PROVE RestoringInv'
    <3>1. attach' = [attach EXCEPT ![c] = "returned"] /\ H!EndWrite(c, H!Attacher(c), ok) /\ UNCHANGED garbled
      BY <2>2 DEF RestoreEnd, H!AttachWriteEnd
    <3> QED BY <1>0, <3>1, EndWriteShrinks DEF RestoringInv
  <2>3. CASE ~RestoreBegin(c) /\ ~\E ok \in BOOLEAN : RestoreEnd(c, ok)
    <3>1. /\ UNCHANGED <<inflight, garbled>>
          /\ \E to \in AttachState \ {"restoring"} : attach' = [attach EXCEPT ![c] = to] \/ UNCHANGED attach
      <4> USE DEF AttachState, handlerVars
      <4>1. CASE AttachUpgrade(c) \/ AttachLookup(c) \/ AttachRegister(c) \/ AttachClose(c)
        BY <4>1 DEF AttachUpgrade, AttachLookup, AttachRegister, AttachClose, H!Open, H!ReadConnection, H!CloseConnections
      <4>2. CASE AttachSnapshot(c) \/ RestorePanicked(c) \/ AttachFirst(c) \/ AttachNewBuffer(c)
        BY <4>2 DEF AttachSnapshot, RestorePanicked, AttachFirst, AttachNewBuffer
      <4>3. CASE StreamOpen(c)
        BY <4>3 DEF StreamOpen
      <4>4. CASE StreamFails(c) \/ (\E res \in {"exit", "error"} : StreamReturns(c, res))
        BY <4>4 DEF StreamFails, StreamReturns
      <4>5. CASE AttachStopSaver(c) \/ AttachSignal(c)
        BY <4>5 DEF AttachStopSaver, AttachSignal
      <4> QED BY <1>4, <2>3, <4>1, <4>2, <4>3, <4>4, <4>5 DEF AttachStep
    <3> QED BY <1>0, <3>1 DEF RestoringInv
  <2> QED BY <2>1, <2>2, <2>3
<1>5. ASSUME NEW c \in Conns, ConnStep(c) PROVE RestoringInv'
  <2>1. CASE H!ClientLeaves(c) \/ H!ReadError(c) \/ H!ReadDeadline(c) \/ H!RemoveConnection(c)
    BY <1>1, <1>5, <2>1 DEF ConnStep, H!ClientLeaves, H!ReadError, H!ReadDeadline, H!RemoveConnection
  <2>2. CASE H!PingBegin(c)
    BY <1>2, <1>5, <2>2 DEF ConnStep, H!PingBegin
  <2>3. ASSUME NEW ok \in BOOLEAN, H!PingEnd(c, ok) PROVE RestoringInv'
    BY <1>3, <1>5, <2>3 DEF ConnStep, H!PingEnd
  <2> QED BY <1>5, <2>1, <2>2, <2>3 DEF ConnStep
<1>6. ASSUME NEW w \in Writers, WriterStep(w) PROVE RestoringInv'
  <2>1. CASE PtyStore(w) \/ PtySend(w) \/ PtySent(w)
    BY <1>1, <2>1 DEF PtyStore, PtySend, PtySent, handlerVars, H!WriteDataToWsConnections, H!BroadcastDone
  <2>2. ASSUME NEW c \in Conns, PtySendBegin(w, c) PROVE RestoringInv'
    BY <1>2, <2>2 DEF PtySendBegin, H!BroadcastBegin
  <2>3. ASSUME NEW c \in Conns, NEW ok \in BOOLEAN, PtySendEnd(w, c, ok) PROVE RestoringInv'
    BY <1>3, <2>3 DEF PtySendEnd, H!BroadcastEnd
  <2> QED BY <1>6, <2>1, <2>2, <2>3 DEF WriterStep
<1>7. ASSUME NEW c \in Conns, InputStep(c) \/ ProcessExits(c) PROVE RestoringInv'
  <2>1. UNCHANGED <<attach, inflight, garbled>>
    BY <1>7 DEF InputStep, Type, SaverTick, SaverStop, InputWritten, InputFails,
         TakeInput, TakeTick, Receives, ProcessExits,
                H!ReadText, H!InputTaken, handlerVars
  <2> QED BY <1>1, <2>1
<1>8. CASE SizeStep \/ WatcherRemove \/ WatcherPublish \/ UNCHANGED vars
  <2>1. UNCHANGED <<attach, inflight, garbled>>
    BY <1>8 DEF SizeStep, ResizeLookup, ResizeSend, SizeTaken, WatcherRemove, WatcherPublish, vars, handlerVars
  <2> QED BY <1>1, <2>1
<1> QED BY <1>4, <1>5, <1>6, <1>7, <1>8 DEF Next

LEMMA RestoringInvCorrect == Spec => []RestoringInv
<1>1. Init => RestoringInv
  BY DEF Init, RestoringInv
<1> QED BY <1>1, RestoringInvNext, TypesCorrect, PTL DEF Spec

-----------------------------------------------------------------------------
(***************************************************************************)
(* Output.  With one stream, the buffer holds everything emitted; and a    *)
(* client whose connection is up has been sent, holds in its copy for the  *)
(* replay, or is about to be sent everything emitted.                      *)
(***************************************************************************)
Up(c) == c \in wsConns /\ sock[c] = "open" /\ c \notin garbled

Replayed == {"restore", "restoring"}

ServedInv(c) ==
    /\ attach[c] \in Replayed => Emitted \subseteq seen[c] \cup snapshot[c] \cup Unsent(c)
    /\ attach[c] \in Started => Emitted \subseteq seen[c] \cup Unsent(c)

OutInv == OneStreamer => Emitted \subseteq buffer /\ \A c \in Conns : Up(c) => ServedInv(c)

SaversStay == \A c \in Conns : saver[c] # "none" => saver'[c] # "none"

\* A step after which every client that is up was up before, at the same point, and
\* nothing was taken from what it has been or will be sent.
LEMMA KeepsOut ==
  ASSUME OutInv, SaversStay, UNCHANGED produced, buffer \subseteq buffer',
         \A c \in Conns : Up(c)' /\ attach'[c] \in Replayed \cup Started =>
            /\ Up(c) /\ seen[c] \cup Unsent(c) \subseteq seen'[c] \cup Unsent(c)'
            /\ attach'[c] \in Started => attach[c] \in Started
            /\ attach'[c] \in Replayed => attach[c] \in Replayed /\ snapshot'[c] = snapshot[c]
  PROVE  OutInv'
<1> SUFFICES ASSUME OneStreamer' PROVE Emitted' \subseteq buffer' /\ \A c \in Conns : Up(c)' => ServedInv(c)'
  BY DEF OutInv
<1>1. OneStreamer
  BY DEF OneStreamer, SaversStay
<1>2. Emitted' = Emitted
  BY DEF Emitted
<1>3. Emitted' \subseteq buffer'
  BY <1>1, <1>2 DEF OutInv
<1>4. ASSUME NEW c \in Conns, Up(c)' PROVE ServedInv(c)'
  <2>1. CASE attach'[c] \in Replayed
    <3>1. Emitted \subseteq seen[c] \cup snapshot[c] \cup Unsent(c)
      BY <1>1, <1>4, <2>1 DEF OutInv, ServedInv
    <3>2. Emitted' \subseteq seen'[c] \cup snapshot'[c] \cup Unsent(c)'
      BY <1>2, <1>4, <2>1, <3>1
    <3> QED BY <2>1, <3>2 DEF ServedInv, Replayed, Started, AfterStream
  <2>2. CASE attach'[c] \in Started
    <3>1. Emitted \subseteq seen[c] \cup Unsent(c)
      BY <1>1, <1>4, <2>2 DEF OutInv, ServedInv
    <3>2. Emitted' \subseteq seen'[c] \cup Unsent(c)'
      BY <1>2, <1>4, <2>2, <3>1
    <3> QED BY <2>2, <3>2 DEF ServedInv, Replayed, Started, AfterStream
  <2> QED BY <2>1, <2>2 DEF ServedInv
<1> QED BY <1>3, <1>4

\* What is left to be sent to a client stays when no write to it ends.
LEMMA UnsentStays ==
  ASSUME Types, NEW c \in Conns, UNCHANGED <<produced, busy, lock, todo>>,
         \A v \in Writers : v \in inflight[c] => v \in inflight'[c]
  PROVE  Unsent(c) \subseteq Unsent(c)'
BY DEF Types, OutTypes, Unsent, ChunkOf

\* A step that leaves output alone, and Attach calls where they were or past the
\* replay; connections go down, and writes begin or end that are not of output.
LEMMA AsideKeepsOut ==
  ASSUME Types, OutInv, SaversStay,
         UNCHANGED <<produced, buffer, busy, lock, todo, seen>>,
         \A c \in Conns : Up(c)' /\ attach'[c] \in Replayed \cup Started =>
            /\ Up(c) /\ \A v \in Writers : v \in inflight[c] => v \in inflight'[c]
            /\ attach'[c] \in Started => attach[c] \in Started
            /\ attach'[c] \in Replayed => attach[c] \in Replayed /\ snapshot'[c] = snapshot[c]
  PROVE  OutInv'
BY KeepsOut, UnsentStays

\* Steps of Attach calls that do not touch output, but for their own copy of it.
LEMMA AttachAsideKeepsOut ==
  ASSUME Types, HandlerInv, RestoringInv, OutInv, NEW c \in Conns,
         \/ AttachUpgrade(c) \/ AttachLookup(c) \/ AttachRegister(c) \/ RestoreBegin(c)
         \/ RestorePanicked(c) \/ AttachFirst(c)
         \/ StreamOpen(c) \/ StreamFails(c) \/ (\E res \in {"exit", "error"} : StreamReturns(c, res))
         \/ AttachStopSaver(c) \/ AttachClose(c) \/ AttachSignal(c)
  PROVE  OutInv'
<1>0. /\ attach \in [Conns -> AttachState] /\ sock \in [Conns -> H!SockState]
      /\ saver \in [Conns -> {"none", "waiting", "sending", "done"}]
  BY DEF Types, EndTypes, InTypes, HandlerInv, H!TypeOK
<1> USE DEF Goto, outVars, inVars, Replayed, Started, AfterStream, SaversStay, Up
<1>1. CASE AttachUpgrade(c)
  BY <1>0, <1>1, AsideKeepsOut DEF AttachUpgrade, H!Open
<1>2. CASE AttachLookup(c)
  BY <1>0, <1>2, AsideKeepsOut DEF AttachLookup, handlerVars
<1>3. CASE AttachRegister(c)
  BY <1>0, <1>3, AsideKeepsOut DEF AttachRegister, H!ReadConnection
<1>4. CASE RestoreBegin(c)
  <2>1. /\ H!BeginWrite(c, H!Attacher(c)) /\ attach[c] = "restore"
        /\ attach' = [attach EXCEPT ![c] = "restoring"]
        /\ UNCHANGED <<produced, buffer, busy, lock, todo, seen, snapshot, saver, wsConns, sock>>
    BY <1>4 DEF RestoreBegin, H!AttachWriteBegin
  <2> QED BY <1>0, <2>1, BeginWriteGrows, AsideKeepsOut
<1>5. CASE RestorePanicked(c)
  <2>1. c \in garbled
    BY <1>5 DEF RestorePanicked, RestoringInv
  <2> QED BY <1>0, <1>5, <2>1, AsideKeepsOut DEF RestorePanicked, handlerVars
<1>6. CASE AttachFirst(c)
  BY <1>0, <1>6, AsideKeepsOut DEF AttachFirst, handlerVars
<1>7. CASE StreamOpen(c)
  BY <1>0, <1>7, AsideKeepsOut DEF StreamOpen, handlerVars
<1>8. CASE StreamFails(c) \/ (\E res \in {"exit", "error"} : StreamReturns(c, res))
  BY <1>0, <1>8, AsideKeepsOut DEF StreamFails, StreamReturns, handlerVars
<1>9. CASE AttachStopSaver(c)
  BY <1>0, <1>9, AsideKeepsOut DEF AttachStopSaver, handlerVars
<1>10. CASE AttachClose(c)
  BY <1>0, <1>10, AsideKeepsOut DEF AttachClose, H!CloseConnections
<1>11. CASE AttachSignal(c)
  BY <1>0, <1>11, AsideKeepsOut DEF AttachSignal, handlerVars
<1> QED BY <1>1, <1>2, <1>3, <1>4, <1>5, <1>6, <1>7, <1>8, <1>9, <1>10, <1>11

\* The buffer is created when nothing has been emitted, the copy for a replay is
\* taken from a buffer that holds everything, and the replay sends the copy.
LEMMA ReplayKeepsOut ==
  ASSUME Types, HandlerInv, LifeInv, StreamInv, OutInv, NEW c \in Conns,
         AttachNewBuffer(c) \/ AttachSnapshot(c) \/ (\E ok \in BOOLEAN : RestoreEnd(c, ok))
  PROVE  OutInv'
<1>0. /\ attach \in [Conns -> AttachState]
      /\ snapshot \in [Conns -> SUBSET Chunks] /\ seen \in [Conns -> SUBSET Chunks]
  BY DEF Types, EndTypes, OutTypes
<1> USE DEF Goto, inVars
<1>1. CASE AttachNewBuffer(c)
  <2> SUFFICES ASSUME OneStreamer' PROVE Emitted' = {}
    BY DEF OutInv, ServedInv
  <2>1. OneStreamer /\ attach[c] = "first" /\ UNCHANGED produced
    BY <1>1 DEF AttachNewBuffer, OneStreamer
  <2>2. ~hasBuffer
    BY <2>1 DEF OneStreamer, StreamInv, Started, AfterStream
  <2>3. \A w \in Writers : w[1] \in Conns /\ produced[w] \in Nat /\ ~(produced[w] > 0)
    BY <2>2, SessionAssumption DEF StreamInv, Types, OutTypes, Writers
  <2>4. \A k \in Chunks : k[1] \in Writers /\ k[2] \in Nat /\ k[2] > 0
    BY SessionAssumption DEF Chunks
  <2> QED BY <2>1, <2>3, <2>4 DEF Emitted
<1>2. CASE AttachSnapshot(c)
  <2> SUFFICES ASSUME OneStreamer' PROVE Emitted' \subseteq buffer' /\ \A d \in Conns : Up(d)' => ServedInv(d)'
    BY DEF OutInv
  <2>1. /\ OneStreamer /\ snapshot'[c] = buffer /\ attach'[c] = "restore"
        /\ \A d \in Conns : d # c => attach'[d] = attach[d] /\ snapshot'[d] = snapshot[d]
        /\ UNCHANGED <<produced, buffer, busy, seen, lock, todo, inflight, wsConns, sock, garbled>>
    BY <1>0, <1>2 DEF AttachSnapshot, OneStreamer, handlerVars
  <2>2. Emitted' = Emitted /\ \A d \in Conns : Unsent(d)' = Unsent(d) /\ Up(d)' = Up(d)
    BY <2>1 DEF Emitted, Unsent, ChunkOf, Up
  <2> QED BY <2>1, <2>2 DEF OutInv, ServedInv, Replayed, Started, AfterStream
<1>3. ASSUME NEW ok \in BOOLEAN, RestoreEnd(c, ok) PROVE OutInv'
  <2> SUFFICES ASSUME OneStreamer' PROVE Emitted' \subseteq buffer' /\ \A d \in Conns : Up(d)' => ServedInv(d)'
    BY DEF OutInv
  <2>1. /\ OneStreamer /\ attach[c] = "restoring" /\ attach'[c] = "returned"
        /\ \A d \in Conns : d # c => attach'[d] = attach[d] /\ snapshot'[d] = snapshot[d] /\ seen'[d] = seen[d]
        /\ ok => seen'[c] = seen[c] \cup snapshot[c]
        /\ H!EndWrite(c, H!Attacher(c), ok)
        /\ UNCHANGED <<produced, buffer, busy, lock, todo, wsConns, sock, garbled>>
    BY <1>0, <1>3 DEF RestoreEnd, OneStreamer, H!AttachWriteEnd
  <2>2. Emitted' = Emitted /\ \A d \in Conns : Up(d)' = Up(d)
    BY <2>1 DEF Emitted, Up
  <2>3. \A d \in Conns : Unsent(d) \subseteq Unsent(d)'
    BY <2>1, EndWriteShrinks, UnsentStays, WritersApart
  <2>4. Up(c) => ok
    BY <2>1, EndWriteShrinks DEF Up
  <2> QED BY <2>1, <2>2, <2>3, <2>4 DEF OutInv, ServedInv, Replayed, Started, AfterStream
<1> QED BY <1>1, <1>2, <1>3

\* The output goroutines: a chunk is in the buffer, and to be sent to everybody, as
\* soon as it is emitted; a broadcast reaches every connection that stays up.
LEMMA WriterKeepsOut ==
  ASSUME Types, HandlerInv, OutInv, NEW w \in Writers, WriterStep(w)
  PROVE  OutInv'
<1>0. /\ seen \in [Conns -> SUBSET Chunks] /\ produced \in [Writers -> 0..MaxOut] /\ busy \subseteq Writers
      /\ lock # NoWriter => lock \in busy
      /\ w # NoWriter
  BY WritersApart DEF Types, OutTypes, WritersInv
<1>00. SaversStay /\ UNCHANGED <<attach, snapshot>>
  BY DEF SaversStay, WriterStep, PtyStore, PtySend, PtySendBegin, PtySendEnd, PtySent, outVars, inVars
<1>1. CASE PtyStore(w)
  <2> SUFFICES ASSUME OneStreamer' PROVE Emitted' \subseteq buffer' /\ \A d \in Conns : Up(d)' => ServedInv(d)'
    BY DEF OutInv
  <2>1. /\ OneStreamer /\ w \notin busy
        /\ produced' = [produced EXCEPT ![w] = produced[w] + 1]
        /\ busy' = busy \cup {w} /\ buffer' = buffer \cup {<<w, produced[w] + 1>>}
        /\ UNCHANGED <<seen, lock, todo, inflight, wsConns, sock, garbled>>
    BY <1>00, <1>1 DEF PtyStore, OneStreamer, SaversStay, handlerVars
  <2>2. lock # w
    BY <1>0, <2>1
  <2>3. produced'[w] = produced[w] + 1 /\ \A v \in Writers : v # w => produced'[v] = produced[v]
    BY <1>0, <2>1
  <2>4. Emitted' \subseteq Emitted \cup {<<w, produced[w] + 1>>}
    <3> SUFFICES ASSUME NEW k \in Chunks, k[2] <= produced'[k[1]], k # <<w, produced[w] + 1>>
                 PROVE  k[2] <= produced[k[1]]
      BY DEF Emitted
    <3>1. k[1] \in Writers /\ k[2] \in Nat /\ k = <<k[1], k[2]>>
      BY SessionAssumption DEF Chunks
    <3>2. CASE k[1] = w
      BY <1>0, <2>3, <3>1, <3>2, SessionAssumption
    <3>3. CASE k[1] # w
      BY <2>3, <3>1, <3>3
    <3> QED BY <3>2, <3>3
  <2>5. \A d \in Conns : <<w, produced[w] + 1>> \in Unsent(d)' /\ Unsent(d) \subseteq Unsent(d)'
    <3> TAKE d \in Conns
    <3>1. <<w, produced[w] + 1>> \in Unsent(d)'
      BY <2>1, <2>2, <2>3 DEF Unsent, ChunkOf
    <3>2. Unsent(d) \subseteq Unsent(d)'
      BY <1>0, <2>1, <2>2, <2>3 DEF Unsent, ChunkOf
    <3> QED BY <3>1, <3>2
  <2>6. \A d \in Conns : Up(d)' = Up(d)
    BY <2>1 DEF Up
  <2> QED BY <1>00, <2>1, <2>4, <2>5, <2>6 DEF OutInv, ServedInv
<1>2. CASE PtySend(w)
  <2>1. /\ lock = NoWriter /\ lock' = w /\ todo' = wsConns
        /\ UNCHANGED <<produced, buffer, busy, seen, inflight, wsConns, sock, garbled>>
    BY <1>2 DEF PtySend, H!WriteDataToWsConnections, outVars
  <2>2. \A d \in Conns : Up(d)' => Up(d) /\ Unsent(d) \subseteq Unsent(d)'
    BY <1>0, <2>1 DEF Up, Unsent, ChunkOf
  <2> QED BY <1>00, <2>1, <2>2, KeepsOut
<1>3. ASSUME NEW c \in Conns, PtySendBegin(w, c) PROVE OutInv'
  <2>1. /\ lock = w /\ todo' = todo \ {c} /\ H!BeginWrite(c, w)
        /\ UNCHANGED <<produced, buffer, busy, seen, lock, wsConns, sock>>
    BY <1>3 DEF PtySendBegin, H!BroadcastBegin, H!BetweenWrites, outVars
  <2>2. /\ garbled \subseteq garbled' /\ (c \notin garbled' => w \in inflight'[c])
        /\ \A d \in Conns : d \notin garbled' => inflight[d] \subseteq inflight'[d]
    BY <2>1, BeginWriteGrows
  <2>3. ASSUME NEW d \in Conns, Up(d)' PROVE Up(d) /\ Unsent(d) \subseteq Unsent(d)'
    <3>1. d \notin garbled' /\ Up(d)
      BY <2>1, <2>2, <2>3 DEF Up
    <3>2. \A v \in busy : lock # v \/ d \in todo \/ v \in inflight[d] => lock' # v \/ d \in todo' \/ v \in inflight'[d]
      BY <1>0, <2>1, <2>2, <3>1
    <3> QED BY <2>1, <3>1, <3>2 DEF Unsent, ChunkOf
  <2> QED BY <1>00, <2>1, <2>3, KeepsOut
<1>4. ASSUME NEW c \in Conns, NEW ok \in BOOLEAN, PtySendEnd(w, c, ok) PROVE OutInv'
  <2>1. /\ H!EndWrite(c, w, ok)
        /\ seen' = IF ok THEN [seen EXCEPT ![c] = @ \cup {<<w, produced[w]>>}] ELSE seen
        /\ UNCHANGED <<produced, buffer, busy, lock, todo, wsConns, sock, garbled>>
    BY <1>4 DEF PtySendEnd, H!BroadcastEnd, ChunkOf
  <2>2. ASSUME NEW d \in Conns, Up(d)'
        PROVE  Up(d) /\ seen[d] \cup Unsent(d) \subseteq seen'[d] \cup Unsent(d)'
    <3>1. Up(d) /\ (d = c => ok)
      BY <2>1, <2>2, EndWriteShrinks DEF Up
    <3>2. seen[d] \subseteq seen'[d] /\ (d = c => <<w, produced[w]>> \in seen'[d])
      BY <1>0, <2>1, <3>1
    <3>3. \A v \in busy : v \in inflight[d] => v \in inflight'[d] \/ (v = w /\ d = c)
      BY <2>1, EndWriteShrinks
    <3>4. Unsent(d) \subseteq seen'[d] \cup Unsent(d)'
      BY <2>1, <3>2, <3>3 DEF Unsent, ChunkOf
    <3> QED BY <3>1, <3>2, <3>4
  <2> QED BY <1>00, <2>1, <2>2, KeepsOut
<1>5. CASE PtySent(w)
  <2>1. /\ lock = w /\ todo = {} /\ \A d \in Conns : w \notin inflight[d]
        /\ wsConns' = working /\ lock' = NoWriter /\ busy' = busy \ {w}
        /\ UNCHANGED <<produced, buffer, seen, todo, inflight, sock, garbled>>
    BY <1>5 DEF PtySent, H!BroadcastDone, H!BetweenWrites
  <2>2. working \subseteq wsConns
    BY <1>0, <2>1 DEF HandlerInv, H!BroadcastInv
  <2>3. ASSUME NEW d \in Conns, Up(d)' PROVE Up(d) /\ Unsent(d) \subseteq Unsent(d)'
    <3>1. Up(d)
      BY <2>1, <2>2, <2>3 DEF Up
    <3>2. \A v \in busy : lock # v \/ d \in todo \/ v \in inflight[d] => v \in busy' /\ lock' # v
      BY <1>0, <2>1, WritersApart
    <3> QED BY <2>1, <3>1, <3>2 DEF Unsent, ChunkOf
  <2> QED BY <1>00, <2>1, <2>3, KeepsOut
<1> QED BY <1>1, <1>2, <1>3, <1>4, <1>5 DEF WriterStep

LEMMA OutInvNext ==
  Types /\ HandlerInv /\ LifeInv /\ StreamInv /\ RestoringInv /\ OutInv /\ [Next]_vars => OutInv'
<1> SUFFICES ASSUME Types, HandlerInv, LifeInv, StreamInv, RestoringInv, OutInv, [Next]_vars PROVE OutInv'
  OBVIOUS
<1>0. saver \in [Conns -> {"none", "waiting", "sending", "done"}]
  BY DEF Types, InTypes
<1>1. ASSUME NEW c \in Conns, AttachStep(c) PROVE OutInv'
  BY <1>1, AttachAsideKeepsOut, ReplayKeepsOut DEF AttachStep
<1>2. ASSUME NEW w \in Writers, WriterStep(w) PROVE OutInv'
  BY <1>2, WriterKeepsOut
<1>3. CASE /\ SaversStay
           /\ UNCHANGED <<attach, produced, buffer, busy, lock, todo, seen, snapshot, inflight, wsConns, sock, garbled>>
  BY <1>3, AsideKeepsOut DEF Up
<1>4. ASSUME NEW c \in Conns, InputStep(c) PROVE OutInv'
  <2>1. SaversStay
    BY <1>0, <1>4 DEF SaversStay, InputStep, Type, SaverTick, SaverStop, InputWritten, InputFails,
         TakeInput, TakeTick, Receives
  <2>2. UNCHANGED <<attach, produced, buffer, busy, lock, todo, seen, snapshot, inflight, wsConns, sock, garbled>>
    BY <1>4 DEF InputStep, Type, SaverTick, SaverStop, InputWritten, InputFails,
         TakeInput, TakeTick, Receives, H!ReadText, H!InputTaken, handlerVars, outVars
  <2> QED BY <1>3, <2>1, <2>2
<1>5. ASSUME NEW c \in Conns, ConnStep(c) PROVE OutInv'
  <2>0. SaversStay /\ UNCHANGED <<attach, produced, buffer, busy, seen, snapshot>>
    BY <1>5 DEF ConnStep, SaversStay, outVars, inVars
  <2>1. CASE H!ClientLeaves(c)
    <3>1. UNCHANGED <<lock, todo, inflight>> /\ \A d \in Conns : Up(d)' => Up(d)
      BY <2>1 DEF H!ClientLeaves, Up, HandlerInv, H!TypeOK
    <3> QED BY <2>0, <3>1, AsideKeepsOut
  <2>2. CASE H!ReadError(c) \/ H!ReadDeadline(c) \/ H!RemoveConnection(c)
    <3>1. UNCHANGED <<lock, todo, inflight>> /\ \A d \in Conns : Up(d)' => Up(d)
      BY <2>2 DEF H!ReadError, H!ReadDeadline, H!RemoveConnection, Up
    <3> QED BY <2>0, <3>1, AsideKeepsOut
  <2>3. CASE H!PingBegin(c)
    <3>1. H!BeginWrite(c, H!Pinger(c)) /\ UNCHANGED <<lock, todo, wsConns, sock>>
      BY <2>3 DEF H!PingBegin
    <3>2. \A d \in Conns : Up(d)' => Up(d) /\ inflight[d] \subseteq inflight'[d]
      BY <3>1, BeginWriteGrows DEF Up
    <3> QED BY <2>0, <3>1, <3>2, AsideKeepsOut
  <2>4. ASSUME NEW ok \in BOOLEAN, H!PingEnd(c, ok) PROVE OutInv'
    <3>1. H!EndWrite(c, H!Pinger(c), ok) /\ UNCHANGED <<lock, todo, wsConns, sock, garbled>>
      BY <2>4 DEF H!PingEnd
    <3>2. \A d \in Conns : Up(d)' => Up(d) /\ \A v \in Writers : v \in inflight[d] => v \in inflight'[d]
      BY <3>1, EndWriteShrinks, WritersApart DEF Up
    <3> QED BY <2>0, <3>1, <3>2, AsideKeepsOut
  <2> QED BY <1>5, <2>1, <2>2, <2>3, <2>4 DEF ConnStep
<1>6. CASE (\E c \in Conns : ProcessExits(c)) \/ SizeStep \/ WatcherRemove \/ WatcherPublish \/ UNCHANGED vars
  <2>1. /\ SaversStay
        /\ UNCHANGED <<attach, produced, buffer, busy, lock, todo, seen, snapshot, inflight, wsConns, sock, garbled>>
    BY <1>6 DEF ProcessExits, SizeStep, ResizeLookup, ResizeSend, SizeTaken, WatcherRemove, WatcherPublish,
                vars, SaversStay, handlerVars, outVars, inVars
  <2> QED BY <1>3, <2>1
<1> QED BY <1>1, <1>2, <1>4, <1>5, <1>6 DEF Next

\* When one request opened the stream, a client that follows the session has been
\* sent, in the replay or live, or is about to be sent, all that was written.
THEOREM NoOutputIsLost == Spec => []NoOutputLost
<1>1. Init => OutInv
  <2> SUFFICES ASSUME Init PROVE Emitted = {}
    BY DEF OutInv, ServedInv
  <2>1. \A w \in Writers : produced[w] = 0
    BY DEF Init
  <2>2. \A k \in Chunks : k[1] \in Writers /\ k[2] \in Nat /\ k[2] > 0
    BY SessionAssumption DEF Chunks
  <2> QED BY <2>1, <2>2 DEF Emitted
<1>2. Spec => []OutInv
  BY <1>1, OutInvNext, TypesCorrect, LifeInvCorrect, StreamInvCorrect, RestoringInvCorrect, PTL DEF Spec
<1>3. OutInv => NoOutputLost
  BY SingleIsOne DEF OutInv, NoOutputLost, Following, Up, ServedInv, Started
<1> QED BY <1>2, <1>3, PTL
=============================================================================
