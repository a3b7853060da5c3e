------------------------- MODULE WsConnHandlerProofs -------------------------
(***************************************************************************)
(* Proofs about the websocket connection handler, for any set of           *)
(* connections and of output goroutines.                                   *)
(***************************************************************************)
EXTENDS WsConnHandler, TLAPS

\* Entering WriteMessage changes only inflight, garbled and serverUp, and keeps
\* their types.
LEMMA BeginWriteType ==
  ASSUME TypeOK, NEW c \in Conns, NEW t \in Threads, BeginWrite(c, t)
  PROVE  /\ inflight' \in [Conns -> SUBSET Threads]
         /\ garbled' \subseteq Conns
         /\ serverUp' \in BOOLEAN
<1>1. CASE inflight[c] = {} /\ inflight' = [inflight EXCEPT ![c] = {t}]
           /\ UNCHANGED <<garbled, serverUp>>
  BY <1>1 DEF TypeOK
<1>2. CASE /\ garbled' = garbled \cup {c}
           /\ inflight' = [inflight EXCEPT ![c] = @ \cup {t}]
           /\ UNCHANGED serverUp
  BY <1>2 DEF TypeOK
<1>3. ASSUME NEW h \in inflight[c] \cup {t},
             garbled' = garbled \cup {c},
             inflight' = [inflight EXCEPT ![c] = (@ \cup {t}) \ {h}],
             IF h = Attacher(c) THEN UNCHANGED serverUp ELSE serverUp' = FALSE
      PROVE  /\ inflight' \in [Conns -> SUBSET Threads]
             /\ garbled' \subseteq Conns
             /\ serverUp' \in BOOLEAN
  BY <1>3 DEF TypeOK
<1> QED BY <1>1, <1>2, <1>3 DEF BeginWrite

\* Every variable of the handler keeps its type.
THEOREM TypeCorrect == Spec => []TypeOK
<1>1. Init => TypeOK
  BY DEF Init, TypeOK, SockState, ReaderState, PingerState
<1>2. TypeOK /\ [Next]_vars => TypeOK'
  <2> SUFFICES ASSUME TypeOK, [Next]_vars PROVE TypeOK'
    OBVIOUS
  <2> USE DEF TypeOK, SockState, ReaderState, PingerState, Threads
  <2>1. ASSUME NEW w \in Writers, WriterStep(w) PROVE TypeOK'
    <3>1. CASE WriteDataToWsConnections(w)
      BY <3>1 DEF WriteDataToWsConnections
    <3>2. CASE BroadcastDone(w)
      BY <3>2 DEF BroadcastDone
    <3>3. ASSUME NEW c \in Conns, BroadcastBegin(w, c) PROVE TypeOK'
      <4>1. w \in Threads
        OBVIOUS
      <4>2. BeginWrite(c, w)
        BY <3>3 DEF BroadcastBegin
      <4> QED BY <3>3, <4>1, <4>2, BeginWriteType DEF BroadcastBegin
    <3>4. ASSUME NEW c \in Conns, NEW ok \in BOOLEAN, BroadcastEnd(w, c, ok) PROVE TypeOK'
      BY <3>4 DEF BroadcastEnd, EndWrite
    <3> QED BY <2>1, <3>1, <3>2, <3>3, <3>4 DEF WriterStep
  <2>2. ASSUME NEW c \in Conns, ConnStep(c) PROVE TypeOK'
    <3>1. CASE Open(c) \/ ClientLeaves(c)
      BY <3>1 DEF Open, ClientLeaves
    <3>2. CASE ReadConnection(c)
      BY <3>2 DEF ReadConnection
    <3>3. CASE ReadText(c) \/ InputTaken(c) \/ ReadError(c) \/ ReadDeadline(c)
      BY <3>3 DEF ReadText, InputTaken, ReadError, ReadDeadline
    <3>4. CASE RemoveConnection(c)
      BY <3>4 DEF RemoveConnection
    <3>5. CASE PingBegin(c)
      <4>1. Pinger(c) \in Threads
        OBVIOUS
      <4>2. BeginWrite(c, Pinger(c))
        BY <3>5 DEF PingBegin
      <4> QED BY <3>5, <4>1, <4>2, BeginWriteType DEF PingBegin
    <3>6. ASSUME NEW ok \in BOOLEAN, PingEnd(c, ok) PROVE TypeOK'
      BY <3>6 DEF PingEnd, EndWrite
    <3>7. CASE AttachWriteBegin(c)
      <4>1. Attacher(c) \in Threads
        OBVIOUS
      <4>2. BeginWrite(c, Attacher(c))
        BY <3>7 DEF AttachWriteBegin
      <4> QED BY <3>7, <4>1, <4>2, BeginWriteType DEF AttachWriteBegin
    <3>8. ASSUME NEW ok \in BOOLEAN, AttachWriteEnd(c, ok) PROVE TypeOK'
      BY <3>8 DEF AttachWriteEnd, EndWrite
    <3> QED BY <2>2, <3>1, <3>2, <3>3, <3>4, <3>5, <3>6, <3>7, <3>8 DEF ConnStep
  <2>3. CASE CloseConnections
    BY <2>3 DEF CloseConnections
  <2>4. CASE UNCHANGED vars
    BY <2>4 DEF vars
  <2> QED BY <2>1, <2>2, <2>3, <2>4 DEF Next
<1> QED BY <1>1, <1>2, PTL DEF Spec

-----------------------------------------------------------------------------
(***************************************************************************)
(* The inductive invariant: the two safety properties and the fact about   *)
(* the copy of the list that a broadcast is holding.                       *)
(***************************************************************************)
IInv == LiveConnRegistered /\ ForgottenStaysForgotten /\ BroadcastInv

\* Entering WriteMessage adds at most the thread that enters, and takes the
\* lock holder out only if the process dies with it.
LEMMA BeginWriteEffect ==
  ASSUME TypeOK, WriterAssumption, NEW c \in Conns, NEW t \in Threads, BeginWrite(c, t)
  PROVE  /\ \A d \in Conns : d # c => inflight'[d] = inflight[d]
         /\ inflight'[c] \subseteq inflight[c] \cup {t}
         /\ serverUp' => \A w \in Writers \cap (inflight[c] \cup {t}) : w \in inflight'[c]
BY DEF BeginWrite, TypeOK, WriterAssumption

LEMMA InvNext == WriterAssumption /\ TypeOK /\ IInv /\ [Next]_vars => IInv'
<1> SUFFICES ASSUME WriterAssumption, TypeOK, IInv, [Next]_vars PROVE IInv'
  OBVIOUS
<1> USE DEF IInv, LiveConnRegistered, ForgottenStaysForgotten, BroadcastInv
<1>1. ASSUME NEW w \in Writers, WriterStep(w), serverUp PROVE IInv'
  <2>1. CASE WriteDataToWsConnections(w)
    BY <2>1 DEF WriteDataToWsConnections, WriterAssumption, TypeOK
  <2>2. CASE BroadcastDone(w)
    BY <1>1, <2>2 DEF BroadcastDone, BetweenWrites, WriterAssumption, TypeOK
  <2>3. ASSUME NEW c \in Conns, BroadcastBegin(w, c) PROVE IInv'
    <3>1. w \in Threads
      BY DEF Threads
    <3>2. BeginWrite(c, w)
      BY <2>3 DEF BroadcastBegin
    <3> QED
      BY <1>1, <2>3, <3>1, <3>2, BeginWriteEffect DEF BroadcastBegin, BetweenWrites, WriterAssumption, TypeOK
  <2>4. ASSUME NEW c \in Conns, NEW ok \in BOOLEAN, BroadcastEnd(w, c, ok) PROVE IInv'
    BY <2>4 DEF BroadcastEnd, EndWrite, WriterAssumption, TypeOK
  <2> QED BY <1>1, <2>1, <2>2, <2>3, <2>4 DEF WriterStep
<1>2. ASSUME NEW c \in Conns, ConnStep(c), serverUp PROVE IInv'
  <2>1. CASE Open(c) \/ ClientLeaves(c)
    BY <2>1 DEF Open, ClientLeaves, TypeOK
  <2>2. CASE ReadConnection(c)
    BY <2>2 DEF ReadConnection, TypeOK
  <2>3. CASE ReadText(c) \/ InputTaken(c) \/ ReadError(c) \/ ReadDeadline(c)
    BY <2>3 DEF ReadText, InputTaken, ReadError, ReadDeadline, TypeOK
  <2>4. CASE RemoveConnection(c)
    BY <2>4 DEF RemoveConnection, TypeOK
  <2>5. CASE PingBegin(c)
    <3>1. Pinger(c) \in Threads /\ Pinger(c) \notin Writers
      BY DEF Threads, WriterAssumption
    <3>2. BeginWrite(c, Pinger(c))
      BY <2>5 DEF PingBegin
    <3> QED
      BY <1>2, <2>5, <3>1, <3>2, BeginWriteEffect DEF PingBegin, WriterAssumption, TypeOK
  <2>6. ASSUME NEW ok \in BOOLEAN, PingEnd(c, ok) PROVE IInv'
    BY <2>6 DEF PingEnd, EndWrite, WriterAssumption, TypeOK
  <2>7. CASE AttachWriteBegin(c)
    <3>1. Attacher(c) \in Threads /\ Attacher(c) \notin Writers
      BY DEF Threads, WriterAssumption
    <3>2. BeginWrite(c, Attacher(c))
      BY <2>7 DEF AttachWriteBegin
    <3> QED
      BY <1>2, <2>7, <3>1, <3>2, BeginWriteEffect DEF AttachWriteBegin, WriterAssumption, TypeOK
  <2>8. ASSUME NEW ok \in BOOLEAN, AttachWriteEnd(c, ok) PROVE IInv'
    BY <2>8 DEF AttachWriteEnd, EndWrite, WriterAssumption, TypeOK
  <2> QED BY <1>2, <2>1, <2>2, <2>3, <2>4, <2>5, <2>6, <2>7, <2>8 DEF ConnStep
<1>3. CASE CloseConnections
  BY <1>3 DEF CloseConnections, TypeOK
<1>4. CASE UNCHANGED vars
  BY <1>4 DEF vars
<1> QED BY <1>1, <1>2, <1>3, <1>4 DEF Next

LEMMA InvCorrect == Spec => []IInv
<1>1. Init => IInv
  BY DEF Init, IInv, LiveConnRegistered, ForgottenStaysForgotten, BroadcastInv
<1> QED
  BY <1>1, InvNext, TypeCorrect, WriterAssumption, PTL DEF Spec

\* No broadcast, removal or registration ever drops an open connection whose
\* reader runs, however many connections and output goroutines there are.
THEOREM LiveConnStaysRegistered == Spec => []LiveConnRegistered
BY InvCorrect, PTL DEF IInv

\* No broadcast ever brings back a connection that was removed or closed.
THEOREM ForgottenIsForgotten == Spec => []ForgottenStaysForgotten
BY InvCorrect, PTL DEF IInv

-----------------------------------------------------------------------------
(***************************************************************************)
(* Who can meet in WriteMessage.  That goroutines do meet there is a       *)
(* finding; this is how far it goes.                                       *)
(***************************************************************************)
OwnWriters == \A c \in Conns : inflight[c] \subseteq Writers \cup {Pinger(c), Attacher(c)}

\* A connection is written by the broadcast that holds the lock, by its own pinger
\* and by the request that attached it (ws-connection-handler.go:82, 88, 126).
OnlyItsThreeWriters == \A c \in Conns : inflight[c] \subseteq {lock, Pinger(c), Attacher(c)}

LEMMA OwnWritersNext == WriterAssumption /\ TypeOK /\ OwnWriters /\ [Next]_vars => OwnWriters'
<1> SUFFICES ASSUME WriterAssumption, TypeOK, OwnWriters, [Next]_vars PROVE OwnWriters'
  OBVIOUS
<1>1. ASSUME NEW c \in Conns, NEW t \in Writers \cup {Pinger(c), Attacher(c)}, BeginWrite(c, t)
      PROVE  OwnWriters'
  <2>1. t \in Threads
    BY DEF Threads
  <2>2. /\ \A d \in Conns : d # c => inflight'[d] = inflight[d]
        /\ inflight'[c] \subseteq inflight[c] \cup {t}
    BY <1>1, <2>1, BeginWriteEffect
  <2> QED BY <2>2 DEF OwnWriters
<1>2. ASSUME NEW c \in Conns, NEW t, inflight' = [inflight EXCEPT ![c] = @ \ {t}] PROVE OwnWriters'
  BY <1>2 DEF OwnWriters, TypeOK
<1>3. ASSUME UNCHANGED inflight PROVE OwnWriters'
  BY <1>3 DEF OwnWriters
<1>4. ASSUME NEW w \in Writers, WriterStep(w) PROVE OwnWriters'
  <2>1. CASE WriteDataToWsConnections(w) \/ BroadcastDone(w)
    BY <1>3, <2>1 DEF WriteDataToWsConnections, BroadcastDone
  <2>2. ASSUME NEW c \in Conns, BroadcastBegin(w, c) PROVE OwnWriters'
    BY <1>1, <2>2 DEF BroadcastBegin
  <2>3. ASSUME NEW c \in Conns, NEW ok \in BOOLEAN, BroadcastEnd(w, c, ok) PROVE OwnWriters'
    BY <1>2, <2>3 DEF BroadcastEnd, EndWrite
  <2> QED BY <1>4, <2>1, <2>2, <2>3 DEF WriterStep
<1>5. ASSUME NEW c \in Conns, ConnStep(c) PROVE OwnWriters'
  <2>1. CASE \/ Open(c) \/ ClientLeaves(c) \/ ReadConnection(c) \/ ReadText(c) \/ InputTaken(c)
             \/ ReadError(c) \/ ReadDeadline(c) \/ RemoveConnection(c)
    BY <1>3, <2>1 DEF Open, ClientLeaves, ReadConnection, ReadText, InputTaken, ReadError, ReadDeadline,
                      RemoveConnection
  <2>2. CASE PingBegin(c) \/ AttachWriteBegin(c)
    BY <1>1, <2>2 DEF PingBegin, AttachWriteBegin
  <2>3. ASSUME NEW ok \in BOOLEAN, PingEnd(c, ok) \/ AttachWriteEnd(c, ok) PROVE OwnWriters'
    BY <1>2, <2>3 DEF PingEnd, AttachWriteEnd, EndWrite
  <2> QED BY <1>5, <2>1, <2>2, <2>3 DEF ConnStep
<1>6. CASE CloseConnections \/ UNCHANGED vars
  BY <1>3, <1>6 DEF CloseConnections, vars
<1> QED BY <1>4, <1>5, <1>6 DEF Next

\* Two broadcasts never meet, nor do the pings or the replays of two connections:
\* at most three goroutines are inside WriteMessage of one connection.
THEOREM AtMostThreeWritersMeet == Spec => []OnlyItsThreeWriters
<1>1. Init => OwnWriters
  BY DEF Init, OwnWriters
<1>2. Spec => []OwnWriters
  BY <1>1, OwnWritersNext, TypeCorrect, WriterAssumption, PTL DEF Spec
<1>3. IInv /\ OwnWriters => OnlyItsThreeWriters
  BY DEF IInv, BroadcastInv, OwnWriters, OnlyItsThreeWriters
<1> QED BY <1>2, <1>3, InvCorrect, PTL
=============================================================================
