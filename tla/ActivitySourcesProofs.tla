------------------------ MODULE ActivitySourcesProofs ------------------------
(***************************************************************************)
(* Proofs about the two activity sources: for any number of processes,     *)
(* terminals, servers and threads, any settings, and as many scans as      *)
(* there may be.                                                           *)
(***************************************************************************)
EXTENDS ActivitySources, FiniteSetTheorems, SequenceTheorems, WellFoundedInduction, TLAPS

\* There is a first among PIDs, which a scan looks at next.
LEMMA FirstOfPids ==
  ASSUME NEW T, T \subseteq Nat, T # {}
  PROVE  \E x \in T : \A y \in T : x <= y
<1> DEFINE D == {0 .. x : x \in T}
           R == StrictSubsetOrdering(Nat)
<1>1. D \subseteq FiniteSubsetsOf(Nat) /\ D # {}
  <2>1. ASSUME NEW x \in T PROVE 0 .. x \in FiniteSubsetsOf(Nat)
    <3>1. x \in Int /\ 0 \in Int /\ 0 .. x \in SUBSET Nat
      OBVIOUS
    <3> QED BY <3>1, FS_Interval DEF FiniteSubsetsOf
  <2> QED BY <2>1
<1>2. IsWellFoundedOn(R, FiniteSubsetsOf(Nat))
  BY FS_StrictSubsetOrderingWellFounded
<1>3. PICK d \in D : \A e \in D : <<e, d>> \notin R
  BY <1>1, <1>2, WFMin
<1>4. PICK x \in T : d = 0 .. x
  OBVIOUS
<1>5. ASSUME NEW y \in T, ~(x <= y) PROVE FALSE
  <2>1. 0 .. y \in SUBSET Nat /\ 0 .. x \in SUBSET Nat /\ 0 .. y \subseteq 0 .. x
    BY <1>5
  <2>2. x \in 0 .. x /\ x \notin 0 .. y
    BY <1>5
  <2>3. <<0 .. y, 0 .. x>> \in R
    BY <2>1, <2>2 DEF StrictSubsetOrdering
  <2> QED BY <1>3, <1>4, <2>3
<1> QED BY <1>5

-----------------------------------------------------------------------------
(***************************************************************************)
(* The connections of the Codex source.                                    *)
(***************************************************************************)
Servers == [id : Nat, threads : [Threads -> Codex!Stamps \cup {Nothing}], hangs : BOOLEAN, chatter : Nat]

CodexTypes ==
    /\ server \in [ServerPids -> Servers \cup {Nothing}]
    /\ starts \in [ServerPids -> Nat]
    /\ conns \in [ServerPids -> Codex!Connections \cup {Nothing}]
    /\ apiPc \in {"idle", "next", "initialize", "list", "read"}
    /\ apiTodo \subseteq ServerPids /\ left \subseteq Threads
    /\ Codex!Waiting => cand \in ServerPids /\ conns[cand] # Nothing
    /\ apiPc = "read" => asked \in Threads

Call == IF apiPc = "read" THEN asked ELSE apiPc

\* What is under way on a connection, if it is said to be of the present call, is.
Fresh(conn, call) ==
    /\ \A i \in DOMAIN conn.requests : conn.requests[i].now => conn.requests[i].of = call
    /\ \A i \in DOMAIN conn.inbox :
          conn.inbox[i].kind = "answer" /\ conn.inbox[i].now => conn.inbox[i].of = call

FreshInv == Codex!Waiting => Fresh(conns[cand], Call)

CachedInv ==
    \A p \in ServerPids :
        conns[p] # Nothing /\ ~(apiPc = "initialize" /\ p = cand) => conns[p].cached

Open == {p \in ServerPids : conns[p] # Nothing}

SocketInv == sockets = Cardinality(Open)

CodexInv == CodexTypes /\ FreshInv /\ CachedInv /\ SocketInv

\* FiniteSets are those of the instance.
LEMMA SameFiniteSets ==
  \A S : (Codex!IsFiniteSet(S) <=> IsFiniteSet(S)) /\ Codex!Cardinality(S) = Cardinality(S)
BY DEF Codex!IsFiniteSet, IsFiniteSet, Codex!Cardinality, Cardinality

LEMMA ConnectionsAreThere ==
  /\ IsFiniteSet(ServerPids) /\ ServerPids \subseteq Nat
  /\ Nothing \notin Codex!Connections
  /\ Nothing \notin Threads
BY SourcesAssumption, SameFiniteSets DEF SourcesAssumption, Codex!CodexAssumption

\* An old request or frame is no longer of the present call.
LEMMA EarlierRequests ==
  ASSUME NEW s \in Seq(Codex!Requests)
  PROVE  /\ Codex!Earlier(s) \in Seq(Codex!Requests)
         /\ DOMAIN Codex!Earlier(s) = 1 .. Len(s)
         /\ \A i \in DOMAIN Codex!Earlier(s) : Codex!Earlier(s)[i].now = FALSE
<1>1. ASSUME NEW i \in 1 .. Len(s) PROVE [s[i] EXCEPT !.now = FALSE] \in Codex!Requests /\ [s[i] EXCEPT !.now = FALSE].now = FALSE
  <2>1. s[i] \in Codex!Requests
    OBVIOUS
  <2> QED BY <2>1 DEF Codex!Requests
<1>2. Codex!Earlier(s) = [i \in 1 .. Len(s) |-> [s[i] EXCEPT !.now = FALSE]]
  BY DEF Codex!Earlier
<1> DEFINE e == Codex!Earlier(s)
<1>3. DOMAIN e = 1 .. Len(s) /\ \A i \in 1 .. Len(s) : e[i] \in Codex!Requests /\ e[i].now = FALSE
  BY <1>1, <1>2
<1>4. Len(s) \in Nat /\ e = [i \in 1 .. Len(s) |-> e[i]]
  BY <1>2
<1> HIDE DEF e
<1>5. e \in Seq(Codex!Requests)
  BY <1>3, <1>4
<1> QED BY <1>3, <1>5 DEF e

LEMMA EarlierFrames ==
  ASSUME NEW s \in Seq(Codex!Frames)
  PROVE  /\ Codex!Earlier(s) \in Seq(Codex!Frames)
         /\ \A i \in DOMAIN Codex!Earlier(s) : Codex!Earlier(s)[i].now = FALSE
<1>1. ASSUME NEW i \in 1 .. Len(s) PROVE [s[i] EXCEPT !.now = FALSE] \in Codex!Frames /\ [s[i] EXCEPT !.now = FALSE].now = FALSE
  <2>1. s[i] \in Codex!Frames
    OBVIOUS
  <2> QED BY <2>1 DEF Codex!Frames
<1>2. Codex!Earlier(s) = [i \in 1 .. Len(s) |-> [s[i] EXCEPT !.now = FALSE]]
  BY DEF Codex!Earlier
<1> DEFINE e == Codex!Earlier(s)
<1>3. DOMAIN e = 1 .. Len(s) /\ \A i \in 1 .. Len(s) : e[i] \in Codex!Frames /\ e[i].now = FALSE
  BY <1>1, <1>2
<1>4. Len(s) \in Nat /\ e = [i \in 1 .. Len(s) |-> e[i]]
  BY <1>2
<1> HIDE DEF e
<1>5. e \in Seq(Codex!Frames)
  BY <1>3, <1>4
<1> QED BY <1>3, <1>5 DEF e

LEMMA RequestIsFresh ==
  ASSUME NEW conn \in Codex!Connections, NEW method \in Codex!Calls
  PROVE  /\ Codex!Request(conn, method) \in Codex!Connections
         /\ Codex!Request(conn, method).cached = conn.cached
         /\ Fresh(Codex!Request(conn, method), method)
<1> DEFINE old == Codex!Earlier(conn.requests)
           new == [now |-> TRUE, of |-> method]
           k   == Codex!Request(conn, method)
<1>1. conn.requests \in Seq(Codex!Requests) /\ conn.inbox \in Seq(Codex!Frames)
  BY DEF Codex!Connections
<1>2. new \in Codex!Requests
  BY DEF Codex!Requests
<1>3. /\ old \in Seq(Codex!Requests)
      /\ \A i \in DOMAIN old : old[i].now = FALSE
  BY <1>1, EarlierRequests
<1>4. /\ Append(old, new) \in Seq(Codex!Requests)
      /\ \A i \in DOMAIN Append(old, new) : Append(old, new)[i].now => Append(old, new)[i].of = method
  BY <1>2, <1>3
<1>5. /\ Codex!Earlier(conn.inbox) \in Seq(Codex!Frames)
      /\ \A i \in DOMAIN Codex!Earlier(conn.inbox) : Codex!Earlier(conn.inbox)[i].now = FALSE
  BY <1>1, EarlierFrames
<1>6. k = [conn EXCEPT !.requests = Append(old, new), !.inbox = Codex!Earlier(conn.inbox)]
  BY DEF Codex!Request
<1> HIDE DEF old, new
<1>7. /\ k \in Codex!Connections /\ k.cached = conn.cached
      /\ k.requests = Append(old, new) /\ k.inbox = Codex!Earlier(conn.inbox)
  BY <1>4, <1>5, <1>6 DEF Codex!Connections
<1> QED BY <1>4, <1>5, <1>7 DEF Fresh

\* A connection in the place of another or of none.
LEMMA PutConnection ==
  ASSUME CodexTypes, SocketInv, NEW p \in ServerPids, NEW k \in Codex!Connections,
         conns' = [conns EXCEPT ![p] = k],
         sockets' = IF conns[p] = Nothing THEN sockets + 1 ELSE sockets
  PROVE  /\ conns' \in [ServerPids -> Codex!Connections \cup {Nothing}]
         /\ conns'[p] = k /\ \A q \in ServerPids \ {p} : conns'[q] = conns[q]
         /\ conns'[p] # Nothing
         /\ SocketInv'
<1>1. /\ conns' \in [ServerPids -> Codex!Connections \cup {Nothing}]
      /\ conns'[p] = k /\ \A q \in ServerPids \ {p} : conns'[q] = conns[q]
  BY DEF CodexTypes
<1>2. k # Nothing
  BY ConnectionsAreThere
<1>3. Open' = Open \cup {p}
  BY <1>1, <1>2 DEF Open
<1>4. IsFiniteSet(Open)
  BY ConnectionsAreThere, FS_Subset DEF Open
<1>5. Cardinality(Open \cup {p}) = IF p \in Open THEN Cardinality(Open) ELSE Cardinality(Open) + 1
  BY <1>4, FS_AddElement
<1>6. p \in Open <=> conns[p] # Nothing
  BY DEF Open
<1> QED BY <1>1, <1>2, <1>3, <1>5, <1>6 DEF SocketInv

\* The present connection is given up.
LEMMA DropConnection ==
  ASSUME CodexTypes, SocketInv, Codex!Waiting, Codex!Drop
  PROVE  /\ conns' \in [ServerPids -> Codex!Connections \cup {Nothing}]
         /\ \A q \in ServerPids : conns'[q] = IF q = cand THEN Nothing ELSE conns[q]
         /\ SocketInv'
<1>0. cand \in ServerPids /\ conns[cand] # Nothing
  BY DEF CodexTypes
<1>1. /\ conns' \in [ServerPids -> Codex!Connections \cup {Nothing}]
      /\ \A q \in ServerPids : conns'[q] = IF q = cand THEN Nothing ELSE conns[q]
  BY <1>0 DEF CodexTypes, Codex!Drop
<1>2. Open' = Open \ {cand} /\ cand \in Open
  BY <1>0, <1>1 DEF Open
<1>3. IsFiniteSet(Open)
  BY ConnectionsAreThere, FS_Subset DEF Open
<1>4. Cardinality(Open \ {cand}) = Cardinality(Open) - 1
  BY <1>2, <1>3, FS_RemoveElement
<1> QED BY <1>1, <1>2, <1>4 DEF SocketInv, Codex!Drop

\* What comes and goes on a connection, while no call begins or ends.
LEMMA TrafficKeeps ==
  ASSUME CodexInv, NEW p \in ServerPids, NEW k \in Codex!Connections, conns[p] # Nothing,
         k.cached = conns[p].cached,
         Codex!Waiting /\ p = cand => Fresh(k, Call),
         conns' = [conns EXCEPT ![p] = k],
         UNCHANGED <<starts, sockets, apiPc, apiTodo, cand, asked, left>>,
         server' \in [ServerPids -> Servers \cup {Nothing}]
  PROVE  CodexInv'
<1>1. /\ conns' \in [ServerPids -> Codex!Connections \cup {Nothing}]
      /\ conns'[p] = k /\ \A q \in ServerPids \ {p} : conns'[q] = conns[q]
      /\ conns'[p] # Nothing
      /\ SocketInv'
  BY PutConnection DEF CodexInv
<1>2. CodexTypes'
  BY <1>1 DEF CodexInv, CodexTypes, Codex!Waiting
<1>3. FreshInv'
  BY <1>1 DEF CodexInv, CodexTypes, FreshInv, Fresh, Codex!Waiting, Call
<1>4. CachedInv'
  BY <1>1 DEF CodexInv, CachedInv
<1> QED BY <1>1, <1>2, <1>3, <1>4 DEF CodexInv

\* A call begins, on the connection of p.
LEMMA CallKeeps ==
  ASSUME CodexInv, NEW p \in ServerPids, NEW k \in Codex!Connections,
         conns' = [conns EXCEPT ![p] = k],
         sockets' = IF conns[p] = Nothing THEN sockets + 1 ELSE sockets,
         Codex!Waiting => p = cand,
         cand' = p, Codex!Waiting', Call' \in Codex!Calls, Fresh(k, Call'),
         apiPc' = "initialize" \/ k.cached,
         apiPc' = "read" => asked' \in Threads,
         apiTodo' \subseteq ServerPids, left' \subseteq Threads,
         UNCHANGED <<server, starts>>
  PROVE  CodexInv'
<1>1. /\ conns' \in [ServerPids -> Codex!Connections \cup {Nothing}]
      /\ conns'[p] = k /\ \A q \in ServerPids \ {p} : conns'[q] = conns[q]
      /\ conns'[p] # Nothing
      /\ SocketInv'
  BY PutConnection DEF CodexInv
<1>2. CodexTypes'
  BY <1>1 DEF CodexInv, CodexTypes, Codex!Waiting
<1>3. FreshInv'
  BY <1>1 DEF FreshInv
<1>4. CachedInv'
  BY <1>1 DEF CodexInv, CachedInv, Codex!Waiting
<1> QED BY <1>1, <1>2, <1>3, <1>4 DEF CodexInv

\* No call is under way any more.
LEMMA RestKeeps ==
  ASSUME CodexInv,
         conns' \in [ServerPids -> Codex!Connections \cup {Nothing}],
         \A q \in ServerPids : conns'[q] # Nothing => conns'[q].cached,
         SocketInv',
         apiPc' \in {"idle", "next"}, apiTodo' \subseteq ServerPids, left' \subseteq Threads,
         UNCHANGED <<server, starts>>
  PROVE  CodexInv'
<1>1. ~Codex!Waiting' /\ apiPc' # "read" /\ apiPc' # "initialize"
  BY DEF Codex!Waiting
<1>2. CodexTypes'
  BY <1>1 DEF CodexInv, CodexTypes
<1> QED BY <1>1, <1>2 DEF CodexInv, FreshInv, CachedInv

\* Servers come, go, hang and work on their threads.
LEMMA ServerKeeps ==
  ASSUME CodexInv,
         server' \in [ServerPids -> Servers \cup {Nothing}], starts' \in [ServerPids -> Nat],
         UNCHANGED <<conns, sockets, apiPc, apiTodo, cand, asked, left>>
  PROVE  CodexInv'
<1>1. CodexTypes'
  BY DEF CodexInv, CodexTypes, Codex!Waiting
<1>2. FreshInv'
  BY DEF CodexInv, FreshInv, Fresh, Codex!Waiting, Call
<1>3. CachedInv' /\ SocketInv'
  BY DEF CodexInv, CachedInv, SocketInv, Open
<1> QED BY <1>1, <1>2, <1>3 DEF CodexInv

\* A scan looks at the first of the candidates.
LEMMA FirstCandidate ==
  ASSUME CodexTypes, apiTodo # {}
  PROVE  Codex!First \in apiTodo /\ Codex!First \in ServerPids
<1>1. apiTodo \subseteq Nat
  BY ConnectionsAreThere DEF CodexTypes
<1>2. \E x \in apiTodo : \A y \in apiTodo : x <= y
  BY <1>1, FirstOfPids
<1> QED BY <1>2 DEF Codex!First, CodexTypes

-----------------------------------------------------------------------------
(***************************************************************************)
(* The servers, and what they send.                                        *)
(***************************************************************************)
LEMMA ServerStepKeeps ==
  ASSUME CodexInv, NEW p \in ServerPids, Codex!ServerStep(p)
  PROVE  CodexInv'
<1> USE DEF CodexInv, CodexTypes, Codex!scanVars
<1>1. CASE Codex!ServerStarts(p)
  <2>1. Codex!NothingRead \in [Threads -> Codex!Stamps \cup {Nothing}]
    BY DEF Codex!NothingRead
  <2>2. [id |-> starts[p] + 1, threads |-> Codex!NothingRead, hangs |-> FALSE, chatter |-> 0] \in Servers
    BY <2>1 DEF Servers
  <2>3. server' \in [ServerPids -> Servers \cup {Nothing}] /\ starts' \in [ServerPids -> Nat]
    BY <1>1, <2>2 DEF Codex!ServerStarts
  <2> QED BY <1>1, <2>3, ServerKeeps DEF Codex!ServerStarts
<1>2. CASE Codex!ServerExits(p)
  <2>1. server' \in [ServerPids -> Servers \cup {Nothing}]
    BY <1>2 DEF Codex!ServerExits
  <2> QED BY <1>2, <2>1, ServerKeeps DEF Codex!ServerExits
<1>3. CASE Codex!ServerHangs(p)
  <2>1. server[p] \in Servers
    BY <1>3 DEF Codex!ServerHangs, Codex!Running
  <2>2. [server[p] EXCEPT !.hangs = ~@] \in Servers
    BY <2>1 DEF Servers
  <2>3. server' \in [ServerPids -> Servers \cup {Nothing}]
    BY <1>3, <2>2 DEF Codex!ServerHangs
  <2> QED BY <1>3, <2>3, ServerKeeps DEF Codex!ServerHangs
<1>4. CASE \E t \in Threads, stamp \in Codex!Stamps \cup {Nothing} : Codex!ThreadChanges(p, t, stamp)
  <2>1. PICK t \in Threads, stamp \in Codex!Stamps \cup {Nothing} : Codex!ThreadChanges(p, t, stamp)
    BY <1>4
  <2>2. server[p] \in Servers
    BY <2>1 DEF Codex!ThreadChanges, Codex!Running
  <2>3. [server[p].threads EXCEPT ![t] = stamp] \in [Threads -> Codex!Stamps \cup {Nothing}]
    BY <2>2 DEF Servers
  <2>4. [server[p] EXCEPT !.threads = [server[p].threads EXCEPT ![t] = stamp]] \in Servers
    BY <2>2, <2>3 DEF Servers
  <2>5. server' = [server EXCEPT ![p] = [server[p] EXCEPT !.threads = [server[p].threads EXCEPT ![t] = stamp]]]
    BY <2>1 DEF Codex!ThreadChanges
  <2>6. server' \in [ServerPids -> Servers \cup {Nothing}]
    BY <2>4, <2>5
  <2> QED BY <2>1, <2>6, ServerKeeps DEF Codex!ThreadChanges
<1>5. CASE \E kind \in {"noise", "request"} : Codex!ServerChatters(p, kind)
  <2>1. PICK kind \in {"noise", "request"} : Codex!ServerChatters(p, kind)
    BY <1>5
  <2>2. /\ server[p] \in Servers /\ conns[p] \in Codex!Connections /\ conns[p] # Nothing
    BY <2>1, ConnectionsAreThere DEF Codex!ServerChatters, Codex!Connected, Codex!Running
  <2>3. [server[p] EXCEPT !.chatter = @ + 1] \in Servers
    BY <2>2 DEF Servers
  <2>4. server' \in [ServerPids -> Servers \cup {Nothing}]
    BY <2>1, <2>3 DEF Codex!ServerChatters
  <2> DEFINE frame == Codex!Chatter(kind)
             box   == Append(conns[p].inbox, frame)
             k     == [conns[p] EXCEPT !.inbox = box]
  <2>5. frame \in Codex!Frames /\ frame.kind # "answer"
    BY DEF Codex!Chatter, Codex!Frames
  <2>6. conns[p].inbox \in Seq(Codex!Frames)
    BY <2>2 DEF Codex!Connections
  <2> HIDE DEF frame
  <2>7. /\ box \in Seq(Codex!Frames)
        /\ \A i \in DOMAIN box : box[i] = frame \/ (i \in DOMAIN conns[p].inbox /\ box[i] = conns[p].inbox[i])
    BY <2>5, <2>6
  <2>8. conns' = [conns EXCEPT ![p] = k]
    BY <2>1 DEF Codex!ServerChatters, frame
  <2> HIDE DEF box
  <2>9. k \in Codex!Connections /\ k.cached = conns[p].cached /\ k.requests = conns[p].requests /\ k.inbox = box
    BY <2>2, <2>7 DEF Codex!Connections
  <2>10. Codex!Waiting /\ p = cand => Fresh(k, Call)
    BY <2>5, <2>7, <2>9 DEF FreshInv, Fresh
  <2> HIDE DEF k
  <2> QED BY <2>1, <2>2, <2>4, <2>8, <2>9, <2>10, TrafficKeeps DEF Codex!ServerChatters
<1> QED BY <1>1, <1>2, <1>3, <1>4, <1>5 DEF Codex!ServerStep

LEMMA AnswerKeeps ==
  ASSUME CodexInv, NEW p \in ServerPids, Codex!ServerAnswers(p)
  PROVE  CodexInv'
<1>1. /\ server[p] \in Servers /\ conns[p] \in Codex!Connections /\ conns[p] # Nothing
      /\ conns[p].requests # <<>>
  BY ConnectionsAreThere DEF CodexInv, CodexTypes, Codex!ServerAnswers, Codex!Connected, Codex!Running
<1>2. /\ conns[p].inbox \in Seq(Codex!Frames) /\ conns[p].requests \in Seq(Codex!Requests)
      /\ server[p].threads \in [Threads -> Codex!Stamps \cup {Nothing}]
  BY <1>1 DEF Codex!Connections, Servers
<1> DEFINE req   == Head(conns[p].requests)
           rest  == Tail(conns[p].requests)
           frame == Codex!AnswerTo(p, req)
           box   == Append(conns[p].inbox, frame)
           k     == [conns[p] EXCEPT !.requests = rest, !.inbox = box]
<1>3. /\ req \in Codex!Requests /\ req = conns[p].requests[1] /\ 1 \in DOMAIN conns[p].requests
      /\ rest \in Seq(Codex!Requests)
      /\ \A i \in DOMAIN rest : i + 1 \in DOMAIN conns[p].requests /\ rest[i] = conns[p].requests[i + 1]
  BY <1>1, <1>2
<1> HIDE DEF req, rest
<1>4. frame \in Codex!Frames /\ frame.now = req.now /\ frame.of = req.of
  <2>1. \A t \in Codex!Loaded(p) : t \in Threads /\ server[p].threads[t] \in Codex!Stamps
    BY <1>2 DEF Codex!Loaded
  <2>2. req.now \in BOOLEAN /\ req.of \in Codex!Calls
    BY <1>3 DEF Codex!Requests
  <2> DEFINE v == CASE req.of \in {"initialize", "list"} -> "ok"
                    [] req.of \in Codex!Loaded(p)        -> server[p].threads[req.of]
                    [] OTHER                             -> "error"
             l == IF req.of = "list" THEN Codex!Loaded(p) ELSE {}
  <2>3. v \in {"ok", "error", "none"} \cup Codex!Stamps
    <3>1. CASE req.of \in {"initialize", "list"}
      <4>1. req.of \notin Codex!Loaded(p)
        BY <2>1, <3>1, SourcesAssumption DEF SourcesAssumption, Codex!CodexAssumption
      <4> QED BY <3>1, <4>1
    <3>2. CASE req.of \notin {"initialize", "list"}
      BY <2>1, <3>2
    <3> QED BY <3>1, <3>2
  <2>4. l \in SUBSET Threads
    BY <2>1
  <2>5. frame = [kind |-> "answer", now |-> req.now, of |-> req.of, value |-> v, list |-> l]
    BY DEF Codex!AnswerTo
  <2> HIDE DEF v, l, frame
  <2> QED BY <2>2, <2>3, <2>4, <2>5 DEF Codex!Frames
<1>5. conns' = [conns EXCEPT ![p] = k]
  BY DEF Codex!ServerAnswers, req, rest
<1> HIDE DEF frame
<1>6. /\ box \in Seq(Codex!Frames)
      /\ \A i \in DOMAIN box : box[i] = frame \/ (i \in DOMAIN conns[p].inbox /\ box[i] = conns[p].inbox[i])
  BY <1>2, <1>4
<1> HIDE DEF box
<1>7. k \in Codex!Connections /\ k.cached = conns[p].cached /\ k.requests = rest /\ k.inbox = box
  BY <1>1, <1>3, <1>6 DEF Codex!Connections
<1>8. Codex!Waiting /\ p = cand => Fresh(k, Call)
  <2> SUFFICES ASSUME Codex!Waiting, p = cand PROVE Fresh(k, Call)
    OBVIOUS
  <2>1. Fresh(conns[p], Call)
    BY DEF CodexInv, FreshInv
  <2>2. req.now => req.of = Call
    BY <1>3, <2>1 DEF Fresh
  <2>3. ASSUME NEW i \in DOMAIN rest, rest[i].now PROVE rest[i].of = Call
    BY <1>3, <2>1, <2>3 DEF Fresh
  <2>4. ASSUME NEW i \in DOMAIN box, box[i].kind = "answer", box[i].now PROVE box[i].of = Call
    BY <1>4, <1>6, <2>1, <2>2, <2>4 DEF Fresh
  <2> QED BY <1>7, <2>3, <2>4 DEF Fresh
<1> HIDE DEF k
<1>9. server' \in [ServerPids -> Servers \cup {Nothing}]
  BY DEF CodexInv, CodexTypes, Codex!ServerAnswers
<1> QED BY <1>1, <1>5, <1>7, <1>8, <1>9, TrafficKeeps DEF Codex!ServerAnswers, Codex!scanVars

-----------------------------------------------------------------------------
(***************************************************************************)
(* The steps of a scan.                                                    *)
(***************************************************************************)

\* The frame that has arrived, and what is left when it is taken.
LEMMA TakenFrame ==
  ASSUME CodexInv, Codex!Waiting, conns[cand].inbox # <<>>
  PROVE  /\ cand \in ServerPids /\ conns[cand] \in Codex!Connections /\ conns[cand] # Nothing
         /\ Codex!Arrived \in Codex!Frames
         /\ Codex!Arrived.kind = "answer" /\ Codex!Arrived.now => Codex!Arrived.of = Call
         /\ Codex!Taken \in Codex!Connections /\ Codex!Taken.cached = conns[cand].cached
         /\ Fresh(Codex!Taken, Call)
<1>1. cand \in ServerPids /\ conns[cand] \in Codex!Connections /\ conns[cand] # Nothing
  BY DEF CodexInv, CodexTypes
<1>2. Fresh(conns[cand], Call)
  BY DEF CodexInv, FreshInv
<1> DEFINE box == conns[cand].inbox
<1>3. box \in Seq(Codex!Frames) /\ box # <<>>
  BY <1>1 DEF Codex!Connections
<1>4. /\ Head(box) \in Codex!Frames /\ 1 \in DOMAIN box /\ Head(box) = box[1]
      /\ Tail(box) \in Seq(Codex!Frames)
      /\ \A i \in DOMAIN Tail(box) : i + 1 \in DOMAIN box /\ Tail(box)[i] = box[i + 1]
  <2> HIDE DEF box
  <2> QED BY <1>3
<1>5. Codex!Arrived = Head(box)
  BY DEF Codex!Arrived
<1>6. Codex!Taken = [conns[cand] EXCEPT !.inbox = Tail(box)]
  BY DEF Codex!Taken
<1>7. Codex!Arrived.kind = "answer" /\ Codex!Arrived.now => Codex!Arrived.of = Call
  BY <1>2, <1>4, <1>5 DEF Fresh
<1>8. /\ Codex!Taken \in Codex!Connections /\ Codex!Taken.cached = conns[cand].cached
      /\ Codex!Taken.requests = conns[cand].requests /\ Codex!Taken.inbox = Tail(box)
  BY <1>1, <1>4, <1>6 DEF Codex!Connections
<1>9. ASSUME NEW i \in DOMAIN Tail(box), Tail(box)[i].kind = "answer", Tail(box)[i].now
      PROVE  Tail(box)[i].of = Call
  BY <1>2, <1>4, <1>9 DEF Fresh
<1> QED BY <1>1, <1>2, <1>4, <1>5, <1>7, <1>8, <1>9 DEF Fresh

\* Only a frame that is there can be the answer, or a request in its place.
LEMMA ArrivedIsThere ==
  ASSUME Codex!Waiting, Codex!Mine(Codex!Arrived) \/ Codex!Answered
  PROVE  conns[cand].inbox # <<>>
<1> SUFFICES ASSUME conns[cand].inbox = <<>> PROVE FALSE
  OBVIOUS
<1>1. Codex!Arrived.now = FALSE
  BY DEF Codex!Arrived, Codex!Chatter
<1> QED BY <1>1 DEF Codex!Mine, Codex!Answered

LEMMA ScanBeginKeeps ==
  ASSUME CodexInv, Codex!ScanBegin
  PROVE  CodexInv'
<1> DEFINE stale == {p \in ServerPids \ Codex!Running : conns[p] # Nothing}
<1>1. /\ apiPc = "idle" /\ apiPc' = "next" /\ apiTodo' = Codex!Running
      /\ conns' = [p \in ServerPids |-> IF p \in stale THEN Nothing ELSE conns[p]]
      /\ sockets' = sockets - Cardinality(stale)
      /\ UNCHANGED <<server, starts, left>>
  BY SameFiniteSets DEF Codex!ScanBegin
<1>2. conns' \in [ServerPids -> Codex!Connections \cup {Nothing}]
  BY <1>1 DEF CodexInv, CodexTypes
<1>3. \A q \in ServerPids : conns'[q] # Nothing => conns'[q].cached
  BY <1>1 DEF CodexInv, CachedInv
<1>4. SocketInv'
  <2>1. stale \subseteq Open /\ IsFiniteSet(Open)
    BY ConnectionsAreThere, FS_Subset DEF Open
  <2>2. Open' = Open \ stale
    BY <1>1 DEF Open
  <2>3. Open \cap stale = stale
    BY <2>1
  <2> HIDE DEF stale
  <2>4. Cardinality(Open \ stale) = Cardinality(Open) - Cardinality(stale)
    BY <2>1, <2>3, FS_Difference, Zenon
  <2> QED BY <1>1, <2>2, <2>4 DEF CodexInv, SocketInv
<1> QED BY <1>1, <1>2, <1>3, <1>4, RestKeeps DEF CodexInv, CodexTypes, Codex!Running

LEMMA DialKeeps ==
  ASSUME CodexInv, Codex!UseCached \/ Codex!Dial
  PROVE  CodexInv'
<1> DEFINE p == Codex!First
<1>1. p \in ServerPids /\ ~Codex!Waiting
  BY FirstCandidate DEF CodexInv, Codex!UseCached, Codex!Dial, Codex!Waiting
<1>2. CASE Codex!UseCached
  <2> DEFINE k == Codex!Request(conns[p], "list")
  <2>1. conns[p] \in Codex!Connections /\ conns[p].cached
    BY <1>1, <1>2 DEF CodexInv, CodexTypes, CachedInv, Codex!UseCached
  <2>2. k \in Codex!Connections /\ k.cached /\ Fresh(k, "list") /\ "list" \in Codex!Calls
    BY <2>1, RequestIsFresh DEF Codex!Calls
  <2>3. /\ conns' = [conns EXCEPT ![p] = k] /\ conns[p] # Nothing /\ sockets' = sockets
        /\ cand' = p /\ apiPc' = "list" /\ apiTodo' = apiTodo \ {p}
        /\ UNCHANGED <<server, starts, left>>
    BY <1>2 DEF Codex!UseCached
  <2> HIDE DEF k, p
  <2>4. Codex!Waiting' /\ Call' = "list" /\ apiPc' # "read"
    BY <2>3 DEF Codex!Waiting, Call
  <2> QED BY <1>1, <2>2, <2>3, <2>4, CallKeeps DEF CodexInv, CodexTypes
<1>3. CASE Codex!Dial
  <2> DEFINE k == Codex!Request(Codex!Connect(p), "initialize")
  <2>1. Codex!Connect(p) \in Codex!Connections
    <3>1. server[p] \in Servers
      BY <1>1, <1>3 DEF CodexInv, CodexTypes, Codex!Dial, Codex!Running
    <3>2. <<>> \in Seq(Codex!Requests) /\ <<>> \in Seq(Codex!Frames)
      OBVIOUS
    <3> QED BY <3>1, <3>2 DEF Servers, Codex!Connect, Codex!Connections
  <2>2. k \in Codex!Connections /\ Fresh(k, "initialize") /\ "initialize" \in Codex!Calls
    BY <2>1, RequestIsFresh DEF Codex!Calls
  <2>3. /\ conns' = [conns EXCEPT ![p] = k] /\ conns[p] = Nothing /\ sockets' = sockets + 1
        /\ cand' = p /\ apiPc' = "initialize" /\ apiTodo' = apiTodo \ {p}
        /\ UNCHANGED <<server, starts, left>>
    BY <1>3 DEF Codex!Dial
  <2> HIDE DEF k, p
  <2>4. Codex!Waiting' /\ Call' = "initialize" /\ apiPc' # "read"
    BY <2>3 DEF Codex!Waiting, Call
  <2> QED BY <1>1, <2>2, <2>3, <2>4, CallKeeps DEF CodexInv, CodexTypes
<1> QED BY <1>2, <1>3

LEMMA DialFailsOrScanEndKeeps ==
  ASSUME CodexInv, Codex!DialFails \/ Codex!ScanEnd
  PROVE  CodexInv'
<1>1. /\ apiPc = "next" /\ apiPc' \in {"idle", "next"}
      /\ apiTodo' \subseteq apiTodo /\ UNCHANGED <<server, starts, conns, sockets, left>>
  BY DEF Codex!DialFails, Codex!ScanEnd
<1>2. SocketInv' /\ conns' \in [ServerPids -> Codex!Connections \cup {Nothing}]
  BY <1>1 DEF CodexInv, CodexTypes, SocketInv, Open
<1>3. \A q \in ServerPids : conns'[q] # Nothing => conns'[q].cached
  BY <1>1 DEF CodexInv, CachedInv
<1> QED BY <1>1, <1>2, <1>3, RestKeeps DEF CodexInv, CodexTypes

LEMMA InitializedKeeps ==
  ASSUME CodexInv, Codex!Initialized
  PROVE  CodexInv'
<1>1. Codex!Waiting /\ conns[cand].inbox # <<>>
  BY ArrivedIsThere DEF Codex!Initialized, Codex!Waiting
<1> DEFINE conn == [Codex!Taken EXCEPT !.cached = TRUE]
           k    == Codex!Request(conn, "list")
<1>2. cand \in ServerPids /\ conns[cand] # Nothing /\ conn \in Codex!Connections /\ conn.cached
  BY <1>1, TakenFrame DEF Codex!Connections
<1> HIDE DEF conn
<1>3. k \in Codex!Connections /\ k.cached /\ Fresh(k, "list") /\ "list" \in Codex!Calls
  BY <1>2, RequestIsFresh DEF Codex!Calls
<1>4. /\ conns' = [conns EXCEPT ![cand] = k] /\ cand' = cand /\ apiPc' = "list"
      /\ UNCHANGED <<server, starts, sockets, apiTodo, left>>
  BY DEF Codex!Initialized, conn
<1> HIDE DEF k
<1>5. Codex!Waiting' /\ Call' = "list" /\ apiPc' # "read"
  BY <1>4 DEF Codex!Waiting, Call
<1> QED BY <1>2, <1>3, <1>4, <1>5, CallKeeps DEF CodexInv, CodexTypes

LEMMA SkipFrameKeeps ==
  ASSUME CodexInv, Codex!SkipFrame
  PROVE  CodexInv'
<1>1. Codex!Waiting /\ conns[cand].inbox # <<>> /\ conns' = [conns EXCEPT ![cand] = Codex!Taken]
  BY DEF Codex!SkipFrame
<1> QED BY <1>1, TakenFrame, TrafficKeeps DEF CodexInv, CodexTypes, Codex!SkipFrame, Codex!scanVars

\* A scan that has come to a decision, or goes on with the next candidate.
LEMMA DecideRests ==
  ASSUME CodexInv, NEW read, (Codex!NextCandidate /\ UNCHANGED apiTodo) \/ Codex!Decide(read)
  PROVE  apiPc' \in {"idle", "next"} /\ apiTodo' \subseteq ServerPids /\ left' \subseteq Threads
BY DEF CodexInv, CodexTypes, Codex!Decide, Codex!NextCandidate

LEMMA FailureKeeps ==
  ASSUME CodexInv, Codex!ConnectionFails \/ Codex!ThreadFails
  PROVE  CodexInv'
<1>1. Codex!Waiting /\ Codex!Drop /\ UNCHANGED <<server, starts>>
  BY DEF Codex!ConnectionFails, Codex!ThreadFails, Codex!CallFails
<1>2. /\ conns' \in [ServerPids -> Codex!Connections \cup {Nothing}]
      /\ \A q \in ServerPids : conns'[q] = IF q = cand THEN Nothing ELSE conns[q]
      /\ SocketInv'
  BY <1>1, DropConnection DEF CodexInv
<1>3. \A q \in ServerPids : conns'[q] # Nothing => conns'[q].cached
  BY <1>2 DEF CodexInv, CachedInv
<1>4. (Codex!NextCandidate /\ UNCHANGED apiTodo) \/ Codex!Decide(got)
  BY DEF Codex!ConnectionFails, Codex!ThreadFails
<1>5. apiPc' \in {"idle", "next"} /\ apiTodo' \subseteq ServerPids /\ left' \subseteq Threads
  BY <1>4, DecideRests
<1> QED BY <1>1, <1>2, <1>3, <1>5, RestKeeps

\* An answer to the list or to a thread: the next thread is asked for, or the
\* candidate is done.
LEMMA ReadOrDecideKeeps ==
  ASSUME CodexInv, apiPc \in {"list", "read"}, Codex!Answered,
         NEW remaining \in SUBSET Threads, NEW read,
         Codex!ReadOrDecide(Codex!Taken, remaining, read),
         UNCHANGED <<server, starts, sockets>>
  PROVE  CodexInv'
<1>1. Codex!Waiting /\ conns[cand].inbox # <<>>
  BY ArrivedIsThere DEF Codex!Answered
<1>2. /\ cand \in ServerPids /\ conns[cand] # Nothing
      /\ Codex!Taken \in Codex!Connections /\ Codex!Taken.cached
  BY <1>1, TakenFrame DEF CodexInv, CachedInv
<1>3. CASE remaining = {}
  <2>1. conns' = [conns EXCEPT ![cand] = Codex!Taken] /\ Codex!Decide(read)
    BY <1>3 DEF Codex!ReadOrDecide
  <2>2. /\ conns' \in [ServerPids -> Codex!Connections \cup {Nothing}]
        /\ conns'[cand] = Codex!Taken /\ \A q \in ServerPids \ {cand} : conns'[q] = conns[q]
        /\ SocketInv'
    BY <1>2, <2>1, PutConnection DEF CodexInv
  <2>3. \A q \in ServerPids : conns'[q] # Nothing => conns'[q].cached
    BY <1>2, <2>2 DEF CodexInv, CachedInv
  <2>4. apiPc' \in {"idle", "next"} /\ apiTodo' \subseteq ServerPids /\ left' \subseteq Threads
    BY <2>1, DecideRests
  <2> QED BY <2>2, <2>3, <2>4, RestKeeps
<1>4. CASE remaining # {}
  <2>1. PICK t \in remaining :
          /\ conns' = [conns EXCEPT ![cand] = Codex!Request(Codex!Taken, t)]
          /\ apiPc' = "read" /\ asked' = t /\ left' = remaining \ {t}
          /\ UNCHANGED <<apiTodo, cand>>
    BY <1>4 DEF Codex!ReadOrDecide
  <2> DEFINE k == Codex!Request(Codex!Taken, t)
  <2>2. t \in Codex!Calls /\ t \in Threads
    BY DEF Codex!Calls
  <2>3. k \in Codex!Connections /\ k.cached /\ Fresh(k, t)
    BY <1>2, <2>2, RequestIsFresh
  <2> HIDE DEF k
  <2>4. Codex!Waiting' /\ Call' = t
    BY <2>1 DEF Codex!Waiting, Call
  <2>5. conns' = [conns EXCEPT ![cand] = k]
    BY <2>1 DEF k
  <2> QED BY <1>2, <2>1, <2>2, <2>3, <2>4, <2>5, CallKeeps DEF CodexInv, CodexTypes
<1> QED BY <1>3, <1>4

LEMMA AnswerReadKeeps ==
  ASSUME CodexInv, Codex!Listed \/ Codex!ThreadRead
  PROVE  CodexInv'
<1>1. Codex!Answered /\ Codex!Waiting /\ conns[cand].inbox # <<>>
  BY ArrivedIsThere DEF Codex!Listed, Codex!ThreadRead, Codex!Answered
<1>2. CASE Codex!Listed
  <2>1. Codex!Arrived.list \in SUBSET Threads
    BY <1>1, TakenFrame DEF Codex!Frames
  <2>2. Codex!ReadOrDecide(Codex!Taken, Codex!Arrived.list, Codex!NothingRead)
    BY <1>2 DEF Codex!Listed
  <2>3. apiPc = "list" /\ UNCHANGED <<server, starts, sockets>>
    BY <1>2 DEF Codex!Listed
  <2> QED BY <1>1, <2>1, <2>2, <2>3, ReadOrDecideKeeps
<1>3. CASE Codex!ThreadRead
  <2> DEFINE read == IF Codex!Arrived.value = "error" THEN got ELSE [got EXCEPT ![asked] = Codex!Arrived.value]
  <2>1. Codex!ReadOrDecide(Codex!Taken, left, read)
    BY <1>3 DEF Codex!ThreadRead
  <2>2. apiPc = "read" /\ UNCHANGED <<server, starts, sockets>>
    BY <1>3 DEF Codex!ThreadRead
  <2> HIDE DEF read
  <2> QED BY <1>1, <2>1, <2>2, ReadOrDecideKeeps DEF CodexInv, CodexTypes
<1> QED BY <1>2, <1>3

-----------------------------------------------------------------------------
(***************************************************************************)
(* The invariant, and what follows from it.                                *)
(***************************************************************************)
LEMMA CodexAtRest ==
  ASSUME CodexInv, UNCHANGED codexVars
  PROVE  CodexInv'
BY ServerKeeps DEF codexVars, CodexInv, CodexTypes

LEMMA CodexInvariant == Spec => []CodexInv
<1>1. Init => CodexInv
  <2> SUFFICES ASSUME Init PROVE CodexInv
    OBVIOUS
  <2>1. CodexTypes /\ FreshInv /\ CachedInv
    BY DEF Init, Codex!Init, CodexTypes, FreshInv, CachedInv, Codex!Waiting
  <2>2. sockets = 0 /\ Open = {}
    BY DEF Init, Codex!Init, Open
  <2> QED BY <2>1, <2>2, FS_EmptySet DEF CodexInv, SocketInv
<1>2. CodexInv /\ [Next]_vars => CodexInv'
  <2> SUFFICES ASSUME CodexInv, [Next]_vars PROVE CodexInv'
    OBVIOUS
  <2>1. CASE UNCHANGED codexVars
    BY <2>1, CodexAtRest
  <2>2. CASE Codex!Next
    <3>1. CASE \E p \in ServerPids : Codex!ServerStep(p) \/ Codex!ServerAnswers(p)
      BY <3>1, ServerStepKeeps, AnswerKeeps
    <3>2. CASE Codex!ScanStep
      BY <3>2, ScanBeginKeeps, DialKeeps, DialFailsOrScanEndKeeps, InitializedKeeps, SkipFrameKeeps,
         FailureKeeps, AnswerReadKeeps DEF Codex!ScanStep
    <3> QED BY <2>2, <3>1, <3>2 DEF Codex!Next
  <2> QED BY <2>1, <2>2 DEF Next, WithTty, WithCodex, vars
<1> QED BY <1>1, <1>2, PTL DEF Spec

\* No connection leaks, however often servers come, go, hang and are scanned: what is
\* open is what the source knows of, and between two calls it has been initialized
\* (activity_source_codex_app_server_api.go:161-210).
THEOREM NoConnectionLeaks == Spec => []NoConnectionLeak
<1>1. CodexInv => NoConnectionLeak
  <2> SUFFICES ASSUME CodexInv PROVE NoConnectionLeak
    OBVIOUS
  <2>1. sockets = Codex!Cardinality({p \in ServerPids : conns[p] # Nothing})
    BY SameFiniteSets DEF CodexInv, SocketInv, Open
  <2>2. apiPc \in {"idle", "next"} => \A p \in ServerPids : conns[p] # Nothing => conns[p].cached
    BY DEF CodexInv, CachedInv
  <2> QED BY <2>1, <2>2 DEF NoConnectionLeak, Codex!NoConnectionLeak
<1> QED BY <1>1, CodexInvariant, PTL

\* A call takes the answer to itself and to no other, whatever is still on its way on
\* a connection that is used again (codex_app_server_client.go:174-219).
THEOREM AnswersAreMatched == Spec => []AnswersMatch
<1>1. CodexInv => AnswersMatch
  <2> SUFFICES ASSUME CodexInv, Codex!Answered PROVE Codex!Arrived.of = Call
    BY DEF AnswersMatch, Codex!AnswersMatch, Call
  <2>1. Codex!Waiting /\ conns[cand].inbox # <<>>
    BY ArrivedIsThere DEF Codex!Answered
  <2> QED BY <2>1, TakenFrame DEF Codex!Answered
<1> QED BY <1>1, CodexInvariant, PTL

-----------------------------------------------------------------------------
(***************************************************************************)
(* The types: what is read of a thread is one of its stamps, because what  *)
(* answers for a thread never carries anything else, but an error.         *)
(***************************************************************************)
Sound(conn) ==
    \A i \in DOMAIN conn.inbox :
        conn.inbox[i].kind = "answer" /\ conn.inbox[i].of \in Threads
            => conn.inbox[i].value \in Codex!Stamps \cup {"error"}

SoundInv == \A p \in ServerPids : conns[p] # Nothing => Sound(conns[p])

ReadInv ==
    /\ got \in [Threads -> Codex!Stamps \cup {Nothing}]
    /\ apiPc = "read" => asked \notin left
    /\ result \in {"none", "active", "inactive"}

LEMMA ThreadsAreApart ==
  Threads \cap {"initialize", "list"} = {}
BY SourcesAssumption DEF SourcesAssumption, Codex!CodexAssumption

LEMMA RequestIsSound ==
  ASSUME NEW conn \in Codex!Connections, NEW method \in Codex!Calls, Sound(conn)
  PROVE  Sound(Codex!Request(conn, method))
<1> DEFINE box == Codex!Earlier(conn.inbox)
           k   == Codex!Request(conn, method)
<1>1. conn.inbox \in Seq(Codex!Frames)
  BY DEF Codex!Connections
<1>2. DOMAIN box = DOMAIN conn.inbox /\ \A i \in DOMAIN box : box[i] = [conn.inbox[i] EXCEPT !.now = FALSE]
  BY DEF Codex!Earlier
<1>3. k.inbox = box
  BY DEF Codex!Request, Codex!Connections
<1> HIDE DEF box, k
<1>4. ASSUME NEW i \in DOMAIN box
      PROVE  /\ i \in DOMAIN conn.inbox /\ box[i].kind = conn.inbox[i].kind
             /\ box[i].of = conn.inbox[i].of /\ box[i].value = conn.inbox[i].value
  <2>1. conn.inbox[i] \in Codex!Frames /\ i \in DOMAIN conn.inbox
    BY <1>1, <1>2
  <2>2. box[i] = [conn.inbox[i] EXCEPT !.now = FALSE]
    BY <1>2
  <2> QED BY <2>1, <2>2 DEF Codex!Frames
<1> QED BY <1>3, <1>4 DEF Sound, k

\* A frame more, which is sound itself.
LEMMA FrameIsSound ==
  ASSUME NEW conn \in Codex!Connections, NEW k, NEW frame \in Codex!Frames, Sound(conn),
         k.inbox = Append(conn.inbox, frame),
         frame.kind = "answer" /\ frame.of \in Threads => frame.value \in Codex!Stamps \cup {"error"}
  PROVE  Sound(k)
<1> DEFINE box == Append(conn.inbox, frame)
<1>1. conn.inbox \in Seq(Codex!Frames)
  BY DEF Codex!Connections
<1>2. \A i \in DOMAIN box : box[i] = frame \/ (i \in DOMAIN conn.inbox /\ box[i] = conn.inbox[i])
  BY <1>1
<1> HIDE DEF box
<1> QED BY <1>2 DEF Sound, box

\* What is left when a frame is taken is sound, and so is the frame.
LEMMA TakenIsSound ==
  ASSUME CodexInv, SoundInv, Codex!Waiting, conns[cand].inbox # <<>>
  PROVE  /\ Sound(Codex!Taken)
         /\ Codex!Arrived.kind = "answer" /\ Codex!Arrived.of \in Threads
              => Codex!Arrived.value \in Codex!Stamps \cup {"error"}
<1> DEFINE box == conns[cand].inbox
<1>1. cand \in ServerPids /\ conns[cand] \in Codex!Connections /\ Sound(conns[cand])
  BY DEF CodexInv, CodexTypes, SoundInv
<1>2. box \in Seq(Codex!Frames) /\ box # <<>>
  BY <1>1 DEF Codex!Connections
<1>3. /\ 1 \in DOMAIN box /\ Head(box) = box[1]
      /\ \A i \in DOMAIN Tail(box) : i + 1 \in DOMAIN box /\ Tail(box)[i] = box[i + 1]
  <2> HIDE DEF box
  <2> QED BY <1>2
<1>4. Codex!Arrived = Head(box)
  BY DEF Codex!Arrived
<1>5. Codex!Taken.inbox = Tail(box)
  BY <1>1 DEF Codex!Taken, Codex!Connections
<1> HIDE DEF box
<1> QED BY <1>1, <1>3, <1>4, <1>5 DEF Sound, box

\* One connection changes, to a sound one or to none.
LEMMA SoundPut ==
  ASSUME CodexTypes, SoundInv, NEW p \in ServerPids, NEW k, conns' = [conns EXCEPT ![p] = k],
         k # Nothing => Sound(k)
  PROVE  SoundInv'
<1>1. conns'[p] = k /\ \A q \in ServerPids \ {p} : conns'[q] = conns[q]
  BY DEF CodexTypes
<1> QED BY <1>1 DEF SoundInv

LEMMA ServerSound ==
  ASSUME CodexInv, SoundInv, NEW p \in ServerPids, Codex!ServerStep(p) \/ Codex!ServerAnswers(p)
  PROVE  SoundInv'
<1>1. CASE UNCHANGED conns
  BY <1>1 DEF SoundInv
<1>2. CASE \E kind \in {"noise", "request"} : Codex!ServerChatters(p, kind)
  <2>1. PICK kind \in {"noise", "request"} :
          conns' = [conns EXCEPT ![p].inbox = Append(@, Codex!Chatter(kind))] /\ Codex!Connected(p)
    BY <1>2 DEF Codex!ServerChatters
  <2>2. conns[p] \in Codex!Connections /\ conns[p] # Nothing
    BY <2>1 DEF Codex!Connected, CodexInv, CodexTypes
  <2> DEFINE k == [conns[p] EXCEPT !.inbox = Append(conns[p].inbox, Codex!Chatter(kind))]
  <2>3. conns' = [conns EXCEPT ![p] = k]
    BY <2>1 DEF CodexInv, CodexTypes
  <2>4. k.inbox = Append(conns[p].inbox, Codex!Chatter(kind))
    BY <2>2 DEF Codex!Connections
  <2>5. Codex!Chatter(kind) \in Codex!Frames /\ Codex!Chatter(kind).kind # "answer"
    BY DEF Codex!Chatter, Codex!Frames
  <2> HIDE DEF k
  <2>6. Sound(k)
    BY <2>2, <2>4, <2>5, FrameIsSound DEF SoundInv
  <2> QED BY <2>3, <2>6, SoundPut DEF CodexInv
<1>3. CASE Codex!ServerAnswers(p)
  <2> DEFINE r == Head(conns[p].requests)
             frame == Codex!AnswerTo(p, r)
             k == [conns[p] EXCEPT !.requests = Tail(conns[p].requests), !.inbox = Append(conns[p].inbox, frame)]
  <2>1. /\ conns[p] \in Codex!Connections /\ conns[p] # Nothing /\ server[p] \in Servers
        /\ conns' = [conns EXCEPT ![p] = k] /\ conns[p].requests # <<>>
    BY <1>3 DEF Codex!ServerAnswers, Codex!Connected, Codex!Running, CodexInv, CodexTypes
  <2>2. k.inbox = Append(conns[p].inbox, frame)
    BY <2>1 DEF Codex!Connections
  <2>3. r \in Codex!Requests
    <3>1. conns[p].requests \in Seq(Codex!Requests)
      BY <2>1 DEF Codex!Connections
    <3> QED BY <2>1, <3>1
  <2> HIDE DEF r
  <2>4. r.of \in Codex!Loaded(p) => r.of \in Threads /\ server[p].threads[r.of] \in Codex!Stamps
    BY <2>1 DEF Codex!Loaded, Servers
  <2>5. frame.kind = "answer" /\ frame.of = r.of
    BY DEF Codex!AnswerTo
  <2>6. r.of \in Threads => frame.value \in Codex!Stamps \cup {"error"}
    BY <2>4, ThreadsAreApart DEF Codex!AnswerTo
  <2>7. frame.value \in {"ok", "error"} \cup Codex!Stamps
    BY <2>4 DEF Codex!AnswerTo
  <2>8. frame \in Codex!Frames
    <3>1. Codex!Loaded(p) \in SUBSET Threads
      BY DEF Codex!Loaded
    <3>2. (IF r.of = "list" THEN Codex!Loaded(p) ELSE {}) \in SUBSET Threads
      BY <3>1
    <3>3. r.now \in BOOLEAN /\ r.of \in Codex!Calls
      BY <2>3 DEF Codex!Requests
    <3>4. frame = [kind |-> "answer", now |-> r.now, of |-> r.of, value |-> frame.value,
                   list |-> IF r.of = "list" THEN Codex!Loaded(p) ELSE {}]
      BY DEF Codex!AnswerTo
    <3> HIDE DEF frame
    <3> QED BY <2>7, <3>2, <3>3, <3>4 DEF Codex!Frames
  <2> HIDE DEF frame, k
  <2>9. Sound(k)
    BY <2>1, <2>2, <2>5, <2>6, <2>8, FrameIsSound DEF SoundInv
  <2> QED BY <2>1, <2>9, SoundPut DEF CodexInv
<1> QED BY <1>1, <1>2, <1>3 DEF Codex!ServerStep, Codex!ServerStarts, Codex!ServerExits, Codex!ServerHangs,
     Codex!ThreadChanges

\* A scan that goes on, or has come to a decision, has read nothing yet.
LEMMA DecideReads ==
  ASSUME ReadInv, NEW read, (Codex!NextCandidate /\ UNCHANGED result) \/ Codex!Decide(read)
  PROVE  ReadInv'
<1>1. Codex!NothingRead \in [Threads -> Codex!Stamps \cup {Nothing}]
  BY DEF Codex!NothingRead
<1>2. got' = Codex!NothingRead /\ apiPc' # "read" /\ result' \in {result, "active"}
  BY DEF Codex!Decide, Codex!NextCandidate
<1> QED BY <1>1, <1>2 DEF ReadInv

LEMMA ReadOrDecideReads ==
  ASSUME CodexInv, SoundInv, ReadInv, Codex!Answered,
         NEW remaining \in SUBSET Threads, NEW read \in [Threads -> Codex!Stamps \cup {Nothing}],
         Codex!ReadOrDecide(Codex!Taken, remaining, read)
  PROVE  SoundInv' /\ ReadInv'
<1>1. Codex!Waiting /\ conns[cand].inbox # <<>>
  BY ArrivedIsThere DEF Codex!Answered
<1>2. /\ cand \in ServerPids /\ Codex!Taken \in Codex!Connections /\ Sound(Codex!Taken)
  BY <1>1, TakenFrame, TakenIsSound
<1>3. CASE remaining = {}
  <2>1. conns' = [conns EXCEPT ![cand] = Codex!Taken] /\ Codex!Decide(read)
    BY <1>3 DEF Codex!ReadOrDecide
  <2> QED BY <1>2, <2>1, SoundPut, DecideReads DEF CodexInv
<1>4. CASE remaining # {}
  <2>1. PICK t \in remaining :
          /\ conns' = [conns EXCEPT ![cand] = Codex!Request(Codex!Taken, t)]
          /\ apiPc' = "read" /\ asked' = t /\ left' = remaining \ {t} /\ got' = read
          /\ UNCHANGED result
    BY <1>4 DEF Codex!ReadOrDecide
  <2>2. t \in Codex!Calls
    BY DEF Codex!Calls
  <2>3. Sound(Codex!Request(Codex!Taken, t))
    BY <1>2, <2>2, RequestIsSound
  <2> QED BY <1>2, <2>1, <2>3, SoundPut DEF CodexInv, ReadInv
<1> QED BY <1>3, <1>4

LEMMA ScanReads ==
  ASSUME CodexInv, SoundInv, ReadInv, Codex!ScanStep
  PROVE  SoundInv' /\ ReadInv'
<1>1. CASE Codex!ScanBegin
  BY <1>1 DEF Codex!ScanBegin, SoundInv, ReadInv
<1>2. CASE Codex!UseCached
  <2>1. Codex!First \in ServerPids /\ conns[Codex!First] # Nothing
    BY <1>2, FirstCandidate DEF CodexInv, Codex!UseCached
  <2>2. conns[Codex!First] \in Codex!Connections /\ Sound(conns[Codex!First]) /\ "list" \in Codex!Calls
    BY <2>1 DEF CodexInv, CodexTypes, SoundInv, Codex!Calls
  <2>3. Sound(Codex!Request(conns[Codex!First], "list"))
    BY <2>2, RequestIsSound
  <2>4. conns' = [conns EXCEPT ![Codex!First] = Codex!Request(conns[Codex!First], "list")]
    BY <1>2 DEF Codex!UseCached
  <2>5. SoundInv'
    BY <2>1, <2>3, <2>4, SoundPut DEF CodexInv
  <2> QED BY <1>2, <2>5 DEF Codex!UseCached, ReadInv
<1>3. CASE Codex!Dial
  <2>1. Codex!First \in ServerPids /\ server[Codex!First] \in Servers
    BY <1>3, FirstCandidate DEF CodexInv, CodexTypes, Codex!Dial, Codex!Running
  <2>2. Codex!Connect(Codex!First) \in Codex!Connections /\ Sound(Codex!Connect(Codex!First))
    <3>1. <<>> \in Seq(Codex!Requests) /\ <<>> \in Seq(Codex!Frames) /\ DOMAIN <<>> = {}
      OBVIOUS
    <3> QED BY <2>1, <3>1 DEF Servers, Codex!Connect, Codex!Connections, Sound
  <2>3. Sound(Codex!Request(Codex!Connect(Codex!First), "initialize"))
    BY <2>2, RequestIsSound DEF Codex!Calls
  <2>4. conns' = [conns EXCEPT ![Codex!First] = Codex!Request(Codex!Connect(Codex!First), "initialize")]
    BY <1>3 DEF Codex!Dial
  <2>5. SoundInv'
    BY <2>1, <2>3, <2>4, SoundPut DEF CodexInv
  <2> QED BY <1>3, <2>5 DEF Codex!Dial, ReadInv
<1>4. CASE Codex!DialFails \/ Codex!ScanEnd
  BY <1>4 DEF Codex!DialFails, Codex!ScanEnd, SoundInv, ReadInv
<1>5. CASE Codex!Initialized
  <2>1. Codex!Waiting /\ conns[cand].inbox # <<>>
    BY <1>5, ArrivedIsThere DEF Codex!Initialized, Codex!Waiting
  <2> DEFINE conn == [Codex!Taken EXCEPT !.cached = TRUE]
  <2>2. Codex!Taken \in Codex!Connections /\ Sound(Codex!Taken) /\ cand \in ServerPids
    BY <2>1, TakenFrame, TakenIsSound
  <2>3. conn \in Codex!Connections /\ conn.inbox = Codex!Taken.inbox
    BY <2>2 DEF Codex!Connections
  <2>4. conns' = [conns EXCEPT ![cand] = Codex!Request(conn, "list")]
    BY <1>5 DEF Codex!Initialized
  <2> HIDE DEF conn
  <2>5. Sound(conn)
    BY <2>2, <2>3 DEF Sound
  <2>6. Sound(Codex!Request(conn, "list"))
    BY <2>3, <2>5, RequestIsSound DEF Codex!Calls
  <2>7. SoundInv'
    BY <2>2, <2>4, <2>6, SoundPut DEF CodexInv
  <2> QED BY <1>5, <2>7 DEF Codex!Initialized, ReadInv
<1>6. CASE Codex!SkipFrame
  <2>1. Codex!Waiting /\ conns[cand].inbox # <<>> /\ conns' = [conns EXCEPT ![cand] = Codex!Taken]
    BY <1>6 DEF Codex!SkipFrame
  <2>2. cand \in ServerPids /\ Sound(Codex!Taken)
    BY <2>1, TakenFrame, TakenIsSound
  <2>3. SoundInv'
    BY <2>1, <2>2, SoundPut DEF CodexInv
  <2> QED BY <1>6, <2>3 DEF Codex!SkipFrame, Codex!scanVars, ReadInv
<1>7. CASE Codex!ConnectionFails \/ Codex!ThreadFails
  <2>1. Codex!Waiting /\ Codex!Drop
    BY <1>7 DEF Codex!ConnectionFails, Codex!ThreadFails, Codex!CallFails
  <2>2. cand \in ServerPids /\ conns' = [conns EXCEPT ![cand] = Nothing]
    BY <2>1 DEF CodexInv, CodexTypes, Codex!Drop
  <2>3. SoundInv'
    BY <2>2, SoundPut DEF CodexInv
  <2>4. (Codex!NextCandidate /\ UNCHANGED result) \/ Codex!Decide(got)
    BY <1>7 DEF Codex!ConnectionFails, Codex!ThreadFails
  <2> QED BY <2>3, <2>4, DecideReads
<1>8. CASE Codex!Listed
  <2>1. Codex!Answered /\ Codex!ReadOrDecide(Codex!Taken, Codex!Arrived.list, Codex!NothingRead)
    BY <1>8 DEF Codex!Listed
  <2>2. Codex!Waiting /\ conns[cand].inbox # <<>>
    BY <2>1, ArrivedIsThere DEF Codex!Answered
  <2>3. Codex!Arrived.list \in SUBSET Threads
    BY <2>2, TakenFrame DEF Codex!Frames
  <2>4. Codex!NothingRead \in [Threads -> Codex!Stamps \cup {Nothing}]
    BY DEF Codex!NothingRead
  <2> QED BY <2>1, <2>3, <2>4, ReadOrDecideReads
<1>9. CASE Codex!ThreadRead
  <2> DEFINE read == IF Codex!Arrived.value = "error" THEN got ELSE [got EXCEPT ![asked] = Codex!Arrived.value]
  <2>1. apiPc = "read" /\ Codex!Answered /\ Codex!ReadOrDecide(Codex!Taken, left, read)
    BY <1>9 DEF Codex!ThreadRead
  <2>2. Codex!Waiting /\ conns[cand].inbox # <<>>
    BY <2>1, ArrivedIsThere DEF Codex!Answered
  <2>3. asked \in Threads /\ left \in SUBSET Threads
    BY <2>1 DEF CodexInv, CodexTypes
  <2>4. Codex!Arrived.of = asked
    BY <2>1, <2>2, TakenFrame DEF Codex!Answered, Call
  <2>5. Codex!Arrived.value \in Codex!Stamps \cup {"error"}
    BY <2>1, <2>2, <2>3, <2>4, TakenIsSound DEF Codex!Answered
  <2>6. read \in [Threads -> Codex!Stamps \cup {Nothing}]
    BY <2>3, <2>5 DEF ReadInv
  <2> HIDE DEF read
  <2> QED BY <2>1, <2>3, <2>6, ReadOrDecideReads
<1> QED BY <1>1, <1>2, <1>3, <1>4, <1>5, <1>6, <1>7, <1>8, <1>9 DEF Codex!ScanStep

LEMMA CodexReads == Spec => [](SoundInv /\ ReadInv)
<1>1. Init => SoundInv /\ ReadInv
  BY DEF Init, Codex!Init, SoundInv, ReadInv, Codex!NothingRead
<1>2. CodexInv /\ (SoundInv /\ ReadInv) /\ [Next]_vars => (SoundInv /\ ReadInv)'
  <2> SUFFICES ASSUME CodexInv, SoundInv, ReadInv, [Next]_vars PROVE SoundInv' /\ ReadInv'
    OBVIOUS
  <2>1. CASE UNCHANGED codexVars
    BY <2>1 DEF codexVars, SoundInv, ReadInv
  <2>2. CASE \E p \in ServerPids : Codex!ServerStep(p) \/ Codex!ServerAnswers(p)
    <3>1. UNCHANGED <<apiPc, asked, left, got, result>>
      BY <2>2 DEF Codex!ServerStep, Codex!ServerStarts, Codex!ServerExits, Codex!ServerHangs,
         Codex!ThreadChanges, Codex!ServerChatters, Codex!ServerAnswers, Codex!scanVars
    <3>2. ReadInv'
      BY <3>1 DEF ReadInv
    <3> QED BY <2>2, <3>2, ServerSound
  <2>3. CASE Codex!ScanStep
    BY <2>3, ScanReads
  <2> QED BY <2>1, <2>2, <2>3 DEF Next, WithTty, WithCodex, vars, Codex!Next
<1> QED BY <1>1, <1>2, CodexInvariant, PTL DEF Spec

LEMMA CodexTypeCorrect == Spec => []Codex!TypeOK
<1>1. ASSUME CodexInv, ReadInv PROVE Codex!TypeOK
  BY <1>1 DEF CodexInv, CodexTypes, ReadInv, Codex!TypeOK
<1> QED BY <1>1, CodexInvariant, CodexReads, PTL

-----------------------------------------------------------------------------
(***************************************************************************)
(* The tty activity source.                                                *)
(***************************************************************************)
Commands  == [name : STRING, fg : BOOLEAN, wait : {"tty", "poll", "nothing"}, tty : BOOLEAN]
Names     == {Tty!None, "sh"} \cup {kind.name : kind \in Kinds}
Processes == [name : Names, fg : BOOLEAN, wait : {"tty", "poll", "nothing"},
              tty : Terminals \cup {NoTty}, parent : Nat, born : Nat, id : Nat, ticks : Nat, used : Nat]
Samples   == [ticks : Nat, at : Nat, id : Nat]
Subjects  == [pid : Tty!AllPids, name : Names, id : Nat]

TtyTypes ==
    /\ now \in Nat /\ spawned \in Nat /\ peak \in Nat
    /\ proc \in [Tty!AllPids -> Processes \cup {Nothing}]
    /\ cpuCache \in [Tty!AllPids -> Samples \cup {Nothing}]
    /\ pc \in {"idle", "identify", "judge"}
    /\ todo \subseteq Pids /\ subject \in Subjects

\* Processes are numbered as they start, and use the CPU in the past.
NumbersInv ==
    /\ \A p \in Tty!AllPids : proc[p] # Nothing => proc[p].used <= now /\ proc[p].id <= spawned
    /\ \A p \in Tty!AllPids : cpuCache[p] # Nothing => cpuCache[p].id <= spawned
    /\ subject.id <= spawned

\* What the last sample of a process says of it is still true, or the process has
\* used the CPU since.
SampleInv ==
    \A p \in Tty!AllPids :
        proc[p] # Nothing /\ cpuCache[p] # Nothing /\ cpuCache[p].id = proc[p].id =>
            /\ cpuCache[p].ticks <= proc[p].ticks
            /\ proc[p].ticks > cpuCache[p].ticks \/ proc[p].used <= cpuCache[p].at

\* The process under examination has the name it was identified by.
SubjectInv ==
    pc = "judge" =>
        /\ subject.pid \in Pids
        /\ proc[subject.pid] # Nothing /\ proc[subject.pid].id = subject.id
             => proc[subject.pid].name = subject.name

Sampled == {p \in Tty!AllPids : cpuCache[p] # Nothing}

BoundInv ==
    /\ Sampled \subseteq Pids
    /\ Cardinality(Tty!Visible) <= peak
    /\ Cardinality(Sampled) <= Tty!AtLeast(peak, CleanupAt)

TtyInv == TtyTypes /\ NumbersInv /\ SampleInv /\ SubjectInv /\ BoundInv

-----------------------------------------------------------------------------
(***************************************************************************)
(* Constants and sets.                                                     *)
(***************************************************************************)
\* FiniteSets are those of the instance.
LEMMA TtyFiniteSets ==
  \A S : (Tty!IsFiniteSet(S) <=> IsFiniteSet(S)) /\ Tty!Cardinality(S) = Cardinality(S)
BY DEF Tty!IsFiniteSet, IsFiniteSet, Tty!Cardinality, Cardinality

LEMMA TtyConstants ==
  /\ IsFiniteSet(Pids) /\ Pids \subseteq Nat /\ Pids \subseteq Tty!AllPids
  /\ Main \in Nat /\ Shell \in Nat /\ Main \notin Pids /\ Shell \notin Pids
  /\ Main \in Tty!AllPids /\ Shell \in Tty!AllPids /\ Tty!AllPids \subseteq Nat
  /\ CleanupAt \in Nat /\ Window \in Nat /\ Grace \in Nat /\ MaxAge \in Nat
  /\ Kinds \subseteq Commands
BY SourcesAssumption, TtyFiniteSets DEF SourcesAssumption, Tty!TtyAssumption, Tty!AllPids, Commands

LEMMA NoSubjectIsOne ==
  Tty!NoSubject \in Subjects /\ Tty!NoSubject.id = 0
BY TtyConstants DEF Subjects, Names, Tty!NoSubject

LEMMA VisibleProcesses ==
  /\ Tty!Visible = {p \in Pids : proc[p] # Nothing}
  /\ IsFiniteSet(Tty!Visible) /\ Cardinality(Tty!Visible) \in Nat
<1>1. Tty!Visible = {p \in Pids : proc[p] # Nothing}
  BY TtyConstants DEF Tty!Visible, Tty!Live, Tty!Alive
<1>2. IsFiniteSet({p \in Pids : proc[p] # Nothing})
  BY TtyConstants, FS_Subset
<1> QED BY <1>1, <1>2, FS_CardinalityType

\* With fewer processes than before there is nothing to do for the bound.
LEMMA BoundKeeps ==
  ASSUME TtyTypes, BoundInv, UNCHANGED <<cpuCache, peak>>,
         \A q \in Pids : proc'[q] # Nothing => proc[q] # Nothing
  PROVE  BoundInv'
<1>1. Tty!Visible' \subseteq Tty!Visible
  BY TtyConstants, VisibleProcesses DEF Tty!Visible, Tty!Live, Tty!Alive
<1>2. Cardinality(Tty!Visible') <= Cardinality(Tty!Visible) /\ Cardinality(Tty!Visible') \in Nat
  BY <1>1, VisibleProcesses, FS_Subset, FS_CardinalityType
<1>3. Sampled' = Sampled
  BY DEF Sampled
<1> QED BY <1>2, <1>3, VisibleProcesses DEF BoundInv, TtyTypes

-----------------------------------------------------------------------------
(***************************************************************************)
(* The processes and the users.                                            *)
(***************************************************************************)
LEMMA SpawnKeeps ==
  ASSUME TtyInv, NEW p \in Pids, NEW parent \in Tty!AllPids, NEW kind \in Kinds,
         Tty!Spawn(p, parent, kind)
  PROVE  TtyInv'
<1> DEFINE tty == IF kind.tty THEN proc[parent].tty ELSE NoTty
           new == Tty!Process(kind, parent, tty, spawned + 1)
<1>1. kind \in Commands /\ p \in Tty!AllPids /\ parent \in Nat
  BY TtyConstants
<1>2. proc[parent] \in Processes
  BY DEF TtyInv, TtyTypes, Tty!Spawn, Tty!Alive
<1>3. new \in Processes /\ new.id = spawned + 1 /\ new.used = now
  <2>1. kind.name \in Names
    BY DEF Names
  <2> QED BY <1>1, <1>2, <2>1 DEF TtyInv, TtyTypes, Tty!Process, Processes, Commands
<1> HIDE DEF new
<1>4. /\ proc' = [proc EXCEPT ![p] = new] /\ spawned' = spawned + 1 /\ proc[p] = Nothing
      /\ Tty!Peak /\ UNCHANGED <<now, cpuCache, pc, todo, subject>>
  BY DEF Tty!Spawn, Tty!Alive, Tty!scanVars, new
<1>5. /\ proc' \in [Tty!AllPids -> Processes \cup {Nothing}]
      /\ proc'[p] = new /\ \A q \in Tty!AllPids \ {p} : proc'[q] = proc[q]
  BY <1>1, <1>3, <1>4 DEF TtyInv, TtyTypes
<1>6. /\ IsFiniteSet(Tty!Visible') /\ Cardinality(Tty!Visible') \in Nat
  <2>1. Tty!Visible' \subseteq Pids
    BY DEF Tty!Visible
  <2> QED BY <2>1, TtyConstants, FS_Subset, FS_CardinalityType
<1>7. peak' \in Nat /\ peak <= peak' /\ Cardinality(Tty!Visible') <= peak'
  BY <1>4, <1>6, TtyFiniteSets DEF TtyInv, TtyTypes, Tty!Peak, Tty!AtLeast
<1>8. TtyTypes'
  BY <1>4, <1>5, <1>7 DEF TtyInv, TtyTypes
<1>9. NumbersInv'
  <2>1. subject.id \in Nat
    BY DEF TtyInv, TtyTypes, Subjects
  <2>2. \A q \in Tty!AllPids : proc[q] # Nothing => proc[q].id \in Nat
    BY DEF TtyInv, TtyTypes, Processes
  <2>3. \A q \in Tty!AllPids : cpuCache[q] # Nothing => cpuCache[q].id \in Nat
    BY DEF TtyInv, TtyTypes, Samples
  <2> QED BY <1>3, <1>4, <1>5, <2>1, <2>2, <2>3 DEF TtyInv, TtyTypes, NumbersInv
<1>10. SampleInv'
  <2>1. cpuCache[p] # Nothing => cpuCache[p].id <= spawned /\ cpuCache[p].id \in Nat /\ spawned \in Nat
    BY <1>1 DEF TtyInv, TtyTypes, Samples, NumbersInv
  <2>2. cpuCache[p] # Nothing => cpuCache[p].id # new.id
    BY <1>3, <2>1
  <2> QED BY <1>4, <1>5, <2>2 DEF TtyInv, SampleInv
<1>11. SubjectInv'
  <2>1. subject.id # new.id
    BY <1>3 DEF TtyInv, TtyTypes, NumbersInv, Subjects
  <2> QED BY <1>4, <1>5, <2>1, TtyConstants DEF TtyInv, SubjectInv
<1>12. BoundInv'
  <2>1. Sampled' = Sampled
    BY <1>4 DEF Sampled
  <2>2. IsFiniteSet(Sampled) /\ Cardinality(Sampled) \in Nat
    BY TtyConstants, FS_Subset, FS_CardinalityType DEF TtyInv, BoundInv
  <2> QED BY <1>7, <2>1, <2>2, TtyConstants DEF TtyInv, TtyTypes, BoundInv, Tty!AtLeast
<1> QED BY <1>8, <1>9, <1>10, <1>11, <1>12 DEF TtyInv

LEMMA ExitKeeps ==
  ASSUME TtyInv, NEW p \in Tty!AllPids, Tty!Exit(p)
  PROVE  TtyInv'
<1>1. UNCHANGED <<now, spawned, cpuCache, peak, pc, todo, subject>>
  BY DEF Tty!Exit, Tty!scanVars
<1>2. ASSUME NEW q \in Tty!AllPids
      PROVE  /\ proc'[q] \in Processes \cup {Nothing}
             /\ proc'[q] # Nothing => /\ proc[q] # Nothing
                                      /\ proc'[q].id = proc[q].id /\ proc'[q].name = proc[q].name
                                      /\ proc'[q].ticks = proc[q].ticks /\ proc'[q].used = proc[q].used
  <2>1. proc'[q] = IF q = p \/ ~Tty!Alive(q) THEN IF q = p THEN Nothing ELSE proc[q]
                   ELSE IF proc[q].parent = p THEN [proc[q] EXCEPT !.parent = 1] ELSE proc[q]
    BY DEF Tty!Exit
  <2>2. proc[q] \in Processes \cup {Nothing}
    BY DEF TtyInv, TtyTypes
  <2>3. CASE q = p \/ proc[q] = Nothing
    BY <2>1, <2>2, <2>3 DEF Tty!Alive
  <2>4. CASE q # p /\ proc[q] # Nothing
    <3>1. proc[q] \in Processes
      BY <2>2, <2>4
    <3>2. proc'[q] = [proc[q] EXCEPT !.parent = 1] \/ proc'[q] = proc[q]
      BY <2>1, <2>4 DEF Tty!Alive
    <3> QED BY <2>4, <3>1, <3>2 DEF Processes
  <2> QED BY <2>3, <2>4
<1>3. proc' \in [Tty!AllPids -> Processes \cup {Nothing}]
  <2>1. DOMAIN proc' = Tty!AllPids /\ proc' = [q \in Tty!AllPids |-> proc'[q]]
    BY DEF Tty!Exit
  <2> QED BY <1>2, <2>1
<1>4. TtyTypes'
  BY <1>1, <1>3 DEF TtyInv, TtyTypes
<1>5. NumbersInv'
  BY <1>1, <1>2 DEF TtyInv, NumbersInv
<1>6. SampleInv'
  BY <1>1, <1>2 DEF TtyInv, SampleInv
<1>7. SubjectInv'
  BY <1>1, <1>2, TtyConstants DEF TtyInv, SubjectInv
<1>8. BoundInv'
  BY <1>1, <1>2, BoundKeeps, TtyConstants DEF TtyInv
<1> QED BY <1>4, <1>5, <1>6, <1>7, <1>8 DEF TtyInv

LEMMA ComputeKeeps ==
  ASSUME TtyInv, NEW p \in Pids, Tty!Compute(p)
  PROVE  TtyInv'
<1>1. UNCHANGED <<now, spawned, cpuCache, peak, pc, todo, subject>>
  BY DEF Tty!Compute, Tty!scanVars
<1>2. p \in Tty!AllPids /\ proc[p] \in Processes /\ proc[p] # Nothing
  BY TtyConstants DEF TtyInv, TtyTypes, Tty!Compute, Tty!Alive
<1> DEFINE new == [proc[p] EXCEPT !.ticks = @ + 1, !.used = now]
<1>3. /\ new \in Processes /\ new.ticks = proc[p].ticks + 1 /\ new.used = now
      /\ new.id = proc[p].id /\ new.name = proc[p].name
      /\ proc[p].ticks \in Nat
  <2>1. proc[p].ticks \in Nat /\ proc[p].ticks + 1 \in Nat /\ now \in Nat
    BY <1>2 DEF TtyInv, TtyTypes, Processes
  <2> DEFINE n == proc[p].ticks + 1
  <2>2. new = [proc[p] EXCEPT !.ticks = n, !.used = now]
    OBVIOUS
  <2> HIDE DEF n, new
  <2>3. new \in Processes /\ new.ticks = n /\ new.used = now /\ new.id = proc[p].id /\ new.name = proc[p].name
    BY <1>2, <2>1, <2>2 DEF Processes, n
  <2> QED BY <2>1, <2>3 DEF n
<1>4. proc' = [proc EXCEPT ![p] = new]
  BY DEF Tty!Compute
<1> HIDE DEF new
<1>5. /\ proc' \in [Tty!AllPids -> Processes \cup {Nothing}]
      /\ proc'[p] = new /\ \A q \in Tty!AllPids \ {p} : proc'[q] = proc[q]
  BY <1>2, <1>3, <1>4 DEF TtyInv, TtyTypes
<1>6. TtyTypes'
  BY <1>1, <1>5 DEF TtyInv, TtyTypes
<1>7. NumbersInv'
  BY <1>1, <1>2, <1>3, <1>5 DEF TtyInv, TtyTypes, NumbersInv
<1>8. SampleInv'
  <2>1. cpuCache[p] # Nothing => cpuCache[p].ticks \in Nat
    BY <1>2 DEF TtyInv, TtyTypes, Samples
  <2>2. ASSUME cpuCache[p] # Nothing, cpuCache[p].id = new.id
        PROVE  cpuCache[p].ticks <= new.ticks /\ new.ticks > cpuCache[p].ticks
    <3>1. cpuCache[p].ticks <= proc[p].ticks
      BY <1>2, <1>3, <2>2 DEF TtyInv, SampleInv
    <3> QED BY <1>3, <2>1, <2>2, <3>1
  <2> QED BY <1>1, <1>5, <2>2 DEF TtyInv, SampleInv
<1>9. SubjectInv'
  BY <1>1, <1>2, <1>3, <1>5, TtyConstants DEF TtyInv, SubjectInv
<1>10. BoundInv'
  BY <1>1, <1>2, <1>5, BoundKeeps, TtyConstants DEF TtyInv
<1> QED BY <1>6, <1>7, <1>8, <1>9, <1>10 DEF TtyInv

LEMMA PassKeeps ==
  ASSUME TtyInv, Tty!Pass \/ \E t \in Terminals : Tty!ReadTerminal(t)
  PROVE  TtyInv'
<1>1. /\ now' \in {now, now + 1}
      /\ UNCHANGED <<proc, spawned, cpuCache, peak, pc, todo, subject>>
  BY DEF Tty!Pass, Tty!ReadTerminal, Tty!scanVars
<1>2. TtyTypes'
  BY <1>1 DEF TtyInv, TtyTypes
<1>3. NumbersInv'
  <2>1. \A q \in Tty!AllPids : proc[q] # Nothing => proc[q].used \in Nat
    BY DEF TtyInv, TtyTypes, Processes
  <2> QED BY <1>1, <2>1 DEF TtyInv, TtyTypes, NumbersInv
<1>4. SampleInv' /\ SubjectInv'
  BY <1>1 DEF TtyInv, SampleInv, SubjectInv
<1>5. BoundInv'
  BY <1>1, BoundKeeps DEF TtyInv
<1> QED BY <1>2, <1>3, <1>4, <1>5 DEF TtyInv

-----------------------------------------------------------------------------
(***************************************************************************)
(* The scan.                                                               *)
(***************************************************************************)
LEMMA ScanKeeps ==
  ASSUME TtyInv, Tty!ScanBegin \/ Tty!Identify \/ Tty!ScanEnd
  PROVE  TtyInv'
<1>1. UNCHANGED <<now, proc, spawned, cpuCache, peak>>
  BY DEF Tty!ScanBegin, Tty!Identify, Tty!ScanEnd
<1>2. BoundInv' /\ SampleInv'
  BY <1>1, BoundKeeps DEF TtyInv, SampleInv
<1>3. CASE UNCHANGED subject /\ pc' # "judge" /\ pc' \in {"idle", "identify"} /\ todo' \subseteq Pids
  BY <1>1, <1>2, <1>3 DEF TtyInv, TtyTypes, NumbersInv, SubjectInv
<1>4. CASE Tty!Identify /\ Tty!Passes(Tty!NextPid)
  <2> DEFINE p == Tty!NextPid
  <2>1. /\ pc' = "judge" /\ todo # {} /\ todo' = todo \ {p}
        /\ subject' = [pid |-> p, name |-> proc[p].name, id |-> proc[p].id]
    BY <1>4 DEF Tty!Identify
  <2>2. p \in Tty!AllPids /\ proc[p] # Nothing
    BY <1>4 DEF Tty!Passes, Tty!isUserInitiatedProcess, Tty!processHasTTY, Tty!Live, Tty!Alive
  <2>3. p \in Pids
    <3>1. todo \subseteq Nat /\ todo \subseteq Pids
      BY TtyConstants DEF TtyInv, TtyTypes
    <3>2. \E x \in todo : \A y \in todo : x <= y
      BY <2>1, <3>1, FirstOfPids
    <3> QED BY <3>1, <3>2 DEF Tty!NextPid
  <2>4. proc[p] \in Processes /\ proc[p].id <= spawned
    BY <2>2 DEF TtyInv, TtyTypes, NumbersInv
  <2> HIDE DEF p
  <2>5. subject' \in Subjects /\ subject'.pid = p /\ subject'.name = proc[p].name /\ subject'.id = proc[p].id
    BY <2>1, <2>2, <2>4 DEF Subjects, Processes
  <2>6. TtyTypes' /\ NumbersInv' /\ SubjectInv'
    BY <1>1, <2>1, <2>3, <2>4, <2>5 DEF TtyInv, TtyTypes, NumbersInv, SubjectInv
  <2> QED BY <1>2, <2>6 DEF TtyInv
<1>5. CASE ~(Tty!Identify /\ Tty!Passes(Tty!NextPid))
  <2>1. UNCHANGED subject /\ pc' # "judge" /\ pc' \in {"idle", "identify"} /\ todo' \subseteq Pids
    BY <1>5 DEF TtyInv, TtyTypes, Tty!ScanBegin, Tty!Identify, Tty!ScanEnd, Tty!Visible
  <2> QED BY <1>3, <2>1
<1> QED BY <1>4, <1>5

\* What a sample does to the cache: entries may go, and that of p becomes what it
\* has to be; there are more than before only when few were kept.
LEMMA SampleEffect ==
  ASSUME TtyInv, NEW p \in Pids
  PROVE  /\ Tty!Sample(p) \in [Tty!AllPids -> Samples \cup {Nothing}]
         /\ \A q \in Tty!AllPids \ {p} : Tty!Sample(p)[q] \in {cpuCache[q], Nothing}
         /\ \/ Tty!Sample(p)[p] \in {cpuCache[p], Nothing}
            \/ /\ proc[p] # Nothing
               /\ Tty!Sample(p)[p].ticks = proc[p].ticks /\ Tty!Sample(p)[p].at = now
               /\ Tty!Sample(p)[p].id \in {proc[p].id, cpuCache[p].id}
               /\ cpuCache[p] = Nothing => Tty!Sample(p)[p].id = proc[p].id
         /\ LET kept == {q \in Tty!AllPids : Tty!Sample(p)[q] # Nothing}
            IN  \/ kept \subseteq Sampled
                \/ kept \subseteq Tty!Visible
                \/ kept \subseteq Sampled \cup {p} /\ Cardinality(Sampled) < CleanupAt
<1> DEFINE first   == [ticks |-> proc[p].ticks, at |-> now, id |-> proc[p].id]
           again   == [cpuCache[p] EXCEPT !.ticks = proc[p].ticks, !.at = now]
           cleaned == IF Cardinality(Sampled) >= CleanupAt
                        THEN [q \in Tty!AllPids |-> IF q \in Tty!Live THEN cpuCache[q] ELSE Nothing]
                        ELSE cpuCache
<1>1. /\ p \in Tty!AllPids /\ now \in Nat
      /\ cpuCache \in [Tty!AllPids -> Samples \cup {Nothing}]
      /\ proc[p] \in Processes \cup {Nothing}
  BY TtyConstants DEF TtyInv, TtyTypes
<1>2. Cardinality(Sampled) \in Nat /\ CleanupAt \in Nat
  BY TtyConstants, FS_Subset, FS_CardinalityType DEF TtyInv, BoundInv
<1>3. Tty!Sample(p) =
        IF p \notin Tty!Live THEN cpuCache
        ELSE IF cpuCache[p] = Nothing THEN [cleaned EXCEPT ![p] = first]
        ELSE IF proc[p].ticks > cpuCache[p].ticks THEN [cpuCache EXCEPT ![p] = again]
        ELSE cpuCache
  <2>1. Tty!Cardinality({q \in Tty!AllPids : cpuCache[q] # Nothing}) = Cardinality(Sampled)
    BY TtyFiniteSets DEF Sampled
  <2>2. [cpuCache EXCEPT ![p].ticks = proc[p].ticks, ![p].at = now] = [cpuCache EXCEPT ![p] = again]
    BY <1>1
  <2> QED BY <2>1, <2>2 DEF Tty!Sample
<1>4. /\ cleaned \in [Tty!AllPids -> Samples \cup {Nothing}]
      /\ \A q \in Tty!AllPids : cleaned[q] \in {cpuCache[q], Nothing}
      /\ Cardinality(Sampled) >= CleanupAt => \A q \in Tty!AllPids : cleaned[q] # Nothing => q \in Sampled /\ q \in Tty!Live
      /\ \A q \in Tty!AllPids : cleaned[q] # Nothing => q \in Sampled
  BY <1>1 DEF Sampled
<1>5. p \in Tty!Live => proc[p] \in Processes
  BY <1>1 DEF Tty!Live, Tty!Alive
<1>6. CASE Tty!Sample(p) = cpuCache
  BY <1>1, <1>6 DEF Sampled
<1>7. CASE p \in Tty!Live /\ cpuCache[p] = Nothing /\ Tty!Sample(p) = [cleaned EXCEPT ![p] = first]
  <2>1. first \in Samples /\ first.ticks = proc[p].ticks /\ first.at = now /\ first.id = proc[p].id
    BY <1>1, <1>5, <1>7 DEF Samples, Processes
  <2> HIDE DEF first, cleaned
  <2>2. /\ Tty!Sample(p) \in [Tty!AllPids -> Samples \cup {Nothing}]
        /\ Tty!Sample(p)[p] = first
        /\ \A q \in Tty!AllPids \ {p} : Tty!Sample(p)[q] = cleaned[q]
    BY <1>1, <1>4, <1>7, <2>1
  <2> DEFINE kept == {q \in Tty!AllPids : Tty!Sample(p)[q] # Nothing}
  <2>3. CASE Cardinality(Sampled) >= CleanupAt
    <3>1. kept \subseteq Tty!Visible
      BY <1>4, <1>7, <2>2, <2>3, TtyConstants DEF TtyInv, BoundInv, Tty!Visible
    <3> QED BY <1>4, <1>5, <1>7, <2>1, <2>2, <3>1 DEF Tty!Live, Tty!Alive
  <2>4. CASE Cardinality(Sampled) < CleanupAt
    <3>1. kept \subseteq Sampled \cup {p}
      BY <1>4, <2>2
    <3> QED BY <1>4, <1>5, <1>7, <2>1, <2>2, <2>4, <3>1 DEF Tty!Live, Tty!Alive
  <2> QED BY <1>2, <2>3, <2>4
<1>8. CASE p \in Tty!Live /\ cpuCache[p] # Nothing /\ Tty!Sample(p) = [cpuCache EXCEPT ![p] = again]
  <2>1. cpuCache[p] \in Samples /\ proc[p].ticks \in Nat
    BY <1>1, <1>5, <1>8 DEF Processes
  <2>2. again \in Samples /\ again.ticks = proc[p].ticks /\ again.at = now /\ again.id = cpuCache[p].id
    BY <1>1, <2>1 DEF Samples
  <2> HIDE DEF again
  <2>3. /\ Tty!Sample(p) \in [Tty!AllPids -> Samples \cup {Nothing}]
        /\ Tty!Sample(p)[p] = again
        /\ \A q \in Tty!AllPids \ {p} : Tty!Sample(p)[q] = cpuCache[q]
    BY <1>1, <1>8, <2>2
  <2> DEFINE kept == {q \in Tty!AllPids : Tty!Sample(p)[q] # Nothing}
  <2>4. kept \subseteq Sampled
    BY <1>8, <2>3 DEF Sampled
  <2> QED BY <1>8, <2>2, <2>3, <2>4 DEF Tty!Live, Tty!Alive
<1> HIDE DEF cleaned, first, again
<1> QED BY <1>3, <1>6, <1>7, <1>8

LEMMA JudgeKeeps ==
  ASSUME TtyInv, Tty!Judge
  PROVE  TtyInv'
<1> DEFINE p == subject.pid
<1>1. /\ pc = "judge" /\ p \in Pids /\ p \in Tty!AllPids
      /\ cpuCache' = cpuCache \/ cpuCache' = Tty!Sample(p)
      /\ pc' \in {"idle", "identify"} /\ todo' \subseteq Pids /\ subject' = Tty!NoSubject
      /\ UNCHANGED <<now, proc, spawned, peak>>
  BY TtyConstants DEF TtyInv, TtyTypes, SubjectInv, Tty!Judge
<1> HIDE DEF p
<1>2. subject' \in Subjects /\ subject'.id = 0
  BY <1>1, NoSubjectIsOne
<1> DEFINE kept == Sampled'
<1>3. /\ cpuCache' \in [Tty!AllPids -> Samples \cup {Nothing}]
      /\ \A q \in Tty!AllPids \ {p} : cpuCache'[q] \in {cpuCache[q], Nothing}
      /\ \/ cpuCache'[p] \in {cpuCache[p], Nothing}
         \/ /\ proc[p] # Nothing
            /\ cpuCache'[p].ticks = proc[p].ticks /\ cpuCache'[p].at = now
            /\ cpuCache'[p].id \in {proc[p].id, cpuCache[p].id}
            /\ cpuCache[p] = Nothing => cpuCache'[p].id = proc[p].id
      /\ \/ kept \subseteq Sampled \/ kept \subseteq Tty!Visible
         \/ kept \subseteq Sampled \cup {p} /\ Cardinality(Sampled) < CleanupAt
  <2>1. CASE cpuCache' = cpuCache
    BY <1>1, <2>1 DEF TtyInv, TtyTypes, Sampled
  <2>2. CASE cpuCache' = Tty!Sample(p)
    <3>1. kept = {q \in Tty!AllPids : Tty!Sample(p)[q] # Nothing}
      BY <2>2 DEF Sampled
    <3> HIDE DEF kept
    <3> QED BY <1>1, <2>2, <3>1, SampleEffect
  <2> QED BY <1>1, <2>1, <2>2
<1>4. TtyTypes'
  BY <1>1, <1>2, <1>3 DEF TtyInv, TtyTypes
<1>5. NumbersInv'
  <2>1. 0 <= spawned
    BY DEF TtyInv, TtyTypes
  <2>2. ASSUME NEW q \in Tty!AllPids, cpuCache'[q] # Nothing PROVE cpuCache'[q].id <= spawned
    BY <1>1, <1>3, <2>2 DEF TtyInv, NumbersInv
  <2> QED BY <1>1, <1>2, <2>1, <2>2 DEF TtyInv, NumbersInv
<1>6. SampleInv'
  <2> SUFFICES ASSUME NEW q \in Tty!AllPids,
                      proc[q] # Nothing, cpuCache'[q] # Nothing, cpuCache'[q].id = proc[q].id
               PROVE  /\ cpuCache'[q].ticks <= proc[q].ticks
                      /\ proc[q].ticks > cpuCache'[q].ticks \/ proc[q].used <= cpuCache'[q].at
    BY <1>1 DEF SampleInv
  <2>1. CASE cpuCache'[q] = cpuCache[q]
    BY <2>1 DEF TtyInv, SampleInv
  <2>2. CASE cpuCache'[q] # cpuCache[q]
    <3>1. q = p /\ cpuCache'[q].ticks = proc[q].ticks /\ cpuCache'[q].at = now
      BY <1>1, <1>3, <2>2
    <3>2. proc[q].ticks \in Nat /\ proc[q].used <= now
      BY DEF TtyInv, TtyTypes, NumbersInv, Processes
    <3> QED BY <3>1, <3>2
  <2> QED BY <2>1, <2>2
<1>7. SubjectInv'
  BY <1>1 DEF SubjectInv
<1>8. BoundInv'
  <2>1. /\ Sampled \subseteq Pids /\ IsFiniteSet(Sampled) /\ Cardinality(Sampled) \in Nat
        /\ Cardinality(Sampled) <= Tty!AtLeast(peak, CleanupAt)
        /\ Cardinality(Tty!Visible) <= peak
    BY TtyConstants, FS_Subset, FS_CardinalityType DEF TtyInv, BoundInv
  <2>2. Tty!Visible' = Tty!Visible
    BY <1>1 DEF Tty!Visible, Tty!Live, Tty!Alive
  <2>3. peak \in Nat /\ CleanupAt \in Nat /\ peak' = peak
    BY <1>1, TtyConstants DEF TtyInv, TtyTypes
  <2> HIDE DEF kept
  <2>4. kept \subseteq Pids /\ IsFiniteSet(kept) /\ Cardinality(kept) \in Nat
    <3>1. kept \subseteq Pids
      BY <1>1, <1>3, <2>1, VisibleProcesses
    <3> QED BY <3>1, TtyConstants, FS_Subset, FS_CardinalityType
  <2>5. Cardinality(kept) <= Tty!AtLeast(peak, CleanupAt)
    <3>1. CASE kept \subseteq Sampled
      <4>1. Cardinality(kept) <= Cardinality(Sampled)
        BY <2>1, <3>1, FS_Subset
      <4> QED BY <2>1, <2>3, <2>4, <4>1 DEF Tty!AtLeast
    <3>2. CASE kept \subseteq Tty!Visible
      <4>1. Cardinality(kept) <= Cardinality(Tty!Visible)
        BY <3>2, VisibleProcesses, FS_Subset
      <4> QED BY <2>1, <2>3, <2>4, <4>1, VisibleProcesses DEF Tty!AtLeast
    <3>3. CASE kept \subseteq Sampled \cup {p} /\ Cardinality(Sampled) < CleanupAt
      <4>1. /\ IsFiniteSet(Sampled \cup {p})
            /\ Cardinality(Sampled \cup {p}) = IF p \in Sampled THEN Cardinality(Sampled) ELSE Cardinality(Sampled) + 1
        BY <2>1, FS_AddElement
      <4>2. Cardinality(kept) <= Cardinality(Sampled \cup {p})
        BY <3>3, <4>1, FS_Subset
      <4> QED BY <2>1, <2>3, <2>4, <3>3, <4>1, <4>2 DEF Tty!AtLeast
    <3> QED BY <1>3, <3>1, <3>2, <3>3
  <2> QED BY <2>1, <2>2, <2>3, <2>4, <2>5 DEF BoundInv, kept
<1> QED BY <1>4, <1>5, <1>6, <1>7, <1>8 DEF TtyInv

-----------------------------------------------------------------------------
(***************************************************************************)
(* The invariant, and what follows from it.                                *)
(***************************************************************************)
LEMMA TtyAtRest ==
  ASSUME TtyInv, UNCHANGED ttyVars
  PROVE  TtyInv'
<1>1. UNCHANGED <<now, proc, spawned, cpuCache, pc, todo, subject, peak>>
  BY DEF ttyVars
<1>2. BoundInv'
  BY <1>1, BoundKeeps DEF TtyInv
<1> QED BY <1>1, <1>2 DEF TtyInv, TtyTypes, NumbersInv, SampleInv, SubjectInv

LEMMA TtyStarts ==
  ASSUME Tty!Init
  PROVE  TtyInv
<1>1. /\ now = 0 /\ spawned = 0 /\ peak = 0 /\ pc = "idle" /\ todo = {} /\ subject = Tty!NoSubject
      /\ cpuCache = [p \in Tty!AllPids |-> Nothing]
  BY DEF Tty!Init
<1> DEFINE kind == [name |-> "sh", fg |-> TRUE, wait |-> "nothing"]
<1>2. PICK t \in Terminals :
        proc = [p \in Tty!AllPids |-> CASE p = Main  -> Tty!Process(kind, 1, NoTty, 0)
                                       [] p = Shell -> Tty!Process(kind, Main, t, 0)
                                       [] OTHER     -> Nothing]
  BY DEF Tty!Init
<1> DEFINE first == Tty!Process(kind, 1, NoTty, 0)
           shell == Tty!Process(kind, Main, t, 0)
<1>3. /\ first \in Processes /\ first.id = 0 /\ first.used = 0
      /\ shell \in Processes /\ shell.id = 0 /\ shell.used = 0
  <2>1. kind.name \in Names /\ kind.fg = TRUE /\ kind.wait = "nothing"
    BY DEF Names
  <2>2. /\ first = [name |-> kind.name, fg |-> kind.fg, wait |-> kind.wait, tty |-> NoTty, parent |-> 1,
                    born |-> now, id |-> 0, ticks |-> 0, used |-> now]
        /\ shell = [name |-> kind.name, fg |-> kind.fg, wait |-> kind.wait, tty |-> t, parent |-> Main,
                    born |-> now, id |-> 0, ticks |-> 0, used |-> now]
    BY DEF Tty!Process
  <2> HIDE DEF kind, first, shell
  <2> QED BY <1>1, <2>1, <2>2, TtyConstants DEF Processes
<1> HIDE DEF first, shell
<1>4. Main # Shell
  BY SourcesAssumption DEF SourcesAssumption, Tty!TtyAssumption
<1>5. ASSUME NEW p \in Tty!AllPids
      PROVE  proc[p] = IF p = Main THEN first ELSE IF p = Shell THEN shell ELSE Nothing
  BY <1>2, <1>4 DEF first, shell
<1>6. proc = [p \in Tty!AllPids |-> proc[p]]
  BY <1>2
<1>7. proc \in [Tty!AllPids -> Processes \cup {Nothing}]
  BY <1>3, <1>5, <1>6
<1>8. subject \in Subjects /\ subject.id = 0
  BY <1>1, NoSubjectIsOne
<1>9. Sampled = {}
  BY <1>1 DEF Sampled
<1>10. Tty!Visible = {}
  BY <1>5, VisibleProcesses, TtyConstants
<1>11. BoundInv
  BY <1>1, <1>9, <1>10, FS_EmptySet, TtyConstants DEF BoundInv, Tty!AtLeast
<1> QED BY <1>1, <1>3, <1>5, <1>7, <1>8, <1>11 DEF TtyInv, TtyTypes, NumbersInv, SampleInv, SubjectInv

LEMMA TtyInvariant == Spec => []TtyInv
<1>1. Init => TtyInv
  BY TtyStarts DEF Init
<1>2. TtyInv /\ [Next]_vars => TtyInv'
  <2> SUFFICES ASSUME TtyInv, [Next]_vars PROVE TtyInv'
    OBVIOUS
  <2>1. CASE UNCHANGED ttyVars
    BY <2>1, TtyAtRest
  <2>2. CASE Tty!Next
    <3>1. \A p \in Pids \cup {Shell} : p \in Tty!AllPids
      BY TtyConstants
    <3> QED BY <2>2, <3>1, PassKeeps, SpawnKeeps, ExitKeeps, ComputeKeeps, ScanKeeps, JudgeKeeps DEF Tty!Next
  <2> QED BY <2>1, <2>2 DEF Next, WithTty, WithCodex, vars
<1> QED BY <1>1, <1>2, PTL DEF Spec

\* The CPU samples do not pile up: there are never more than the number at which they
\* are cleaned up, or than there have been processes at a time
\* (activity_source_tty.go:602-612, 630-635).
THEOREM SamplesAreBounded == Spec => []CpuCacheBounded
<1>1. TtyInv => CpuCacheBounded
  BY TtyFiniteSets DEF TtyInv, BoundInv, Sampled, CpuCacheBounded, Tty!CpuCacheBounded
<1> QED BY <1>1, TtyInvariant, PTL

\* No process in use is found inactive, for any settings, whatever was sampled by the
\* scans before (activity_source_tty.go:42-145, 576-646).
THEOREM WorkIsNotMissed == Spec => []ActivityIsSeen
<1> DEFINE p == subject.pid
           q == proc[p]
           name == subject.name
<1>1. ASSUME TtyInv, pc = "judge", Tty!NotReused(p), Tty!Age(p) <= MaxAge, Tty!InUse(p)
      PROVE  Tty!Verdict(p, name)
  <2>1. p \in Tty!Live /\ q.id = subject.id /\ q # Nothing /\ p \in Tty!AllPids
    BY <1>1 DEF Tty!NotReused, Tty!Live, Tty!Alive
  <2>2. q.name = name
    BY <1>1, <2>1 DEF TtyInv, SubjectInv
  <2>3. /\ q.born \in Nat /\ q.used \in Nat /\ q.ticks \in Nat
        /\ now \in Nat /\ Grace \in Nat /\ MaxAge \in Nat /\ Window \in Nat
    BY <1>1, <2>1, TtyConstants DEF TtyInv, TtyTypes, Processes
  <2>4. Tty!Age(p) = now - q.born
    BY <2>1 DEF Tty!Age
  <2>5. Tty!TtyOf(p) = q.tty
    BY <1>1, <2>1 DEF Tty!NotReused, Tty!TtyOf
  <2> DEFINE read == q.tty # NoTty /\ atime[q.tty] > q.born
  <2>6. Tty!AtimeReliable(p) <=> read
    BY <2>1, <2>5 DEF Tty!AtimeReliable
  <2>7. CASE Tty!Age(p) < Grace
    BY <1>1, <2>3, <2>4, <2>7 DEF Tty!Verdict
  <2>8. CASE ~(Tty!Age(p) < Grace)
    <3> SUFFICES ASSUME Tty!LooksAtActivity(p, name) PROVE Tty!hasTTYActivity(p)
      BY <1>1, <2>3, <2>4, <2>8 DEF Tty!Verdict
    <3>1. Tty!ModeOf(name) \notin {"false", "no"}
      BY DEF Tty!LooksAtActivity
    <3>2. Tty!ModeOf(name) = "auto" => q.fg /\ (q.wait \in {"tty", "poll"} \/ read)
      BY <2>1, <2>5, <2>6 DEF Tty!LooksAtActivity, Tty!isInteractiveProcess, Tty!hasEverReadFromTTY
    <3>3. IF read THEN atime[q.tty] > now - Window ELSE q.used > now - Window
      BY <1>1, <2>2, <2>4, <2>8, <3>1, <3>2 DEF Tty!InUse
    <3>4. CASE read
      BY <2>5, <2>6, <3>3, <3>4 DEF Tty!hasTTYActivity
    <3>5. CASE ~read
      <4>1. q.used > now - Window
        BY <3>3, <3>5
      <4>2. CASE cpuCache[p] = Nothing
        BY <2>1, <2>6, <3>5, <4>2 DEF Tty!hasTTYActivity, Tty!hasRecentCPUActivity
      <4>3. CASE cpuCache[p] # Nothing
        <5>1. q.ticks > cpuCache[p].ticks \/ q.used <= cpuCache[p].at
          BY <1>1, <2>1, <4>3 DEF Tty!NotReused, TtyInv, SampleInv
        <5>2. cpuCache[p].at \in Nat
          BY <1>1, <2>1, <4>3 DEF TtyInv, TtyTypes, Samples
        <5>3. q.ticks > cpuCache[p].ticks \/ now - cpuCache[p].at < Window
          BY <2>3, <4>1, <5>1, <5>2
        <5> QED BY <2>1, <2>6, <3>5, <4>3, <5>3 DEF Tty!hasTTYActivity, Tty!hasRecentCPUActivity
      <4> QED BY <4>2, <4>3
    <3> QED BY <3>4, <3>5
  <2> QED BY <2>7, <2>8
<1>2. TtyInv => ActivityIsSeen
  BY <1>1 DEF ActivityIsSeen, Tty!ActivityIsSeen
<1> QED BY <1>2, TtyInvariant, PTL

-----------------------------------------------------------------------------
(***************************************************************************)
(* The types: times lie in the past, what is counted has its bound, and a  *)
(* scan that is under way has its entries.                                 *)
(***************************************************************************)
TimesInv ==
    /\ now <= MaxTime /\ spawned <= MaxSpawns
    /\ \A p \in Tty!AllPids :
          proc[p] # Nothing => proc[p].born <= proc[p].used /\ proc[p].ticks <= MaxTicks
    /\ atime \in [Terminals -> Nat] /\ \A t \in Terminals : atime[t] <= now
    /\ \A p \in Tty!AllPids :
          cpuCache[p] # Nothing => cpuCache[p].at <= now /\ cpuCache[p].ticks <= MaxTicks
    /\ pc = "idle" => todo = {}
    /\ pc = "judge" => subject.pid \notin todo

LEMMA TtyLimits ==
  MaxTime \in Nat /\ MaxTicks \in Nat /\ MaxSpawns \in Nat
BY SourcesAssumption DEF SourcesAssumption, Tty!TtyAssumption

LEMMA SpawnInTime ==
  ASSUME TtyInv, TimesInv, NEW p \in Pids, NEW parent \in Tty!AllPids, NEW kind \in Kinds,
         Tty!Spawn(p, parent, kind)
  PROVE  TimesInv'
<1> DEFINE new == Tty!Process(kind, parent, IF kind.tty THEN proc[parent].tty ELSE NoTty, spawned + 1)
<1>1. new.born = now /\ new.used = now /\ new.ticks = 0
  BY DEF Tty!Process
<1> HIDE DEF new
<1>2. /\ proc' = [proc EXCEPT ![p] = new] /\ spawned < MaxSpawns /\ spawned' = spawned + 1
      /\ UNCHANGED <<now, atime, cpuCache, pc, todo, subject>>
  BY DEF Tty!Spawn, Tty!scanVars, new
<1>3. proc'[p] = new /\ \A q \in Tty!AllPids \ {p} : proc'[q] = proc[q]
  BY <1>2, TtyConstants DEF TtyInv, TtyTypes
<1>4. spawned' <= MaxSpawns
  BY <1>2, TtyLimits DEF TtyInv, TtyTypes
<1>5. now \in Nat /\ 0 <= MaxTicks
  BY TtyLimits DEF TtyInv, TtyTypes
<1> QED BY <1>1, <1>2, <1>3, <1>4, <1>5 DEF TimesInv

LEMMA ExitInTime ==
  ASSUME TtyInv, TimesInv, NEW p \in Tty!AllPids, Tty!Exit(p)
  PROVE  TimesInv'
<1>1. UNCHANGED <<now, spawned, atime, cpuCache, pc, todo, subject>>
  BY DEF Tty!Exit, Tty!scanVars
<1>2. ASSUME NEW q \in Tty!AllPids, proc'[q] # Nothing
      PROVE  /\ proc[q] # Nothing /\ proc'[q].born = proc[q].born
             /\ proc'[q].ticks = proc[q].ticks /\ proc'[q].used = proc[q].used
  <2>1. proc'[q] = IF q = p \/ ~Tty!Alive(q) THEN IF q = p THEN Nothing ELSE proc[q]
                   ELSE IF proc[q].parent = p THEN [proc[q] EXCEPT !.parent = 1] ELSE proc[q]
    BY DEF Tty!Exit
  <2>2. proc[q] # Nothing
    BY <1>2, <2>1 DEF Tty!Alive
  <2>3. proc[q] \in Processes
    BY <2>2 DEF TtyInv, TtyTypes
  <2>4. proc'[q] = [proc[q] EXCEPT !.parent = 1] \/ proc'[q] = proc[q]
    BY <1>2, <2>1
  <2> QED BY <2>2, <2>3, <2>4 DEF Processes
<1> QED BY <1>1, <1>2 DEF TimesInv

LEMMA ComputeInTime ==
  ASSUME TtyInv, TimesInv, NEW p \in Pids, Tty!Compute(p)
  PROVE  TimesInv'
<1>1. UNCHANGED <<now, spawned, atime, cpuCache, pc, todo, subject>> /\ proc[p].ticks < MaxTicks
  BY DEF Tty!Compute, Tty!scanVars
<1>2. p \in Tty!AllPids /\ proc[p] \in Processes /\ proc[p] # Nothing
  BY TtyConstants DEF TtyInv, TtyTypes, Tty!Compute, Tty!Alive
<1> DEFINE n == proc[p].ticks + 1
           new == [proc[p] EXCEPT !.ticks = n, !.used = now]
<1>3. proc' = [proc EXCEPT ![p] = new]
  BY DEF Tty!Compute
<1>4. n <= MaxTicks
  BY <1>1, <1>2, TtyLimits DEF Processes
<1> HIDE DEF n
<1>5. new.ticks = n /\ new.used = now /\ new.born = proc[p].born
  BY <1>2 DEF Processes
<1>6. proc[p].born <= now
  BY <1>2 DEF TtyInv, TtyTypes, TimesInv, NumbersInv, Processes
<1> HIDE DEF new
<1>7. proc'[p] = new /\ \A q \in Tty!AllPids \ {p} : proc'[q] = proc[q]
  BY <1>2, <1>3 DEF TtyInv, TtyTypes
<1> QED BY <1>1, <1>4, <1>5, <1>6, <1>7 DEF TimesInv

LEMMA PassInTime ==
  ASSUME TtyInv, TimesInv, Tty!Pass \/ \E t \in Terminals : Tty!ReadTerminal(t)
  PROVE  TimesInv'
<1>1. UNCHANGED <<proc, spawned, cpuCache, pc, todo, subject>>
  BY DEF Tty!Pass, Tty!ReadTerminal, Tty!scanVars
<1>2. now \in Nat /\ MaxTime \in Nat
  BY TtyLimits DEF TtyInv, TtyTypes
<1>3. CASE Tty!Pass
  <2>1. now < MaxTime /\ now' = now + 1 /\ atime' = atime
    BY <1>3 DEF Tty!Pass
  <2>2. now' <= MaxTime /\ \A n \in Nat : n <= now => n <= now'
    BY <1>2, <2>1
  <2>3. \A q \in Tty!AllPids : cpuCache[q] # Nothing => cpuCache[q].at \in Nat
    BY DEF TtyInv, TtyTypes, Samples
  <2> QED BY <1>1, <2>1, <2>2, <2>3 DEF TimesInv
<1>4. CASE \E t \in Terminals : Tty!ReadTerminal(t)
  <2>1. PICK t \in Terminals : now' = now /\ atime' = [atime EXCEPT ![t] = now]
    BY <1>4 DEF Tty!ReadTerminal
  <2> QED BY <1>1, <1>2, <2>1 DEF TimesInv
<1> QED BY <1>3, <1>4

LEMMA ScanInTime ==
  ASSUME TtyInv, TimesInv, Tty!ScanBegin \/ Tty!Identify \/ Tty!ScanEnd
  PROVE  TimesInv'
<1>1. UNCHANGED <<now, proc, spawned, atime, cpuCache>>
  BY DEF Tty!ScanBegin, Tty!Identify, Tty!ScanEnd
<1>2. pc' = "idle" => todo' = {}
  BY DEF Tty!ScanBegin, Tty!Identify, Tty!ScanEnd
<1>3. pc' = "judge" => subject'.pid \notin todo'
  BY DEF Tty!ScanBegin, Tty!Identify, Tty!ScanEnd
<1> QED BY <1>1, <1>2, <1>3 DEF TimesInv

LEMMA JudgeInTime ==
  ASSUME TtyInv, TimesInv, Tty!Judge
  PROVE  TimesInv'
<1> DEFINE p == subject.pid
<1>1. /\ p \in Pids /\ (cpuCache' = cpuCache \/ cpuCache' = Tty!Sample(p))
      /\ (pc' = "idle" /\ todo' = {}) \/ pc' = "identify"
      /\ UNCHANGED <<now, proc, spawned, atime>>
  BY DEF TtyInv, SubjectInv, Tty!Judge
<1> HIDE DEF p
<1>2. ASSUME NEW q \in Tty!AllPids, cpuCache'[q] # Nothing
      PROVE  cpuCache'[q].at <= now /\ cpuCache'[q].ticks <= MaxTicks
  <2>1. CASE cpuCache'[q] = cpuCache[q]
    BY <1>2, <2>1 DEF TimesInv
  <2>2. CASE cpuCache'[q] # cpuCache[q]
    <3>1. cpuCache' = Tty!Sample(p)
      BY <1>1, <2>2
    <3>2. \A r \in Tty!AllPids \ {p} : cpuCache'[r] \in {cpuCache[r], Nothing}
      BY <1>1, <3>1, SampleEffect
    <3>3. \/ cpuCache'[p] \in {cpuCache[p], Nothing}
          \/ cpuCache'[p].ticks = proc[p].ticks /\ cpuCache'[p].at = now /\ proc[p] # Nothing
      BY <1>1, <3>1, SampleEffect
    <3>4. q = p /\ proc[p] # Nothing /\ cpuCache'[p].ticks = proc[p].ticks /\ cpuCache'[p].at = now
      BY <1>2, <2>2, <3>2, <3>3
    <3>5. now \in Nat
      BY DEF TtyInv, TtyTypes
    <3>6. q \in Tty!AllPids /\ proc[q].ticks <= MaxTicks
      BY <3>4 DEF TimesInv
    <3> QED BY <3>4, <3>5, <3>6
  <2> QED BY <2>1, <2>2
<1> QED BY <1>1, <1>2 DEF TimesInv

LEMMA TtyTimesStart ==
  ASSUME Tty!Init
  PROVE  TimesInv
<1>1. /\ now = 0 /\ spawned = 0 /\ pc = "idle" /\ todo = {} /\ atime = [t \in Terminals |-> 0]
      /\ cpuCache = [p \in Tty!AllPids |-> Nothing]
  BY DEF Tty!Init
<1> DEFINE kind == [name |-> "sh", fg |-> TRUE, wait |-> "nothing"]
<1>2. PICK t \in Terminals :
        proc = [p \in Tty!AllPids |-> CASE p = Main  -> Tty!Process(kind, 1, NoTty, 0)
                                       [] p = Shell -> Tty!Process(kind, Main, t, 0)
                                       [] OTHER     -> Nothing]
  BY DEF Tty!Init
<1> DEFINE first == Tty!Process(kind, 1, NoTty, 0)
           shell == Tty!Process(kind, Main, t, 0)
<1>3. /\ first.born = now /\ first.used = now /\ first.ticks = 0
      /\ shell.born = now /\ shell.used = now /\ shell.ticks = 0
  BY DEF Tty!Process
<1> HIDE DEF first, shell
<1>4. Main # Shell
  BY SourcesAssumption DEF SourcesAssumption, Tty!TtyAssumption
<1>5. ASSUME NEW p \in Tty!AllPids
      PROVE  proc[p] = IF p = Main THEN first ELSE IF p = Shell THEN shell ELSE Nothing
  BY <1>2, <1>4 DEF first, shell
<1>6. \A p \in Tty!AllPids : proc[p] # Nothing => proc[p].born = now /\ proc[p].used = now /\ proc[p].ticks = 0
  BY <1>3, <1>5
<1> QED BY <1>1, <1>6, TtyLimits DEF TimesInv

LEMMA TtyTimes == Spec => []TimesInv
<1>1. Init => TimesInv
  BY TtyTimesStart DEF Init
<1>2. TtyInv /\ TimesInv /\ [Next]_vars => TimesInv'
  <2> SUFFICES ASSUME TtyInv, TimesInv, [Next]_vars PROVE TimesInv'
    OBVIOUS
  <2>1. CASE UNCHANGED ttyVars
    BY <2>1 DEF ttyVars, TimesInv
  <2>2. CASE Tty!Next
    <3>1. \A p \in Pids \cup {Shell} : p \in Tty!AllPids
      BY TtyConstants
    <3> QED BY <2>2, <3>1, PassInTime, SpawnInTime, ExitInTime, ComputeInTime, ScanInTime, JudgeInTime DEF Tty!Next
  <2> QED BY <2>1, <2>2 DEF Next, WithTty, WithCodex, vars
<1> QED BY <1>1, <1>2, TtyInvariant, PTL DEF Spec

LEMMA TtyTypeCorrect == Spec => []Tty!TypeOK
<1>1. ASSUME TtyInv, TimesInv PROVE Tty!TypeOK
  <2>1. now \in 0 .. MaxTime /\ spawned \in 0 .. MaxSpawns
    BY <1>1, TtyLimits DEF TtyInv, TtyTypes, TimesInv
  <2>2. ASSUME NEW p \in Tty!Live
        PROVE  proc[p].born <= now /\ proc[p].used \in proc[p].born .. now /\ proc[p].ticks \in 0 .. MaxTicks
    <3>1. p \in Tty!AllPids /\ proc[p] # Nothing
      BY DEF Tty!Live, Tty!Alive
    <3>2. proc[p] \in Processes /\ proc[p].used <= now /\ proc[p].born <= proc[p].used /\ proc[p].ticks <= MaxTicks
      BY <1>1, <3>1 DEF TtyInv, TtyTypes, NumbersInv, TimesInv
    <3> QED BY <1>1, <3>2, TtyLimits DEF TtyInv, TtyTypes, Processes
  <2>3. \A t \in Terminals : atime[t] \in 0 .. now
    BY <1>1 DEF TtyInv, TtyTypes, TimesInv
  <2>4. todo \subseteq Tty!AllPids /\ subject.pid \in Tty!AllPids /\ pc \in {"idle", "identify", "judge"}
    BY <1>1, TtyConstants DEF TtyInv, TtyTypes, Subjects
  <2> QED BY <1>1, <2>1, <2>2, <2>3, <2>4 DEF TimesInv, Tty!TypeOK
<1> QED BY <1>1, TtyInvariant, TtyTimes, PTL

\* Both sources keep their types: times lie in the past and counts within their bounds,
\* a scan of processes looks at each of them once, a call waits only on a connection
\* that is there, and what is read of a thread is a time stamp and never the answer to
\* something else (activity_source_tty.go:42-145, activity_source_codex_app_server_api.go:60-158).
THEOREM TypeCorrect == Spec => []TypeOK
<1>1. Tty!TypeOK /\ Codex!TypeOK => TypeOK
  BY DEF TypeOK
<1> QED BY <1>1, TtyTypeCorrect, CodexTypeCorrect, PTL
=============================================================================
