-------------------------- MODULE ExecServiceProofs --------------------------
(***************************************************************************)
(* Proofs about the JSON-RPC interface, for any number of clients, execs   *)
(* and containers, and any number of requests in progress.                 *)
(***************************************************************************)
EXTENDS ExecService, FiniteSetTheorems, TLAPS

AtRest == {"idle", "ended"}

(***************************************************************************)
(* Who answers.  The state of sync.Once says what the timer and the        *)
(* handler are doing, and a read loop that is at rest has been answered    *)
(* for: so a tunnel is closed only when nobody will send any more.         *)
(***************************************************************************)
AnswerTypes ==
    /\ reader \in [Clients -> {"idle", "handle", "try", "watch", "resize", "reply", "sending", "ended"}]
    /\ replies \in [Clients -> Seq({"error", "result", "id"})]
    /\ timer \in [Clients -> {"off", "armed", "sending"}]
    /\ once \in [Clients -> {"nobody", "handler", "timer", "done"}]
    /\ client \in [Clients -> {"away", "connected", "stalled", "gone"}]
    /\ open \in [Clients -> BOOLEAN]
    /\ asked \in [Clients -> Nat]

OnceInv(c) ==
    /\ once[c] = "timer" <=> timer[c] = "sending"
    /\ once[c] = "handler" <=> reader[c] = "sending"
    /\ once[c] = "done" <=> timer[c] = "off"
    /\ reader[c] \in AtRest => once[c] = "done"
    /\ reader[c] = "reply" /\ replies[c] = <<>> => once[c] = "done"
    /\ reader[c] = "sending" => replies[c] # <<>>
    /\ client[c] = "away" => ~open[c]
    /\ ~open[c] => reader[c] \in AtRest

AnswerInv ==
    /\ AnswerTypes
    /\ \A c \in Clients : OnceInv(c)
    /\ crashed = FALSE

answerVars == <<reader, replies, timer, once, client, open, asked, crashed>>

\* The handlers that go on to another part of their work.
LEMMA WorkKeepsAnswers ==
  ASSUME AnswerInv, NEW c \in Clients, reader[c] \in {"handle", "try"},
         NEW to \in {"try", "watch", "resize"},
         reader' = [reader EXCEPT ![c] = to],
         UNCHANGED <<replies, timer, once, client, open, asked, crashed>>
  PROVE  AnswerInv'
BY DEF AnswerInv, AnswerTypes, OnceInv, AtRest

\* The handlers whose work is done.
LEMMA ReplyKeepsAnswers ==
  ASSUME AnswerInv, NEW c \in Clients, reader[c] \in {"handle", "try", "watch", "resize"},
         NEW calls \in {<<"id">>, <<"error">>, <<"result">>, <<"error", "result">>},
         Reply(c, calls), UNCHANGED <<timer, once, client, open, asked, crashed>>
  PROVE  AnswerInv'
<1>1. calls \in Seq({"error", "result", "id"}) /\ calls # <<>>
  <2>1. CASE calls = <<"id">>
    BY <2>1
  <2>2. CASE calls = <<"error">>
    BY <2>2
  <2>3. CASE calls = <<"result">>
    BY <2>3
  <2>4. CASE calls = <<"error", "result">>
    BY <2>4
  <2> QED BY <2>1, <2>2, <2>3, <2>4
<1> QED
  BY <1>1 DEF AnswerInv, AnswerTypes, OnceInv, AtRest, Reply

LEMMA HandlingKeepsAnswers ==
  ASSUME AnswerInv, NEW c \in Clients, Handling(c)
  PROVE  AnswerInv'
<1> USE DEF InHandler, busVars, tunnelVars, historyVars, registryVars, Handles
<1>1. CASE CreateExec(c)
  <2> DEFINE accepted == ValidateNoShellMetacharacters(request[c].exec.cwd) /\ setToken(c)
  <2>1. CASE accepted
    <3>1. reader[c] = "handle" /\ reader' = [reader EXCEPT ![c] = "try"]
          /\ UNCHANGED <<replies, timer, once, client, open, asked, crashed>>
      BY <1>1, <2>1 DEF CreateExec
    <3> QED BY <3>1, WorkKeepsAnswers
  <2>2. CASE ~accepted
    <3>1. reader[c] = "handle" /\ Reply(c, <<"error">>)
          /\ UNCHANGED <<timer, once, client, open, asked, crashed>>
      BY <1>1, <2>2 DEF CreateExec
    <3> QED BY <3>1, ReplyKeepsAnswers
  <2> QED BY <2>1, <2>2
<1>2. CASE DoCreate(c)
  <2>1. /\ reader[c] = "try"
        /\ UNCHANGED <<replies, timer, once, client, open, asked, crashed>>
        /\ UNCHANGED reader \/ reader' = [reader EXCEPT ![c] = "watch"]
    BY <1>2 DEF DoCreate
  <2>2. CASE UNCHANGED reader
    BY <2>1, <2>2 DEF AnswerInv, AnswerTypes, OnceInv
  <2>3. CASE reader' = [reader EXCEPT ![c] = "watch"]
    BY <2>1, <2>3, WorkKeepsAnswers
  <2> QED BY <2>1, <2>2, <2>3
<1>3. CASE CreateFails(c)
  <2>1. reader[c] = "try" /\ Reply(c, <<"error">>)
        /\ UNCHANGED <<timer, once, client, open, asked, crashed>>
    BY <1>3 DEF CreateFails
  <2> QED BY <2>1, ReplyKeepsAnswers
<1>4. CASE CreateSucceeds(c)
  <2>1. reader[c] = "watch" /\ Reply(c, <<"id">>)
        /\ UNCHANGED <<timer, once, client, open, asked, crashed>>
    BY <1>4 DEF CreateSucceeds
  <2> QED BY <2>1, ReplyKeepsAnswers
<1>5. CASE CheckExec(c)
  <2>1. reader[c] = "handle" /\ (Reply(c, <<"result">>) \/ Reply(c, <<"error", "result">>))
        /\ UNCHANGED <<timer, once, client, open, asked, crashed>>
    BY <1>5 DEF CheckExec
  <2> QED BY <2>1, ReplyKeepsAnswers
<1>6. CASE ListContainersExec(c)
  <2>1. /\ reader[c] = "handle"
        /\ Reply(c, <<"result">>) \/ Reply(c, <<"error">>) \/ Reply(c, <<"error", "result">>)
        /\ UNCHANGED <<timer, once, client, open, asked, crashed>>
    BY <1>6 DEF ListContainersExec
  <2> QED BY <2>1, ReplyKeepsAnswers
<1>7. CASE ResizeExec(c)
  <2>1. CASE request[c].id \in execMap
    <3>1. reader[c] = "handle" /\ reader' = [reader EXCEPT ![c] = "resize"]
          /\ UNCHANGED <<replies, timer, once, client, open, asked, crashed>>
      BY <1>7, <2>1 DEF ResizeExec
    <3> QED BY <3>1, WorkKeepsAnswers
  <2>2. CASE request[c].id \notin execMap
    <3>1. reader[c] = "handle" /\ Reply(c, <<"error">>)
          /\ UNCHANGED <<timer, once, client, open, asked, crashed>>
      BY <1>7, <2>2 DEF ResizeExec
    <3> QED BY <3>1, ReplyKeepsAnswers
  <2> QED BY <2>1, <2>2
<1>8. CASE SendSize(c)
  <2>1. reader[c] = "resize" /\ Reply(c, <<"result">>)
        /\ UNCHANGED <<timer, once, client, open, asked, crashed>>
    BY <1>8 DEF SendSize
  <2> QED BY <2>1, ReplyKeepsAnswers
<1> QED BY <1>1, <1>2, <1>3, <1>4, <1>5, <1>6, <1>7, <1>8 DEF Handling

LEMMA AnsweringKeepsAnswers ==
  ASSUME AnswerInv, NEW c \in Clients, Answering(c)
  PROVE  AnswerInv'
<1> USE DEF AnswerInv, AnswerTypes, OnceInv, AtRest, busVars, tunnelVars, historyVars, registryVars
<1>1. CASE HandlerReleases(c)
  <2>1. CASE MayRelease(c)
    <3>1. /\ reader' = [reader EXCEPT ![c] = "sending"]
          /\ once' = [once EXCEPT ![c] = "handler"]
          /\ UNCHANGED <<replies, timer, client, open, asked, crashed>>
          /\ reader[c] = "reply" /\ replies[c] # <<>> /\ once[c] = "nobody"
      BY <1>1, <2>1 DEF HandlerReleases, MayRelease
    <3> QED BY <3>1
  <2>2. CASE ~MayRelease(c)
    <3>1. /\ replies' = [replies EXCEPT ![c] = Tail(replies[c])]
          /\ UNCHANGED <<reader, once, timer, client, open, asked, crashed>>
          /\ reader[c] = "reply" /\ replies[c] # <<>> /\ once[c] = "done"
      BY <1>1, <2>2 DEF HandlerReleases
    <3>2. Tail(replies[c]) \in Seq({"error", "result", "id"})
      BY <3>1
    <3> QED BY <3>1, <3>2
  <2> QED BY <2>1, <2>2
<1>2. CASE HandlerReturns(c)
  BY <1>2 DEF HandlerReturns
<1>3. CASE TimerFires(c)
  BY <1>3 DEF TimerFires, MayRelease
<1>4. CASE TakeReply(c)
  BY <1>4 DEF TakeReply
<1>5. CASE TakeTimeout(c)
  <2>1. open[c] = TRUE
    BY <1>5 DEF TakeTimeout
  <2>2. crashed' = FALSE
    BY <1>5, <2>1 DEF TakeTimeout
  <2> QED BY <1>5, <2>2 DEF TakeTimeout
<1> QED BY <1>1, <1>2, <1>3, <1>4, <1>5 DEF Answering

LEMMA AnswerInvNext == AnswerInv /\ [Next]_vars => AnswerInv'
<1> SUFFICES ASSUME AnswerInv, [Next]_vars PROVE AnswerInv'
  OBVIOUS
<1> USE DEF busVars, tunnelVars, historyVars, registryVars, requestVars
<1>1. ASSUME NEW c \in Clients, Handling(c) \/ Answering(c) PROVE AnswerInv'
  BY <1>1, HandlingKeepsAnswers, AnsweringKeepsAnswers
<1>2. ASSUME NEW c \in Clients, ClientChanges(c) PROVE AnswerInv'
  BY <1>2 DEF ClientChanges, AnswerInv, AnswerTypes, OnceInv, AtRest
<1>3. ASSUME NEW c \in Clients, Connect(c) PROVE AnswerInv'
  BY <1>3 DEF Connect, AnswerInv, AnswerTypes, OnceInv, AtRest
<1>4. ASSUME NEW c \in Clients, SettingUp(c) PROVE UNCHANGED answerVars
  BY <1>4 DEF SettingUp, StoreToken, SubAny, SayHello, answerVars
<1>5. ASSUME NEW c \in Clients, Ask(c) PROVE AnswerInv'
  BY <1>5 DEF Ask, AnswerInv, AnswerTypes, OnceInv, AtRest
<1>6. ASSUME NEW c \in Clients, Writes(c) PROVE UNCHANGED answerVars
  BY <1>6 DEF Writes, answerVars
<1>7. ASSUME NEW c \in Clients, CloseOnce(c) PROVE AnswerInv'
  BY <1>7 DEF CloseOnce, AnswerInv, AnswerTypes, OnceInv, AtRest
<1>8. ASSUME NEW id \in Ids, Attach(id) \/ TakeSize(id) \/ StreamEnds(id) \/ Watching(id)
      PROVE  UNCHANGED answerVars
  BY <1>8 DEF Attach, TakeSize, StreamEnds, Watching, Remove, Pub, Accept, InExec, answerVars
<1>9. CASE UNCHANGED vars
  BY <1>9 DEF vars, AnswerInv, AnswerTypes, OnceInv
<1>10. CASE UNCHANGED answerVars
  BY <1>10 DEF answerVars, AnswerInv, AnswerTypes, OnceInv
<1> QED
  BY <1>1, <1>2, <1>3, <1>4, <1>5, <1>6, <1>7, <1>8, <1>9, <1>10 DEF Next, vars, answerVars

LEMMA AnswerInvCorrect == Spec => []AnswerInv
<1>1. Init => AnswerInv
  BY DEF Init, AnswerInv, AnswerTypes, OnceInv, AtRest
<1> QED BY <1>1, AnswerInvNext, PTL DEF Spec

\* However late a timer goes off, and whenever clients leave, nobody sends on a
\* closed channel without recovering.
THEOREM NoLateTimerPanics == Spec => []NoPanic
<1>1. AnswerInv => NoPanic
  BY DEF AnswerInv, NoPanic
<1> QED BY <1>1, AnswerInvCorrect, PTL

-----------------------------------------------------------------------------
(***************************************************************************)
(* What is on its way.  The write loop has at most one message, so who     *)
(* hands over an answer finds those before it delivered; hence the answers *)
(* a client has, and the one that is being written, are those to the       *)
(* requests that are done with, in their order.                            *)
(***************************************************************************)
Due(c)      == IF once[c] = "done" THEN asked[c] ELSE asked[c] - 1
OnItsWay(c) == IF out[c].kind = "answer" THEN 1 ELSE 0

CountInv(c) ==
    /\ once[c] # "done" => asked[c] > 0
    /\ out[c].kind = "answer" => out[c].n = Due(c)
    /\ client[c] = "away" => out[c].kind = "nothing"
    /\ \A i \in DOMAIN answers[c] : answers[c][i] = i
    /\ client[c] # "gone" => Len(answers[c]) + OnItsWay(c) = Due(c)

MailInv ==
    /\ out \in [Clients -> Messages] /\ answers \in [Clients -> Seq(Nat)]
    /\ \A c \in Clients : CountInv(c)

\* Steps that neither ask nor answer, nor have to do with the write loop.
LEMMA MailStays ==
  ASSUME MailInv, UNCHANGED <<out, answers, asked>>,
         \A d \in Clients : once'[d] = "done" <=> once[d] = "done",
         \A d \in Clients : /\ client'[d] # "gone" => client[d] # "gone"
                            /\ client'[d] = "away" => client[d] = "away"
  PROVE  MailInv'
<1>1. ASSUME NEW d \in Clients PROVE CountInv(d)'
  <2>1. Due(d)' = Due(d) /\ OnItsWay(d)' = OnItsWay(d)
    BY DEF Due, OnItsWay
  <2>2. CountInv(d)
    BY DEF MailInv
  <2>3. /\ client'[d] # "gone" => client[d] # "gone"
        /\ client'[d] = "away" => client[d] = "away"
        /\ once'[d] = "done" <=> once[d] = "done"
    OBVIOUS
  <2> QED BY <2>1, <2>2, <2>3 DEF CountInv
<1> QED BY <1>1 DEF MailInv

\* A greeting or a notice is handed over.
LEMMA OtherMailKeepsCount ==
  ASSUME MailInv, AnswerInv, NEW c, NEW message \in Messages, message.kind # "answer", HandsOver(c, message),
         UNCHANGED <<answers, asked, once, client>>
  PROVE  MailInv'
<1>1. \A d \in Clients : out'[d].kind = "answer" <=> out[d].kind = "answer"
  BY DEF HandsOver, MailInv, Nothing
<1>2. \A d \in Clients : out'[d].kind = "answer" => out'[d] = out[d]
  BY DEF HandsOver, MailInv
<1>3. out' \in [Clients -> Messages]
  BY DEF HandsOver, MailInv
<1>4. \A d \in Clients : client[d] = "away" => out'[d] = out[d]
  BY DEF HandsOver, MailInv, AnswerInv, OnceInv
<1> QED BY <1>1, <1>2, <1>3, <1>4 DEF MailInv, CountInv, Due, OnItsWay

\* The answer to the request in progress is handed over.
LEMMA AnswerKeepsCount ==
  ASSUME MailInv, AnswerInv, NEW c \in Clients, HandsOver(c, Answer(asked[c])),
         once[c] # "done", once' = [once EXCEPT ![c] = "done"], UNCHANGED <<answers, asked, client>>
  PROVE  MailInv'
<1>1. Answer(asked[c]) \in Messages /\ Answer(asked[c]).kind = "answer" /\ Answer(asked[c]).n = asked[c]
  BY DEF AnswerInv, AnswerTypes, Messages, Answer
<1>2. /\ out' = [out EXCEPT ![c] = Answer(asked[c])] /\ out[c].kind # "answer"
      /\ once'[c] = "done" /\ asked[c] \in Nat
  BY DEF HandsOver, Nothing, AnswerInv, AnswerTypes
<1>3. out' \in [Clients -> Messages] /\ out'[c] = Answer(asked[c])
  BY <1>1, <1>2 DEF MailInv
<1>4. CountInv(c)'
  <2>1. Due(c) = asked[c] - 1 /\ OnItsWay(c) = 0 /\ Due(c)' = asked[c] /\ OnItsWay(c)' = 1
    BY <1>1, <1>2, <1>3 DEF Due, OnItsWay
  <2>2. client[c] # "away"
    BY DEF HandsOver, AnswerInv, OnceInv
  <2>3. Len(answers[c]) \in Nat /\ CountInv(c)
    BY DEF MailInv
  <2> QED BY <1>1, <1>2, <1>3, <2>1, <2>2, <2>3 DEF CountInv
<1>5. ASSUME NEW d \in Clients \ {c} PROVE CountInv(d)'
  <2>1. out'[d] = out[d] /\ once'[d] = once[d]
    BY <1>2 DEF MailInv, AnswerInv, AnswerTypes
  <2> QED BY <2>1 DEF MailInv, CountInv, Due, OnItsWay
<1> QED BY <1>3, <1>4, <1>5 DEF MailInv

LEMMA WritesKeepsCount ==
  ASSUME MailInv, AnswerInv, NEW c \in Clients, Writes(c)
  PROVE  MailInv'
<1>1. /\ out' = [out EXCEPT ![c] = Nothing] /\ UNCHANGED <<asked, once, client>>
      /\ answers' = IF client[c] = "connected" /\ out[c].kind = "answer"
                      THEN [answers EXCEPT ![c] = Append(answers[c], out[c].n)] ELSE answers
      /\ client[c] # "stalled"
  BY DEF Writes, requestVars
<1>2. /\ out' \in [Clients -> Messages] /\ out'[c].kind # "answer" /\ asked[c] \in Nat
      /\ \A d \in Clients \ {c} : out'[d] = out[d] /\ answers'[d] = answers[d]
  BY <1>1 DEF MailInv, Messages, Nothing, AnswerInv, AnswerTypes
<1>3. \A d \in Clients \ {c} : CountInv(d)'
  BY <1>1, <1>2 DEF MailInv, CountInv, Due, OnItsWay
<1>4. CASE client[c] = "connected" /\ out[c].kind = "answer"
  <2> DEFINE s == answers[c]
             n == out[c].n
  <2>1. s \in Seq(Nat) /\ n \in Nat /\ n = Len(s) + 1 /\ n = Due(c) /\ \A i \in DOMAIN s : s[i] = i
    BY <1>1, <1>2, <1>4 DEF MailInv, CountInv, Due, OnItsWay
  <2>2. answers' = [answers EXCEPT ![c] = Append(s, n)]
    BY <1>1, <1>4
  <2>3. answers' \in [Clients -> Seq(Nat)] /\ answers'[c] = Append(s, n)
    BY <2>1, <2>2 DEF MailInv
  <2> HIDE DEF s, n
  <2>4. Len(Append(s, n)) = n /\ \A i \in DOMAIN Append(s, n) : Append(s, n)[i] = i
    BY <2>1
  <2>5. CountInv(c)'
    <3>1. OnItsWay(c)' = 0 /\ Due(c)' = Due(c)
      BY <1>1, <1>2 DEF Due, OnItsWay
    <3>2. CountInv(c)
      BY DEF MailInv
    <3> QED BY <1>1, <1>2, <1>4, <2>1, <2>3, <2>4, <3>1, <3>2 DEF CountInv
  <2> QED BY <1>2, <1>3, <2>3, <2>5 DEF MailInv
<1>5. CASE ~(client[c] = "connected" /\ out[c].kind = "answer")
  <2>1. answers' = answers
    BY <1>1, <1>5
  <2>2. client[c] # "gone" => OnItsWay(c) = 0
    BY <1>1, <1>5 DEF AnswerInv, AnswerTypes, MailInv, CountInv, OnItsWay
  <2>3. CountInv(c)'
    <3>1. OnItsWay(c)' = 0 /\ Due(c)' = Due(c)
      BY <1>1, <1>2 DEF Due, OnItsWay
    <3>2. CountInv(c) /\ out'[c].kind = "nothing"
      BY <1>1 DEF MailInv, Nothing
    <3> QED BY <1>1, <1>2, <2>1, <2>2, <3>1, <3>2 DEF CountInv
  <2> QED BY <1>2, <1>3, <2>1, <2>3 DEF MailInv
<1> QED BY <1>4, <1>5

LEMMA MailInvNext == MailInv /\ AnswerInv /\ [Next]_vars => MailInv'
<1> SUFFICES ASSUME MailInv, AnswerInv, [Next]_vars PROVE MailInv'
  OBVIOUS
<1> USE DEF busVars, tunnelVars, historyVars, registryVars, requestVars
<1>1. ASSUME UNCHANGED <<out, answers, asked, once, client>> PROVE MailInv'
  BY <1>1, MailStays
<1>2. ASSUME NEW c \in Clients, ClientChanges(c) \/ Connect(c) PROVE MailInv'
  <2>1. UNCHANGED <<out, answers, asked, once>>
    BY <1>2 DEF ClientChanges, Connect
  <2>2. \A d \in Clients : /\ client'[d] # "gone" => client[d] # "gone"
                           /\ client'[d] = "away" => client[d] = "away"
    BY <1>2 DEF ClientChanges, Connect, AnswerInv, AnswerTypes
  <2> QED BY <2>1, <2>2, MailStays
<1>3. ASSUME NEW c \in Clients, SettingUp(c) PROVE MailInv'
  <2>1. CASE StoreToken(c) \/ SubAny(c)
    BY <1>1, <2>1 DEF StoreToken, SubAny
  <2>2. CASE SayHello(c)
    <3>1. UNCHANGED <<answers, asked, once, client>> /\ (HandsOver(c, Hello) \/ UNCHANGED out)
      BY <2>2 DEF SayHello
    <3>2. Hello \in Messages /\ Hello.kind # "answer"
      BY DEF Hello, Messages
    <3> QED BY <1>1, <3>1, <3>2, OtherMailKeepsCount
  <2> QED BY <1>3, <2>1, <2>2 DEF SettingUp
<1>4. ASSUME NEW c \in Clients, Ask(c) PROVE MailInv'
  <2>1. /\ once[c] = "done" /\ UNCHANGED <<out, answers, client>> /\ asked[c] \in Nat
        /\ asked' = [asked EXCEPT ![c] = asked[c] + 1] /\ once' = [once EXCEPT ![c] = "nobody"]
    BY <1>4 DEF Ask, AnswerInv, AnswerTypes, OnceInv, AtRest
  <2>2. asked'[c] = asked[c] + 1 /\ once'[c] = "nobody"
        /\ \A d \in Clients \ {c} : asked'[d] = asked[d] /\ once'[d] = once[d]
    BY <2>1 DEF AnswerInv, AnswerTypes
  <2> QED BY <2>1, <2>2 DEF MailInv, CountInv, Due, OnItsWay
<1>5. ASSUME NEW c \in Clients, Writes(c) PROVE MailInv'
  BY <1>5, WritesKeepsCount
<1>6. ASSUME NEW c \in Clients, CloseOnce(c) \/ Handling(c) PROVE MailInv'
  BY <1>1, <1>6 DEF CloseOnce, Handling, CreateExec, DoCreate, CreateFails, CreateSucceeds,
                    CheckExec, ListContainersExec, ResizeExec, SendSize, InHandler
<1>7. ASSUME NEW c \in Clients, Answering(c) PROVE MailInv'
  <2>1. CASE HandlerReleases(c) \/ HandlerReturns(c) \/ TimerFires(c)
    <3>1. UNCHANGED <<out, answers, asked, client>>
      BY <2>1 DEF HandlerReleases, HandlerReturns, TimerFires
    <3>2. \A d \in Clients : once'[d] = "done" <=> once[d] = "done"
      BY <2>1 DEF HandlerReleases, HandlerReturns, TimerFires, MayRelease, AnswerInv, AnswerTypes
    <3> QED BY <3>1, <3>2, MailStays
  <2>2. CASE TakeReply(c)
    <3>1. /\ HandsOver(c, Answer(asked[c])) /\ once' = [once EXCEPT ![c] = "done"] /\ once[c] # "done"
          /\ UNCHANGED <<answers, asked, client>>
      BY <2>2 DEF TakeReply, AnswerInv, OnceInv
    <3> QED BY <3>1, AnswerKeepsCount
  <2>3. CASE TakeTimeout(c)
    <3>1. /\ HandsOver(c, Answer(asked[c])) /\ once' = [once EXCEPT ![c] = "done"] /\ once[c] # "done"
          /\ UNCHANGED <<answers, asked, client>>
      BY <2>3 DEF TakeTimeout, AnswerInv, OnceInv
    <3> QED BY <3>1, AnswerKeepsCount
  <2> QED BY <1>7, <2>1, <2>2, <2>3 DEF Answering
<1>8. ASSUME NEW id \in Ids, Attach(id) \/ TakeSize(id) \/ StreamEnds(id) \/ Remove(id) \/ Pub(id)
      PROVE  MailInv'
  BY <1>1, <1>8 DEF Attach, TakeSize, StreamEnds, Remove, Pub, InExec
<1>9. ASSUME NEW id \in Ids, Accept(id) PROVE MailInv'
  <2>1. PICK c : (HandsOver(c, End(id)) \/ UNCHANGED out) /\ UNCHANGED <<answers, asked, once, client>>
    BY <1>9 DEF Accept, InExec
  <2>2. End(id) \in Messages /\ End(id).kind # "answer"
    BY DEF End, Messages
  <2> QED BY <1>1, <2>1, <2>2, OtherMailKeepsCount
<1>10. CASE UNCHANGED vars
  BY <1>1, <1>10 DEF vars
<1> QED BY <1>2, <1>3, <1>4, <1>5, <1>6, <1>7, <1>8, <1>9, <1>10 DEF Next, Watching

LEMMA MailInvCorrect == Spec => []MailInv
<1>1. Init => MailInv
  BY DEF Init, MailInv, CountInv, Due, OnItsWay, Nothing, Messages
<1> QED BY <1>1, MailInvNext, AnswerInvCorrect, PTL DEF Spec

\* A client has, or is being written, the answers to its requests that are done with,
\* one to each and in their order, although handlers and timers both give some, and
\* the next request may be read before the answer is delivered.
THEOREM RequestsAreAnsweredOnce == Spec => []AnsweredOnce
<1>1. MailInv => AnsweredOnce
  BY DEF MailInv, CountInv, Due, OnItsWay, AnsweredOnce
<1> QED BY <1>1, MailInvCorrect, PTL

-----------------------------------------------------------------------------
(***************************************************************************)
(* Who is notified.  An exec that is being published has ended and is not  *)
(* registered; its identifier does not come back because identifiers grow; *)
(* and a client is among the consumers once, because it is there only      *)
(* after its one subscription.                                             *)
(***************************************************************************)
NoneTwice(s) == \A i, j \in DOMAIN s : s[i] = s[j] => i = j

At == {"none", "waiting", "pub", "accept"}
Readers == {"idle", "handle", "try", "watch", "resize", "reply", "sending", "ended"}

WatcherTypes ==
    /\ watcher \in [Ids -> [at : At, left : Seq(Clients)]]
    /\ notices \in [Clients -> [Ids -> Nat]]
    /\ life \in [Ids -> {"none", "created", "streaming", "ended"}]

HandlerTypes ==
    /\ prevExecID \in Nat
    /\ reader \in [Clients -> Readers]
    /\ request = [c \in Clients |-> request[c]]

ConsumersInv ==
    /\ consumers \in Seq(Clients)
    /\ setup \in [Clients -> {"none", "token", "subscribe", "hello", "done"}]
    /\ client \in [Clients -> {"away", "connected", "stalled", "gone"}]
    /\ NoneTwice(consumers)
    /\ \A i \in DOMAIN consumers : setup[consumers[i]] \in {"hello", "done"}
    /\ \A c \in Clients : client[c] = "away" => setup[c] = "none"
    /\ \A c \in Clients : setup[c] \in {"hello", "done"} => \E i \in DOMAIN consumers : consumers[i] = c

IdsInv ==
    /\ \A id \in Ids : life[id] # "none" \/ watcher[id].at # "none" => id <= prevExecID
    /\ \A c \in Clients : reader[c] = "watch" =>
          /\ request[c].id \in Nat /\ request[c].id <= prevExecID
          /\ request[c].id \in Ids => watcher[request[c].id].at = "none"
          /\ \A d \in Clients : reader[d] = "watch" /\ request[d].id = request[c].id => d = c

\* The notice of the end of id is on its way to c.
Comes(c, id) == out[c].kind = "end" /\ out[c].id = id

NoticesInv ==
    \A id \in Ids :
        /\ NoneTwice(watcher[id].left)
        /\ watcher[id].at \in {"pub", "accept"} => id \notin execMap /\ life[id] = "ended"
        /\ \A c \in Clients :
              /\ notices[c][id] <= 1
              /\ Comes(c, id) => notices[c][id] = 0
              /\ notices[c][id] > 0 \/ Comes(c, id) =>
                    watcher[id].at = "accept" /\ \A i \in DOMAIN watcher[id].left : watcher[id].left[i] # c

BusInv == WatcherTypes /\ HandlerTypes /\ ConsumersInv /\ IdsInv /\ NoticesInv

LEMMA TailHasNoneTwice ==
  ASSUME NEW s \in Seq(Clients), s # <<>>, NoneTwice(s)
  PROVE  /\ Head(s) \in Clients /\ Tail(s) \in Seq(Clients)
         /\ NoneTwice(Tail(s))
         /\ \A i \in DOMAIN Tail(s) : Tail(s)[i] # Head(s)
         /\ \A i \in DOMAIN Tail(s) : \E j \in DOMAIN s : Tail(s)[i] = s[j]
<1>1. Head(s) \in Clients /\ Tail(s) \in Seq(Clients) /\ Head(s) = s[1] /\ 1 \in DOMAIN s
  OBVIOUS
<1>2. \A i \in DOMAIN Tail(s) : i \in Nat /\ i + 1 \in DOMAIN s /\ i + 1 # 1 /\ Tail(s)[i] = s[i + 1]
  OBVIOUS
<1>3. \A i, j \in DOMAIN Tail(s) : i + 1 = j + 1 => i = j
  BY <1>2
<1> QED BY <1>1, <1>2, <1>3 DEF NoneTwice

NoEndTaken == \A c \in Clients, id \in Ids : Comes(c, id)' <=> Comes(c, id)

LEMMA OtherMailIsNoEnd ==
  ASSUME MailInv, NEW c, NEW message, message.kind # "end", HandsOver(c, message) \/ UNCHANGED out
  PROVE  NoEndTaken
<1>1. ASSUME NEW d \in Clients, NEW id \in Ids PROVE Comes(d, id)' <=> Comes(d, id)
  <2>1. out'[d] = out[d] \/ (out'[d].kind # "end" /\ out[d].kind # "end")
    <3>1. CASE HandsOver(c, message) /\ d = c
      <4>1. out'[d] = message /\ out[d] = Nothing
        BY <3>1 DEF HandsOver, MailInv
      <4> QED BY <4>1 DEF Nothing
    <3>2. CASE HandsOver(c, message) /\ d # c
      BY <3>2 DEF HandsOver, MailInv
    <3> QED BY <3>1, <3>2
  <2> QED BY <2>1 DEF Comes
<1> QED BY <1>1 DEF NoEndTaken

LEMMA NoMailNoEnd == ASSUME UNCHANGED out PROVE NoEndTaken
BY DEF NoEndTaken, Comes

\* Steps that change no exec, no watcher and no notice.
LEMMA QuietKeepsBus ==
  ASSUME BusInv, NoEndTaken, NEW c \in Clients,
         UNCHANGED <<watcher, notices, life, prevExecID, execMap, consumers, setup, client>>,
         NEW at \in Readers \ {"watch"}, reader' = [reader EXCEPT ![c] = at],
         \/ UNCHANGED request
         \/ \E r : request' = [request EXCEPT ![c] = r]
  PROVE  BusInv'
<1>1. reader'[c] = at /\ \A d \in Clients \ {c} : reader'[d] = reader[d] /\ request'[d] = request[d]
  BY DEF BusInv, HandlerTypes
<1>2. WatcherTypes' /\ ConsumersInv' /\ NoticesInv'
  BY DEF BusInv, WatcherTypes, ConsumersInv, NoticesInv, NoEndTaken
<1>3. HandlerTypes'
  BY DEF BusInv, HandlerTypes
<1>4. IdsInv'
  BY <1>1 DEF BusInv, IdsInv
<1> QED BY <1>2, <1>3, <1>4 DEF BusInv

\* Steps that change nothing but the subscriptions and the clients.
LEMMA StillKeepsBus ==
  ASSUME BusInv, ConsumersInv', NoEndTaken,
         UNCHANGED <<watcher, notices, life, prevExecID, execMap, reader, request>>
  PROVE  BusInv'
BY DEF BusInv, WatcherTypes, HandlerTypes, IdsInv, NoticesInv, NoEndTaken

\* Who is still to be notified has not been, and no notice is on its way.
LEMMA StillToNotify ==
  ASSUME BusInv, NEW id \in Ids, NEW c \in Clients,
         \E j \in DOMAIN watcher[id].left : watcher[id].left[j] = c
  PROVE  notices[c][id] = 0 /\ ~Comes(c, id)
<1>1. notices[c][id] \in Nat /\ ~(notices[c][id] > 0) /\ ~Comes(c, id)
  BY DEF BusInv, WatcherTypes, NoticesInv
<1> QED BY <1>1

LEMMA AcceptKeepsBus ==
  ASSUME BusInv, MailInv, NEW id \in Ids, Accept(id)
  PROVE  BusInv'
<1> DEFINE s == watcher[id].left
           c == Head(s)
<1>1. /\ watcher[id].at = "accept" /\ s # <<>>
      /\ watcher' = [watcher EXCEPT ![id] = [at |-> "accept", left |-> Tail(s)]]
      /\ HandsOver(c, End(id)) \/ UNCHANGED out
      /\ UNCHANGED <<notices, consumers, setup, client, life, prevExecID, execMap, reader, request>>
  BY DEF Accept, WatcherMoves, InExec, requestVars, historyVars
<1>2. s \in Seq(Clients) /\ NoneTwice(s)
  BY DEF BusInv, WatcherTypes, NoticesInv
<1>3. /\ c \in Clients /\ Tail(s) \in Seq(Clients) /\ NoneTwice(Tail(s))
      /\ \A i \in DOMAIN Tail(s) : Tail(s)[i] # c
      /\ \A i \in DOMAIN Tail(s) : \E j \in DOMAIN s : Tail(s)[i] = s[j]
  BY <1>1, <1>2, TailHasNoneTwice
<1>4. \E j \in DOMAIN s : s[j] = c
  BY <1>1, <1>2
<1>5. notices[c][id] = 0
  BY <1>3, <1>4, StillToNotify
<1>6. /\ watcher'[id] = [at |-> "accept", left |-> Tail(s)]
      /\ \A i \in Ids \ {id} : watcher'[i] = watcher[i]
  BY <1>1 DEF BusInv, WatcherTypes
<1> HIDE DEF c, s
<1>7. \A d \in Clients, i \in Ids : Comes(d, i)' => Comes(d, i) \/ (d = c /\ i = id)
  <2> SUFFICES ASSUME NEW d \in Clients, NEW i \in Ids, Comes(d, i)', ~Comes(d, i)
               PROVE  d = c /\ i = id
    OBVIOUS
  <2>1. out'[d] # out[d] /\ out'[d].id = i
    BY DEF Comes
  <2>2. out' = [out EXCEPT ![c] = End(id)] /\ out \in [Clients -> Messages]
    BY <1>1, <2>1 DEF HandsOver, MailInv
  <2> QED BY <2>1, <2>2 DEF End
<1>8. WatcherTypes'
  BY <1>1, <1>3 DEF BusInv, WatcherTypes, At
<1>9. IdsInv'
  BY <1>1, <1>6 DEF BusInv, IdsInv
<1>10. NoticesInv'
  <2> SUFFICES ASSUME NEW i \in Ids
               PROVE  /\ NoneTwice(watcher'[i].left)
                      /\ watcher'[i].at \in {"pub", "accept"} => i \notin execMap' /\ life'[i] = "ended"
                      /\ \A d \in Clients :
                            /\ notices'[d][i] <= 1
                            /\ Comes(d, i)' => notices'[d][i] = 0
                            /\ notices'[d][i] > 0 \/ Comes(d, i)' =>
                                  /\ watcher'[i].at = "accept"
                                  /\ \A k \in DOMAIN watcher'[i].left : watcher'[i].left[k] # d
    BY DEF NoticesInv
  <2>1. CASE i # id
    BY <1>1, <1>6, <1>7, <2>1 DEF BusInv, NoticesInv
  <2>2. CASE i = id
    <3>1. watcher'[i].at = "accept" /\ watcher'[i].left = Tail(s)
      BY <1>6, <2>2
    <3>2. i \notin execMap' /\ life'[i] = "ended"
      BY <1>1, <2>2 DEF BusInv, NoticesInv
    <3>3. ASSUME NEW d \in Clients, d # c
          PROVE  /\ notices'[d][i] <= 1
                 /\ Comes(d, i)' => notices'[d][i] = 0
                 /\ notices'[d][i] > 0 \/ Comes(d, i)' => \A k \in DOMAIN Tail(s) : Tail(s)[k] # d
      BY <1>1, <1>3, <1>7, <2>2, <3>3 DEF BusInv, NoticesInv, s
    <3>4. notices'[c][i] = 0
      BY <1>1, <1>5, <2>2
    <3> QED BY <1>3, <2>2, <3>1, <3>2, <3>3, <3>4
  <2> QED BY <2>1, <2>2
<1> QED BY <1>1, <1>8, <1>9, <1>10 DEF BusInv, HandlerTypes, ConsumersInv

\* A notice that arrives is the first.
LEMMA WritesKeepsBus ==
  ASSUME BusInv, MailInv, NEW c \in Clients, Writes(c)
  PROVE  BusInv'
<1>1. /\ out' = [out EXCEPT ![c] = Nothing]
      /\ UNCHANGED <<watcher, consumers, setup, client, life, prevExecID, execMap, reader, request>>
      /\ \/ UNCHANGED notices
         \/ out[c].kind = "end" /\ notices' = [notices EXCEPT ![c][out[c].id] = notices[c][out[c].id] + 1]
  BY DEF Writes, registryVars, busVars, requestVars
<1>2. ~\E id \in Ids : Comes(c, id)'
  BY <1>1 DEF Comes, MailInv, Nothing
<1>3. \A d \in Clients, id \in Ids : Comes(d, id)' => Comes(d, id) /\ d # c
  BY <1>1, <1>2 DEF Comes, MailInv
<1>4. ConsumersInv' /\ IdsInv' /\ HandlerTypes'
  BY <1>1 DEF BusInv, ConsumersInv, IdsInv, HandlerTypes
<1>5. CASE UNCHANGED notices
  BY <1>1, <1>3, <1>4, <1>5 DEF BusInv, WatcherTypes, NoticesInv
<1>6. CASE out[c].kind = "end" /\ notices' = [notices EXCEPT ![c][out[c].id] = notices[c][out[c].id] + 1]
  <2>1. PICK id \in Ids : id = out[c].id /\ Comes(c, id)
    BY <1>6 DEF MailInv, Messages, Nothing, Hello, Comes
  <2>2. notices[c][id] = 0 /\ watcher[id].at = "accept"
        /\ \A i \in DOMAIN watcher[id].left : watcher[id].left[i] # c
    BY <2>1 DEF BusInv, NoticesInv
  <2>3. /\ notices' \in [Clients -> [Ids -> Nat]] /\ notices'[c][id] = 1
        /\ \A d \in Clients, i \in Ids : d # c \/ i # id => notices'[d][i] = notices[d][i]
    BY <1>6, <2>1, <2>2 DEF BusInv, WatcherTypes
  <2>4. WatcherTypes'
    BY <1>1, <2>3 DEF BusInv, WatcherTypes
  <2>5. NoticesInv'
    <3> SUFFICES ASSUME NEW i \in Ids, NEW d \in Clients
                 PROVE  /\ notices'[d][i] <= 1
                        /\ Comes(d, i)' => notices'[d][i] = 0
                        /\ notices'[d][i] > 0 \/ Comes(d, i)' =>
                              /\ watcher[i].at = "accept"
                              /\ \A k \in DOMAIN watcher[i].left : watcher[i].left[k] # d
      BY <1>1 DEF BusInv, NoticesInv
    <3>1. CASE d = c /\ i = id
      BY <1>3, <2>2, <2>3, <3>1
    <3>2. CASE d # c \/ i # id
      BY <1>3, <2>3, <3>2 DEF BusInv, NoticesInv
    <3> QED BY <3>1, <3>2
  <2> QED BY <1>4, <2>4, <2>5 DEF BusInv
<1> QED BY <1>1, <1>5, <1>6

LEMMA WatchingKeepsBus ==
  ASSUME BusInv, NEW id \in Ids, Remove(id) \/ Pub(id)
  PROVE  BusInv'
<1>1. PICK at \in {"pub", "accept"}, left \in {<<>>, consumers} :
        /\ watcher' = [watcher EXCEPT ![id] = [at |-> at, left |-> left]]
        /\ watcher[id].at \in {"waiting", "pub"} /\ life[id] = "ended"
        /\ execMap' \subseteq execMap /\ id \notin execMap'
        /\ UNCHANGED <<notices, out, consumers, setup, client, life, prevExecID, reader, request>>
  <2>1. CASE Remove(id)
    BY <2>1 DEF Remove, WatcherMoves, InExec, requestVars, historyVars
  <2>2. CASE Pub(id)
    BY <2>2 DEF Pub, WatcherMoves, InExec, requestVars, historyVars, BusInv, NoticesInv
  <2> QED BY <2>1, <2>2
<1>2. left \in Seq(Clients) /\ NoneTwice(left)
  <2>1. CASE left = <<>>
    BY <2>1 DEF NoneTwice
  <2>2. CASE left = consumers
    BY <2>2 DEF BusInv, ConsumersInv
  <2> QED BY <1>1, <2>1, <2>2
<1>3. /\ watcher'[id] = [at |-> at, left |-> left]
      /\ \A i \in Ids \ {id} : watcher'[i] = watcher[i]
  BY <1>1 DEF BusInv, WatcherTypes
<1>4. \A c \in Clients : notices[c][id] = 0 /\ ~Comes(c, id)
  <2>1. ASSUME NEW c \in Clients PROVE ~(notices[c][id] > 0) /\ ~Comes(c, id) /\ notices[c][id] \in Nat
    BY <1>1 DEF BusInv, WatcherTypes, NoticesInv
  <2> QED BY <2>1
<1>5. WatcherTypes'
  BY <1>1, <1>2 DEF BusInv, WatcherTypes, At
<1>6. IdsInv'
  BY <1>1, <1>3 DEF BusInv, IdsInv
<1>7. NoticesInv'
  <2>1. NoEndTaken
    BY <1>1, NoMailNoEnd
  <2> QED BY <1>1, <1>2, <1>3, <1>4, <2>1 DEF BusInv, NoticesInv, NoEndTaken
<1> QED BY <1>1, <1>5, <1>6, <1>7 DEF BusInv, HandlerTypes, ConsumersInv

LEMMA DoCreateKeepsBus ==
  ASSUME BusInv, NEW c \in Clients, DoCreate(c)
  PROVE  BusInv'
<1>1. /\ reader[c] = "try"
      /\ UNCHANGED <<watcher, notices, out, consumers, setup, client>>
      /\ \/ /\ \E r : request' = [request EXCEPT ![c] = r]
            /\ UNCHANGED <<reader, execMap, prevExecID, life>>
         \/ /\ prevExecID' = prevExecID + 1
            /\ execMap' = execMap \cup {prevExecID + 1}
            /\ life' = [life EXCEPT ![prevExecID + 1] = "created"]
            /\ request' = [request EXCEPT ![c] = [method |-> "create", id |-> prevExecID + 1]]
            /\ reader' = [reader EXCEPT ![c] = "watch"]
  BY DEF DoCreate, NextID, Handles, InHandler, busVars, tunnelVars, historyVars
<1>2. CASE /\ \E r : request' = [request EXCEPT ![c] = r]
           /\ UNCHANGED <<reader, execMap, prevExecID, life>>
  <2>1. reader' = [reader EXCEPT ![c] = "try"] /\ "try" \in Readers \ {"watch"}
    BY <1>1, <1>2 DEF BusInv, HandlerTypes, Readers
  <2> QED BY <1>1, <1>2, <2>1, QuietKeepsBus, NoMailNoEnd
<1>3. CASE /\ prevExecID' = prevExecID + 1
           /\ execMap' = execMap \cup {prevExecID + 1}
           /\ life' = [life EXCEPT ![prevExecID + 1] = "created"]
           /\ request' = [request EXCEPT ![c] = [method |-> "create", id |-> prevExecID + 1]]
           /\ reader' = [reader EXCEPT ![c] = "watch"]
  <2>1. /\ reader'[c] = "watch" /\ request'[c].id = prevExecID + 1 /\ prevExecID \in Nat
        /\ \A d \in Clients \ {c} : reader'[d] = reader[d] /\ request'[d] = request[d]
    BY <1>3 DEF BusInv, HandlerTypes
  <2>2. \A i \in Ids : /\ i \in Nat
                       /\ i # prevExecID + 1 => life'[i] = life[i]
                       /\ i = prevExecID + 1 => watcher[i].at = "none"
    BY <1>3, <2>1 DEF BusInv, WatcherTypes, IdsInv, Ids
  <2>3. WatcherTypes' /\ HandlerTypes' /\ ConsumersInv'
    <3>1. WatcherTypes'
      BY <1>1, <1>3 DEF BusInv, WatcherTypes
    <3>2. HandlerTypes'
      BY <1>1, <1>3 DEF BusInv, HandlerTypes, Readers
    <3>3. ConsumersInv'
      BY <1>1, <1>3 DEF BusInv, ConsumersInv
    <3> QED BY <3>1, <3>2, <3>3
  <2>4. IdsInv'
    <3>1. \A i \in Ids : life'[i] # "none" \/ watcher'[i].at # "none" => i <= prevExecID'
      BY <1>1, <1>3, <2>1, <2>2 DEF BusInv, IdsInv
    <3>2. \A d \in Clients \ {c} : reader[d] = "watch" =>
             request[d].id \in Nat /\ request[d].id <= prevExecID /\ request[d].id # prevExecID + 1
      BY <2>1 DEF BusInv, IdsInv
    <3>3. ASSUME NEW d \in Clients, reader'[d] = "watch"
          PROVE  /\ request'[d].id \in Nat /\ request'[d].id <= prevExecID'
                 /\ request'[d].id \in Ids => watcher'[request'[d].id].at = "none"
                 /\ \A e \in Clients : reader'[e] = "watch" /\ request'[e].id = request'[d].id => e = d
      <4>1. CASE d = c
        BY <1>1, <1>3, <2>1, <2>2, <3>2, <4>1
      <4>2. CASE d # c
        BY <1>1, <1>3, <2>1, <3>2, <3>3, <4>2 DEF BusInv, IdsInv
      <4> QED BY <4>1, <4>2
    <3> QED BY <3>1, <3>3 DEF IdsInv
  <2>5. NoticesInv'
    BY <1>1, <1>3, <2>2, NoMailNoEnd DEF BusInv, NoticesInv, NoEndTaken
  <2> QED BY <2>3, <2>4, <2>5 DEF BusInv
<1> QED BY <1>1, <1>2, <1>3

LEMMA CreateSucceedsKeepsBus ==
  ASSUME BusInv, NEW c \in Clients, CreateSucceeds(c)
  PROVE  BusInv'
<1> DEFINE id == request[c].id
<1>1. /\ reader[c] = "watch" /\ reader' = [reader EXCEPT ![c] = "reply"]
      /\ watcher' = [watcher EXCEPT ![id].at = "waiting"]
      /\ request' = [request EXCEPT ![c] = NoRequest]
      /\ UNCHANGED <<notices, out, consumers, setup, client, life, prevExecID, execMap>>
  BY DEF CreateSucceeds, Reply, Handles, registryVars, tunnelVars, historyVars
<1>2. /\ reader'[c] = "reply"
      /\ \A d \in Clients \ {c} : reader'[d] = reader[d] /\ request'[d] = request[d]
  BY <1>1 DEF BusInv, HandlerTypes
<1>3. /\ id \in Nat /\ id <= prevExecID
      /\ id \in Ids => watcher[id].at = "none"
      /\ \A d \in Clients \ {c} : reader[d] = "watch" => request[d].id # id
  BY <1>1 DEF BusInv, IdsInv
<1> HIDE DEF id
<1>4. /\ \A i \in Ids : i # id => watcher'[i] = watcher[i]
      /\ id \in Ids => watcher'[id].at = "waiting" /\ watcher'[id].left = watcher[id].left
      /\ watcher' \in [Ids -> [at : At, left : Seq(Clients)]]
  BY <1>1 DEF BusInv, WatcherTypes, At
<1>5. WatcherTypes' /\ HandlerTypes' /\ ConsumersInv'
  <2>1. WatcherTypes' /\ ConsumersInv'
    BY <1>1, <1>4 DEF BusInv, WatcherTypes, ConsumersInv
  <2>2. HandlerTypes'
    BY <1>1 DEF BusInv, HandlerTypes, Readers
  <2> QED BY <2>1, <2>2
<1>6. IdsInv'
  BY <1>1, <1>2, <1>3, <1>4 DEF BusInv, IdsInv
<1>7. NoticesInv'
  BY <1>1, <1>3, <1>4, NoMailNoEnd DEF BusInv, NoticesInv, NoEndTaken, WatcherTypes
<1> QED BY <1>5, <1>6, <1>7 DEF BusInv

LEMMA HandlingKeepsBus ==
  ASSUME BusInv, NEW c \in Clients, Handling(c)
  PROVE  BusInv'
<1>1. CASE DoCreate(c)
  BY <1>1, DoCreateKeepsBus
<1>2. CASE CreateSucceeds(c)
  BY <1>2, CreateSucceedsKeepsBus
<1>3. CASE CreateExec(c) \/ CreateFails(c) \/ CheckExec(c) \/ ListContainersExec(c) \/ ResizeExec(c) \/ SendSize(c)
  <2>1. /\ UNCHANGED <<watcher, notices, out, life, prevExecID, execMap, consumers, setup, client>>
        /\ \E at \in Readers \ {"watch"} : reader' = [reader EXCEPT ![c] = at]
        /\ UNCHANGED request \/ \E r : request' = [request EXCEPT ![c] = r]
    <3> USE DEF Reply, InHandler, busVars, tunnelVars, historyVars, registryVars, Readers
    <3>1. CASE CreateExec(c)
      <4> DEFINE accepted == ValidateNoShellMetacharacters(request[c].exec.cwd) /\ setToken(c)
      <4>1. CASE accepted
        BY <3>1, <4>1 DEF CreateExec
      <4>2. CASE ~accepted
        BY <3>1, <4>2 DEF CreateExec
      <4> QED BY <4>1, <4>2
    <3>2. CASE CreateFails(c)
      BY <3>2 DEF CreateFails
    <3>3. CASE CheckExec(c)
      BY <3>3 DEF CheckExec
    <3>4. CASE ListContainersExec(c)
      BY <3>4 DEF ListContainersExec
    <3>5. CASE ResizeExec(c)
      BY <3>5 DEF ResizeExec
    <3>6. CASE SendSize(c)
      BY <3>6 DEF SendSize
    <3> QED BY <1>3, <3>1, <3>2, <3>3, <3>4, <3>5, <3>6
  <2> QED BY <2>1, QuietKeepsBus, NoMailNoEnd
<1> QED BY <1>1, <1>2, <1>3 DEF Handling

LEMMA AnsweringKeepsBus ==
  ASSUME BusInv, MailInv, NEW c \in Clients, Answering(c) \/ Ask(c) \/ CloseOnce(c)
  PROVE  BusInv'
<1>1. /\ UNCHANGED <<watcher, notices, life, prevExecID, execMap, consumers, setup, client>>
      /\ UNCHANGED reader \/ \E at \in Readers \ {"watch"} : reader' = [reader EXCEPT ![c] = at]
      /\ UNCHANGED request \/ (~UNCHANGED reader /\ \E r : request' = [request EXCEPT ![c] = r])
      /\ HandsOver(c, Answer(asked[c])) \/ UNCHANGED out
  <2> USE DEF busVars, tunnelVars, historyVars, registryVars, Readers
  <2>1. CASE HandlerReleases(c)
    BY <2>1 DEF HandlerReleases
  <2>2. CASE HandlerReturns(c)
    BY <2>2 DEF HandlerReturns
  <2>3. CASE TimerFires(c) \/ TakeTimeout(c)
    BY <2>3 DEF TimerFires, TakeTimeout
  <2>4. CASE TakeReply(c)
    BY <2>4 DEF TakeReply
  <2>5. CASE Ask(c)
    BY <2>5 DEF Ask, BusInv, HandlerTypes
  <2>6. CASE CloseOnce(c)
    BY <2>6 DEF CloseOnce
  <2> QED BY <2>1, <2>2, <2>3, <2>4, <2>5, <2>6 DEF Answering
<1>2. NoEndTaken
  <2>1. Answer(asked[c]).kind # "end"
    BY DEF Answer
  <2> QED BY <1>1, <2>1, OtherMailIsNoEnd
<1>3. CASE UNCHANGED <<reader, request>>
  BY <1>1, <1>2, <1>3, StillKeepsBus DEF BusInv, ConsumersInv
<1>4. CASE \E at \in Readers \ {"watch"} : reader' = [reader EXCEPT ![c] = at]
  BY <1>1, <1>2, <1>4, QuietKeepsBus
<1> QED BY <1>1, <1>3, <1>4

LEMMA SettingUpKeepsBus ==
  ASSUME BusInv, MailInv, NEW c \in Clients, SettingUp(c) \/ Connect(c) \/ ClientChanges(c)
  PROVE  BusInv'
<1> USE DEF busVars, historyVars, registryVars, requestVars
<1>1. CASE SubAny(c)
  <2>1. /\ setup[c] = "subscribe" /\ consumers' = Append(consumers, c)
        /\ setup' = [setup EXCEPT ![c] = "hello"]
        /\ UNCHANGED <<watcher, notices, out, life, prevExecID, execMap, reader, request, client>>
    BY <1>1 DEF SubAny
  <2>2. consumers \in Seq(Clients) /\ \A i \in DOMAIN consumers : consumers[i] # c
    BY <2>1 DEF BusInv, ConsumersInv
  <2>3. /\ consumers' \in Seq(Clients) /\ Len(consumers) \in Nat
        /\ DOMAIN consumers' = 1 .. Len(consumers) + 1 /\ DOMAIN consumers = 1 .. Len(consumers)
        /\ consumers'[Len(consumers) + 1] = c
        /\ \A i \in 1 .. Len(consumers) : consumers'[i] = consumers[i]
    BY <2>1, <2>2
  <2>4. NoneTwice(consumers')
    <3> SUFFICES ASSUME NEW i \in 1 .. Len(consumers) + 1, NEW j \in 1 .. Len(consumers) + 1,
                        consumers'[i] = consumers'[j]
                 PROVE  i = j
      BY <2>3 DEF NoneTwice
    <3>1. CASE i = Len(consumers) + 1 \/ j = Len(consumers) + 1
      BY <2>2, <2>3, <3>1
    <3>2. CASE i \in 1 .. Len(consumers) /\ j \in 1 .. Len(consumers)
      BY <2>3, <3>2 DEF BusInv, ConsumersInv, NoneTwice
    <3> QED BY <2>3, <3>1, <3>2
  <2>5. \A d \in Clients : setup'[d] = IF d = c THEN "hello" ELSE setup[d]
    BY <2>1 DEF BusInv, ConsumersInv
  <2>6. \A i \in DOMAIN consumers' : setup'[consumers'[i]] \in {"hello", "done"}
    <3>1. \A i \in 1 .. Len(consumers) : setup'[consumers[i]] \in {"hello", "done"}
      BY <2>2, <2>3, <2>5 DEF BusInv, ConsumersInv
    <3> QED BY <2>3, <2>5, <3>1
  <2>7. \A d \in Clients : setup'[d] \in {"hello", "done"} => \E i \in DOMAIN consumers' : consumers'[i] = d
    <3> SUFFICES ASSUME NEW d \in Clients, setup'[d] \in {"hello", "done"}
                 PROVE  \E i \in DOMAIN consumers' : consumers'[i] = d
      OBVIOUS
    <3>1. CASE d = c
      BY <2>3, <3>1
    <3>2. CASE d # c
      <4>1. PICK i \in DOMAIN consumers : consumers[i] = d
        BY <2>5, <3>2 DEF BusInv, ConsumersInv
      <4> QED BY <2>3, <4>1
    <3> QED BY <3>1, <3>2
  <2>8. ConsumersInv'
    BY <2>1, <2>3, <2>4, <2>5, <2>6, <2>7 DEF BusInv, ConsumersInv
  <2> QED BY <2>1, <2>8, StillKeepsBus, NoMailNoEnd
<1>2. CASE StoreToken(c) \/ SayHello(c)
  <2>1. ConsumersInv'
    BY <1>2 DEF StoreToken, SayHello, BusInv, ConsumersInv
  <2>2. NoEndTaken
    <3>1. HandsOver(c, Hello) \/ UNCHANGED out
      BY <1>2 DEF StoreToken, SayHello
    <3> QED BY <3>1, OtherMailIsNoEnd DEF Hello
  <2> QED BY <1>2, <2>1, <2>2, StillKeepsBus DEF StoreToken, SayHello
<1>3. CASE Connect(c)
  <2>1. ConsumersInv'
    BY <1>3 DEF Connect, BusInv, ConsumersInv
  <2> QED BY <1>3, <2>1, StillKeepsBus, NoMailNoEnd DEF Connect
<1>4. CASE ClientChanges(c)
  <2>1. ConsumersInv'
    BY <1>4 DEF ClientChanges, BusInv, ConsumersInv
  <2> QED BY <1>4, <2>1, StillKeepsBus, NoMailNoEnd DEF ClientChanges
<1> QED BY <1>1, <1>2, <1>3, <1>4 DEF SettingUp

LEMMA BusInvNext == BusInv /\ MailInv /\ [Next]_vars => BusInv'
<1> SUFFICES ASSUME BusInv, MailInv, [Next]_vars PROVE BusInv'
  OBVIOUS
<1>1. ASSUME NEW c \in Clients, Handling(c) PROVE BusInv'
  BY <1>1, HandlingKeepsBus
<1>2. ASSUME NEW id \in Ids, Watching(id) PROVE BusInv'
  BY <1>2, WatchingKeepsBus, AcceptKeepsBus DEF Watching
<1>3. ASSUME NEW id \in Ids, Attach(id) \/ TakeSize(id) \/ StreamEnds(id) PROVE BusInv'
  <2>1. /\ UNCHANGED <<watcher, notices, out, prevExecID, execMap, reader, request, consumers, setup, client>>
        /\ \/ UNCHANGED life
           \/ \E l \in {"streaming", "ended"} : life[id] \notin {"none", "ended"} /\ life' = [life EXCEPT ![id] = l]
    BY <1>3 DEF Attach, TakeSize, StreamEnds, InExec, requestVars, historyVars, busVars
  <2>2. \A i \in Ids : /\ life'[i] # "none" => life[i] # "none"
                       /\ life[i] = "ended" => life'[i] = "ended"
    BY <2>1 DEF BusInv, WatcherTypes
  <2>3. life' \in [Ids -> {"none", "created", "streaming", "ended"}]
    BY <2>1 DEF BusInv, WatcherTypes
  <2>4. WatcherTypes' /\ HandlerTypes' /\ ConsumersInv'
    BY <2>1, <2>3 DEF BusInv, WatcherTypes, HandlerTypes, ConsumersInv
  <2>5. IdsInv'
    BY <2>1, <2>2 DEF BusInv, IdsInv
  <2>6. NoticesInv'
    BY <2>1, <2>2, NoMailNoEnd DEF BusInv, NoticesInv, NoEndTaken
  <2> QED BY <2>4, <2>5, <2>6 DEF BusInv
<1>4. ASSUME NEW c \in Clients, Answering(c) \/ Ask(c) \/ CloseOnce(c) PROVE BusInv'
  BY <1>4, AnsweringKeepsBus
<1>5. ASSUME NEW c \in Clients, SettingUp(c) \/ Connect(c) \/ ClientChanges(c) PROVE BusInv'
  BY <1>5, SettingUpKeepsBus
<1>6. ASSUME NEW c \in Clients, Writes(c) PROVE BusInv'
  BY <1>6, WritesKeepsBus
<1>7. CASE UNCHANGED vars
  <2>1. UNCHANGED <<watcher, notices, out, life, prevExecID, execMap, reader, request, consumers, setup, client>>
    BY <1>7 DEF vars, busVars, tunnelVars, historyVars, registryVars, requestVars
  <2> QED BY <2>1, StillKeepsBus, NoMailNoEnd DEF BusInv, ConsumersInv
<1> QED
  BY <1>1, <1>2, <1>3, <1>4, <1>5, <1>6, <1>7 DEF Next

LEMMA BusInvCorrect == Spec => []BusInv
<1>1. Init => BusInv
  BY DEF Init, BusInv, WatcherTypes, HandlerTypes, ConsumersInv, IdsInv, NoticesInv, NoneTwice, At, Readers,
         Comes, Nothing
<1> QED BY <1>1, BusInvNext, MailInvCorrect, PTL DEF Spec

\* A client is notified of an end once, after the exec has ended and can be found
\* no more (health-watcher.go:36-52, event.go:66-79).
NoticeTruthful ==
    \A c \in Clients, id \in Ids :
        /\ notices[c][id] <= 1
        /\ notices[c][id] > 0 => id \notin execMap /\ life[id] = "ended"

\* A client is notified at most once of an end, when the exec has ended and is
\* registered no more, whoever subscribes, leaves and creates execs meanwhile.
THEOREM NoticesAreTruthful == Spec => []NoticeTruthful
<1>1. BusInv => NoticeTruthful
  BY DEF BusInv, WatcherTypes, NoticesInv, NoticeTruthful
<1> QED BY <1>1, BusInvCorrect, PTL

-----------------------------------------------------------------------------
(***************************************************************************)
(* Types.  Every request that may still create an exec has an identifier   *)
(* set aside for it; and sizes are sent to execs that were registered.     *)
(***************************************************************************)
SlotsInv ==
    /\ IsFiniteSet(Creating) /\ prevExecID + Cardinality(Creating) <= MaxExecs
    /\ execMap \subseteq Ids /\ sized \subseteq Ids
    /\ \A c \in Clients : reader[c] = "resize" => request[c].id \in Ids

SizesInv ==
    /\ execMap \subseteq Ids /\ sized \subseteq Ids
    /\ \A c \in Clients : reader[c] = "resize" => request[c].id \in Ids

\* A step of c itself touches the request of nobody else.
LEMMA OwnStep ==
  ASSUME BusInv, NEW c \in Clients, NEW at,
         reader' = [reader EXCEPT ![c] = at],
         UNCHANGED request \/ \E r : request' = [request EXCEPT ![c] = r],
         c \in Creating \/ at \notin {"handle", "try"}
  PROVE  /\ Creating' \subseteq Creating /\ (at \notin {"handle", "try"} => c \notin Creating')
         /\ reader'[c] = at /\ \A d \in Clients \ {c} : reader'[d] = reader[d] /\ request'[d] = request[d]
<1>1. reader'[c] = at /\ \A d \in Clients \ {c} : reader'[d] = reader[d] /\ request'[d] = request[d]
  BY DEF BusInv, HandlerTypes
<1> QED BY <1>1 DEF Creating

LEMMA RoomLeft ==
  ASSUME SlotsInv, BusInv, prevExecID' = prevExecID, Creating' \subseteq Creating, SizesInv'
  PROVE  SlotsInv'
<1>1. /\ IsFiniteSet(Creating) /\ prevExecID + Cardinality(Creating) <= MaxExecs
      /\ prevExecID \in Nat /\ MaxExecs \in Nat
  BY ServiceAssumption DEF SlotsInv, BusInv, HandlerTypes
<1>2. /\ IsFiniteSet(Creating') /\ Cardinality(Creating') <= Cardinality(Creating)
      /\ Cardinality(Creating') \in Nat /\ Cardinality(Creating) \in Nat
  BY <1>1, FS_Subset, FS_CardinalityType
<1>3. prevExecID' + Cardinality(Creating') <= MaxExecs
  <2>1. \A p, a, b, m \in Nat : p + a <= m /\ b <= a => p + b <= m
    OBVIOUS
  <2> QED BY <1>1, <1>2, <2>1, Zenon
<1> QED BY <1>2, <1>3 DEF SlotsInv, SizesInv

\* A created exec takes the place that was set aside for it.
LEMMA DoCreateKeepsSlots ==
  ASSUME SlotsInv, BusInv, NEW c \in Clients, DoCreate(c)
  PROVE  SlotsInv'
<1>1. /\ request[c].method = "create" /\ reader[c] = "try"
      /\ \/ /\ \E r : request' = [request EXCEPT ![c] = r]
            /\ UNCHANGED <<reader, execMap, prevExecID, sized>>
         \/ /\ prevExecID' = prevExecID + 1
            /\ execMap' = execMap \cup {prevExecID + 1} /\ sized' = sized \cup {prevExecID + 1}
            /\ \E r : request' = [request EXCEPT ![c] = r]
            /\ reader' = [reader EXCEPT ![c] = "watch"]
  BY DEF DoCreate, NextID, Handles, InHandler
<1>2. c \in Creating
  BY <1>1 DEF Creating
<1>3. CASE \E r : request' = [request EXCEPT ![c] = r] /\ UNCHANGED <<reader, execMap, prevExecID, sized>>
  <2>1. reader' = [reader EXCEPT ![c] = "try"]
    BY <1>1, <1>3 DEF BusInv, HandlerTypes
  <2>2. /\ Creating' \subseteq Creating /\ reader'[c] = "try"
        /\ \A d \in Clients \ {c} : reader'[d] = reader[d] /\ request'[d] = request[d]
    BY <1>2, <1>3, <2>1, OwnStep
  <2>3. SizesInv'
    BY <1>3, <2>2 DEF SlotsInv, SizesInv
  <2> QED BY <1>1, <1>3, <2>2, <2>3, RoomLeft
<1>4. CASE /\ prevExecID' = prevExecID + 1
           /\ execMap' = execMap \cup {prevExecID + 1} /\ sized' = sized \cup {prevExecID + 1}
           /\ \E r : request' = [request EXCEPT ![c] = r]
           /\ reader' = [reader EXCEPT ![c] = "watch"]
  <2>1. /\ Creating' \subseteq Creating \ {c} /\ reader'[c] = "watch"
        /\ \A d \in Clients \ {c} : reader'[d] = reader[d] /\ request'[d] = request[d]
    <3> DEFINE at == "watch"
    <3>1. /\ reader' = [reader EXCEPT ![c] = at] /\ \E r : request' = [request EXCEPT ![c] = r]
          /\ at \notin {"handle", "try"}
      BY <1>4
    <3> HIDE DEF at
    <3>2. /\ Creating' \subseteq Creating /\ (at \notin {"handle", "try"} => c \notin Creating') /\ reader'[c] = at
          /\ \A d \in Clients \ {c} : reader'[d] = reader[d] /\ request'[d] = request[d]
      BY <3>1, OwnStep
    <3>3. c \notin Creating' /\ reader'[c] = "watch"
      BY <3>1, <3>2 DEF at
    <3> QED BY <3>2, <3>3
  <2>2. /\ IsFiniteSet(Creating) /\ prevExecID + Cardinality(Creating) <= MaxExecs
        /\ prevExecID \in Nat /\ MaxExecs \in Nat
    BY ServiceAssumption DEF SlotsInv, BusInv, HandlerTypes
  <2>3. IsFiniteSet(Creating \ {c}) /\ Cardinality(Creating \ {c}) = Cardinality(Creating) - 1
    BY <1>2, <2>2, FS_RemoveElement
  <2>4. /\ IsFiniteSet(Creating') /\ Cardinality(Creating') <= Cardinality(Creating \ {c})
        /\ Cardinality(Creating') \in Nat /\ Cardinality(Creating) \in Nat
    BY <2>1, <2>2, <2>3, FS_Subset, FS_CardinalityType
  <2>5. prevExecID + 1 + Cardinality(Creating') <= MaxExecs /\ prevExecID + 1 \in Ids
    <3>1. \A p, a, b, m \in Nat : p + a <= m /\ b <= a - 1 => p + 1 + b <= m /\ p + 1 \in 1 .. m
      OBVIOUS
    <3>2. Cardinality(Creating') <= Cardinality(Creating) - 1
      BY <2>3, <2>4
    <3> QED BY <2>2, <2>4, <3>1, <3>2, Zenon DEF Ids
  <2>6. SizesInv'
    BY <1>4, <2>1, <2>5 DEF SlotsInv, SizesInv
  <2> QED BY <1>1, <1>4, <2>4, <2>5, <2>6 DEF SlotsInv, SizesInv
<1> QED BY <1>1, <1>3, <1>4

LEMMA AskKeepsSlots ==
  ASSUME SlotsInv, BusInv, NEW c \in Clients, Ask(c)
  PROVE  SlotsInv'
<1>1. PICK r \in Requests :
        /\ r.method = "create" => prevExecID + Cardinality(Creating) < MaxExecs
        /\ request' = [request EXCEPT ![c] = r]
  BY DEF Ask
<1>2. /\ reader' = [reader EXCEPT ![c] = "handle"]
      /\ UNCHANGED <<prevExecID, execMap, sized>>
  BY DEF Ask, registryVars
<1>3. /\ reader'[c] = "handle" /\ request'[c] = r
      /\ \A d \in Clients \ {c} : reader'[d] = reader[d] /\ request'[d] = request[d]
  BY <1>1, <1>2 DEF BusInv, HandlerTypes
<1>4. SizesInv'
  BY <1>2, <1>3 DEF SlotsInv, SizesInv
<1>5. /\ IsFiniteSet(Creating) /\ prevExecID + Cardinality(Creating) <= MaxExecs
      /\ prevExecID \in Nat /\ MaxExecs \in Nat /\ Cardinality(Creating) \in Nat
  BY ServiceAssumption, FS_CardinalityType DEF SlotsInv, BusInv, HandlerTypes
<1>6. CASE r.method = "create"
  <2>1. Creating' \subseteq Creating \cup {c}
    BY <1>3 DEF Creating
  <2>2. /\ IsFiniteSet(Creating \cup {c})
        /\ Cardinality(Creating \cup {c}) \in {Cardinality(Creating), Cardinality(Creating) + 1}
    BY <1>5, FS_AddElement
  <2>3. /\ IsFiniteSet(Creating') /\ Cardinality(Creating') <= Cardinality(Creating \cup {c})
        /\ Cardinality(Creating') \in Nat
    BY <2>1, <2>2, FS_Subset, FS_CardinalityType
  <2>4. prevExecID + Cardinality(Creating') <= MaxExecs
    <3>1. \A p, a, b, m \in Nat : p + a < m /\ b <= a + 1 => p + b <= m
      OBVIOUS
    <3>2. Cardinality(Creating') <= Cardinality(Creating) + 1
      BY <1>5, <2>2, <2>3
    <3> QED BY <1>1, <1>5, <1>6, <2>3, <3>1, <3>2, Zenon
  <2> QED BY <1>2, <1>4, <2>3, <2>4 DEF SlotsInv, SizesInv
<1>7. CASE r.method # "create"
  <2>1. Creating' \subseteq Creating
    BY <1>3, <1>7 DEF Creating
  <2>2. /\ IsFiniteSet(Creating') /\ Cardinality(Creating') <= Cardinality(Creating)
        /\ Cardinality(Creating') \in Nat
    BY <1>5, <2>1, FS_Subset, FS_CardinalityType
  <2>3. prevExecID + Cardinality(Creating') <= MaxExecs
    <3>1. \A p, a, b, m \in Nat : p + a <= m /\ b <= a => p + b <= m
      OBVIOUS
    <3> QED BY <1>5, <2>2, <3>1, Zenon
  <2> QED BY <1>2, <1>4, <2>2, <2>3 DEF SlotsInv, SizesInv
<1> QED BY <1>6, <1>7

\* The other steps of a client set nothing aside; only a registered exec is resized.
LEMMA ClientKeepsSlots ==
  ASSUME SlotsInv, BusInv, NEW c \in Clients,
         \/ Answering(c) \/ CloseOnce(c)
         \/ CreateExec(c) \/ CreateFails(c) \/ CreateSucceeds(c) \/ CheckExec(c)
         \/ ListContainersExec(c) \/ ResizeExec(c) \/ SendSize(c)
  PROVE  SlotsInv'
<1> USE DEF Reply, InHandler, Handles, registryVars, tunnelVars, busVars, historyVars
<1>1. UNCHANGED <<execMap, prevExecID>>
  BY DEF Answering, HandlerReleases, HandlerReturns, TimerFires, TakeReply, TakeTimeout, CloseOnce,
         CreateExec, CreateFails, CreateSucceeds, CheckExec, ListContainersExec, ResizeExec, SendSize
<1>2. ASSUME NEW at \in Readers \ {"handle", "try", "resize"}, reader' = [reader EXCEPT ![c] = at],
             UNCHANGED request \/ \E r : request' = [request EXCEPT ![c] = r], sized' \subseteq Ids
      PROVE  SlotsInv'
  <2>1. /\ Creating' \subseteq Creating /\ reader'[c] = at
        /\ \A d \in Clients \ {c} : reader'[d] = reader[d] /\ request'[d] = request[d]
    BY <1>2, OwnStep
  <2>2. SizesInv'
    BY <1>1, <1>2, <2>1 DEF SlotsInv, SizesInv
  <2> QED BY <1>1, <2>1, <2>2, RoomLeft
<1>3. ASSUME UNCHANGED <<reader, request, sized>> PROVE SlotsInv'
  <2>1. Creating' = Creating
    BY <1>3 DEF Creating
  <2>2. SizesInv'
    BY <1>1, <1>3 DEF SlotsInv, SizesInv
  <2> QED BY <1>1, <2>1, <2>2, RoomLeft
<1>4. sized \subseteq Ids
  BY DEF SlotsInv
<1>5. CASE Answering(c)
  <2>1. CASE HandlerReleases(c)
    BY <1>2, <1>3, <1>4, <2>1 DEF HandlerReleases, Readers
  <2>2. CASE HandlerReturns(c)
    BY <1>2, <1>4, <2>2 DEF HandlerReturns, Readers
  <2>3. CASE TimerFires(c) \/ TakeTimeout(c)
    BY <1>3, <2>3 DEF TimerFires, TakeTimeout
  <2>4. CASE TakeReply(c)
    BY <1>2, <1>4, <2>4 DEF TakeReply, Readers
  <2> QED BY <1>5, <2>1, <2>2, <2>3, <2>4 DEF Answering
<1>6. CASE CloseOnce(c)
  BY <1>2, <1>4, <1>6 DEF CloseOnce, Readers
<1>7. CASE CreateExec(c)
  <2> DEFINE accepted == ValidateNoShellMetacharacters(request[c].exec.cwd) /\ setToken(c)
  <2>1. CASE accepted
    <3>1. /\ reader' = [reader EXCEPT ![c] = "try"] /\ \E r : request' = [request EXCEPT ![c] = r]
          /\ c \in Creating /\ UNCHANGED sized
      BY <1>7, <2>1 DEF CreateExec, Creating
    <3>2. /\ Creating' \subseteq Creating /\ reader'[c] = "try"
          /\ \A d \in Clients \ {c} : reader'[d] = reader[d] /\ request'[d] = request[d]
      BY <3>1, OwnStep
    <3>3. SizesInv'
      BY <1>1, <3>1, <3>2 DEF SlotsInv, SizesInv
    <3> QED BY <1>1, <3>2, <3>3, RoomLeft
  <2>2. CASE ~accepted
    BY <1>2, <1>4, <1>7, <2>2 DEF CreateExec, Readers
  <2> QED BY <2>1, <2>2
<1>8. CASE CreateFails(c) \/ CreateSucceeds(c) \/ CheckExec(c) \/ ListContainersExec(c)
  <2>1. /\ reader' = [reader EXCEPT ![c] = "reply"] /\ UNCHANGED sized
        /\ request' = [request EXCEPT ![c] = NoRequest]
        /\ "reply" \in Readers \ {"handle", "try", "resize"}
    BY <1>8 DEF CreateFails, CreateSucceeds, CheckExec, ListContainersExec, Readers
  <2> QED BY <1>2, <1>4, <2>1
<1>9. CASE ResizeExec(c)
  <2>1. CASE request[c].id \in execMap
    <3>1. reader' = [reader EXCEPT ![c] = "resize"] /\ UNCHANGED <<request, sized>>
      BY <1>9, <2>1 DEF ResizeExec
    <3>2. /\ Creating' \subseteq Creating /\ reader'[c] = "resize"
          /\ \A d \in Clients \ {c} : reader'[d] = reader[d] /\ request'[d] = request[d]
      BY <3>1, OwnStep
    <3>3. SizesInv'
      BY <1>1, <2>1, <3>1, <3>2 DEF SlotsInv, SizesInv
    <3> QED BY <1>1, <3>2, <3>3, RoomLeft
  <2>2. CASE request[c].id \notin execMap
    BY <1>2, <1>4, <1>9, <2>2 DEF ResizeExec, Readers
  <2> QED BY <2>1, <2>2
<1>10. CASE SendSize(c)
  <2>1. /\ reader' = [reader EXCEPT ![c] = "reply"] /\ request' = [request EXCEPT ![c] = NoRequest]
        /\ sized' = sized \cup {request[c].id} /\ reader[c] = "resize"
    BY <1>10 DEF SendSize
  <2>2. sized' \subseteq Ids
    BY <1>4, <2>1 DEF SlotsInv
  <2> QED BY <1>2, <2>1, <2>2 DEF Readers
<1> QED BY <1>5, <1>6, <1>7, <1>8, <1>9, <1>10

LEMMA SlotsInvNext == SlotsInv /\ BusInv /\ [Next]_vars => SlotsInv'
<1> SUFFICES ASSUME SlotsInv, BusInv, [Next]_vars PROVE SlotsInv'
  OBVIOUS
<1> USE DEF registryVars, tunnelVars, busVars, historyVars, requestVars
<1>1. ASSUME UNCHANGED <<reader, request, prevExecID>>, execMap' \subseteq execMap, sized' \subseteq sized
      PROVE  SlotsInv'
  <2>1. Creating' = Creating /\ SizesInv'
    BY <1>1 DEF Creating, SlotsInv, SizesInv
  <2> QED BY <1>1, <2>1, RoomLeft
<1>2. ASSUME NEW c \in Clients, ClientChanges(c) \/ Connect(c) \/ SettingUp(c) \/ Writes(c) PROVE SlotsInv'
  BY <1>1, <1>2 DEF ClientChanges, Connect, Writes, SettingUp, StoreToken, SubAny, SayHello
<1>3. ASSUME NEW c \in Clients, Ask(c) PROVE SlotsInv'
  BY <1>3, AskKeepsSlots
<1>4. ASSUME NEW c \in Clients, Handling(c) \/ Answering(c) \/ CloseOnce(c) PROVE SlotsInv'
  BY <1>4, DoCreateKeepsSlots, ClientKeepsSlots DEF Handling
<1>5. ASSUME NEW id \in Ids, Attach(id) \/ TakeSize(id) \/ StreamEnds(id) \/ Watching(id) PROVE SlotsInv'
  BY <1>1, <1>5 DEF Attach, TakeSize, StreamEnds, Watching, Remove, Pub, Accept, InExec
<1>6. CASE UNCHANGED vars
  BY <1>1, <1>6 DEF vars
<1> QED BY <1>2, <1>3, <1>4, <1>5, <1>6 DEF Next

LEMMA SlotsInvCorrect == Spec => []SlotsInv
<1>1. Init => SlotsInv
  <2> SUFFICES ASSUME Init PROVE SlotsInv
    OBVIOUS
  <2>1. /\ execMap = {} /\ sized = {} /\ prevExecID = 0
        /\ reader = [c \in Clients |-> "idle"]
    BY DEF Init
  <2>2. Creating = {}
    BY <2>1 DEF Creating
  <2> QED BY <2>1, <2>2, FS_EmptySet, ServiceAssumption DEF SlotsInv
<1> QED BY <1>1, SlotsInvNext, BusInvCorrect, PTL DEF Spec

\* The registry, the bus and the tunnels keep their types, and identifiers their
\* bound, for any number of clients, requests and execs.
THEOREM TypeCorrect == Spec => []TypeOK
<1>1. ASSUME SlotsInv, BusInv, AnswerInv, MailInv PROVE TypeOK
  <2>1. prevExecID \in 0 .. MaxExecs
    <3>1. prevExecID \in Nat /\ Cardinality(Creating) \in Nat /\ MaxExecs \in Nat
          /\ prevExecID + Cardinality(Creating) <= MaxExecs
      BY <1>1, FS_CardinalityType, ServiceAssumption DEF SlotsInv, BusInv, HandlerTypes
    <3> QED BY <3>1
  <2>2. watcher \in [Ids -> [at : At, left : Seq(Clients)]] /\ notices \in [Clients -> [Ids -> Nat]]
        /\ life \in [Ids -> {"none", "created", "streaming", "ended"}]
    BY <1>1 DEF BusInv, WatcherTypes
  <2>3. consumers \in Seq(Clients) /\ setup \in [Clients -> {"none", "token", "subscribe", "hello", "done"}]
    BY <1>1 DEF BusInv, ConsumersInv
  <2>4. AnswerTypes /\ crashed \in BOOLEAN
    BY <1>1 DEF AnswerInv
  <2>5. execMap \subseteq Ids /\ sized \subseteq Ids
    BY <1>1 DEF SlotsInv
  <2>6. out \in [Clients -> Messages] /\ answers \in [Clients -> Seq(Nat)]
    BY <1>1 DEF MailInv
  <2> QED BY <2>1, <2>2, <2>3, <2>4, <2>5, <2>6 DEF TypeOK, AnswerTypes, At
<1> QED BY <1>1, SlotsInvCorrect, BusInvCorrect, MailInvCorrect, AnswerInvCorrect, PTL

-----------------------------------------------------------------------------
(***************************************************************************)
(* The contract.  An exec is registered from its creation until its        *)
(* watcher removes it, so the registry and the place of the watcher tell   *)
(* the phase; and who is to be notified has come, and his tunnel is open   *)
(* until he leaves, so only who has left is passed over.                   *)
(***************************************************************************)
PhaseInv ==
    \A id \in Ids :
        /\ life[id] = "none" <=> id > prevExecID
        /\ life[id] = "none" => watcher[id].at = "none"
        /\ id \in execMap <=> life[id] # "none" /\ watcher[id].at \in {"none", "waiting"}
        /\ watcher[id].at # "accept" => watcher[id].left = <<>>

OpenInv == \A c \in Clients : client[c] \in {"connected", "stalled"} => open[c]

CameInv ==
    \A id \in Ids : \A i \in DOMAIN watcher[id].left : client[watcher[id].left[i]] # "away"

ContractInv == AnswerInv /\ MailInv /\ BusInv /\ SlotsInv /\ PhaseInv /\ OpenInv /\ CameInv

LEMMA WatcherStepKeepsPhase ==
  ASSUME PhaseInv, BusInv, NEW id \in Ids, Watching(id)
  PROVE  PhaseInv'
<1>1. PICK at \in {"pub", "accept"}, left \in {<<>>, consumers, Tail(watcher[id].left)} :
        /\ watcher' = [watcher EXCEPT ![id] = [at |-> at, left |-> left]]
        /\ at = "pub" => left = <<>>
        /\ watcher[id].at \in {"waiting", "pub", "accept"}
        /\ execMap' = execMap \ {id} /\ UNCHANGED <<life, prevExecID>>
  <2>1. CASE Remove(id)
    BY <2>1 DEF Remove, WatcherMoves, InExec
  <2>2. CASE Pub(id)
    BY <2>2 DEF Pub, WatcherMoves, InExec, PhaseInv
  <2>3. CASE Accept(id)
    BY <2>3 DEF Accept, WatcherMoves, InExec, PhaseInv
  <2> QED BY <2>1, <2>2, <2>3 DEF Watching
<1>2. /\ watcher'[id] = [at |-> at, left |-> left]
      /\ \A i \in Ids \ {id} : watcher'[i] = watcher[i]
  BY <1>1 DEF BusInv, WatcherTypes
<1> QED BY <1>1, <1>2 DEF PhaseInv

LEMMA HandlingKeepsPhase ==
  ASSUME PhaseInv, BusInv, NEW c \in Clients, Handling(c)
  PROVE  PhaseInv'
<1>1. CASE DoCreate(c)
  <2>1. /\ UNCHANGED watcher
        /\ \/ UNCHANGED <<execMap, prevExecID, life>>
           \/ /\ prevExecID' = prevExecID + 1
              /\ execMap' = execMap \cup {prevExecID + 1}
              /\ life' = [life EXCEPT ![prevExecID + 1] = "created"]
    BY <1>1 DEF DoCreate, NextID, InHandler, busVars
  <2>2. prevExecID \in Nat /\ \A i \in Ids : i \in Nat
    BY DEF BusInv, HandlerTypes, Ids
  <2>3. ASSUME NEW i \in Ids, life' = [life EXCEPT ![prevExecID + 1] = "created"]
        PROVE  life'[i] = IF i = prevExecID + 1 THEN "created" ELSE life[i]
    BY <2>3 DEF BusInv, WatcherTypes
  <2> QED BY <2>1, <2>2, <2>3 DEF PhaseInv
<1>2. CASE CreateSucceeds(c)
  <2> DEFINE id == request[c].id
  <2>1. /\ watcher' = [watcher EXCEPT ![id].at = "waiting"] /\ reader[c] = "watch"
        /\ UNCHANGED <<execMap, prevExecID, life>>
    BY <1>2 DEF CreateSucceeds, Handles, registryVars
  <2>2. id \in Ids => id <= prevExecID /\ watcher[id].at = "none" /\ prevExecID \in Nat /\ id \in Nat
    BY <2>1 DEF BusInv, IdsInv, HandlerTypes
  <2>3. \A i \in Ids : /\ watcher'[i].left = watcher[i].left
                       /\ watcher'[i].at = IF i = id THEN "waiting" ELSE watcher[i].at
    BY <2>1 DEF BusInv, WatcherTypes
  <2> HIDE DEF id
  <2> QED BY <2>1, <2>2, <2>3 DEF PhaseInv
<1>3. CASE CreateExec(c) \/ CreateFails(c) \/ CheckExec(c) \/ ListContainersExec(c) \/ ResizeExec(c) \/ SendSize(c)
  <2>1. UNCHANGED <<execMap, prevExecID, life, watcher>>
    BY <1>3 DEF CreateExec, CreateFails, CheckExec, ListContainersExec, ResizeExec, SendSize,
                InHandler, busVars, registryVars
  <2> QED BY <2>1 DEF PhaseInv
<1> QED BY <1>1, <1>2, <1>3 DEF Handling

LEMMA PhaseInvNext == PhaseInv /\ BusInv /\ [Next]_vars => PhaseInv'
<1> SUFFICES ASSUME PhaseInv, BusInv, [Next]_vars PROVE PhaseInv'
  OBVIOUS
<1>1. ASSUME NEW c \in Clients, Handling(c) PROVE PhaseInv'
  BY <1>1, HandlingKeepsPhase
<1>2. ASSUME NEW id \in Ids, Watching(id) PROVE PhaseInv'
  BY <1>2, WatcherStepKeepsPhase
<1>3. ASSUME NEW id \in Ids, Attach(id) \/ StreamEnds(id) PROVE PhaseInv'
  <2>1. /\ UNCHANGED <<execMap, prevExecID, watcher>>
        /\ \E l \in {"streaming", "ended"} : life[id] # "none" /\ life' = [life EXCEPT ![id] = l]
    BY <1>3 DEF Attach, StreamEnds, InExec, busVars
  <2>2. \A i \in Ids : life'[i] = "none" <=> life[i] = "none"
    BY <2>1 DEF BusInv, WatcherTypes
  <2> QED BY <2>1, <2>2 DEF PhaseInv
<1>4. ASSUME UNCHANGED <<execMap, prevExecID, life, watcher>> PROVE PhaseInv'
  BY <1>4 DEF PhaseInv
<1>5. ASSUME NEW id \in Ids, TakeSize(id) PROVE PhaseInv'
  BY <1>4, <1>5 DEF TakeSize, InExec, busVars
<1>6. ASSUME NEW c \in Clients, Answering(c) PROVE PhaseInv'
  BY <1>4, <1>6 DEF Answering, HandlerReleases, HandlerReturns, TimerFires, TakeReply, TakeTimeout,
                    registryVars, busVars
<1>7. ASSUME NEW c \in Clients, ClientChanges(c) \/ Connect(c) \/ SettingUp(c) \/ Ask(c) \/ CloseOnce(c) \/ Writes(c)
      PROVE  PhaseInv'
  BY <1>4, <1>7 DEF ClientChanges, Writes, Connect, SettingUp, StoreToken, SubAny, SayHello, Ask, CloseOnce,
                    registryVars, busVars
<1>8. CASE UNCHANGED vars
  BY <1>4, <1>8 DEF vars, registryVars, busVars
<1> QED BY <1>1, <1>2, <1>3, <1>5, <1>6, <1>7, <1>8 DEF Next

LEMMA OpenInvNext == OpenInv /\ AnswerInv /\ [Next]_vars => OpenInv'
<1> SUFFICES ASSUME OpenInv, AnswerInv, [Next]_vars PROVE OpenInv'
  OBVIOUS
<1> USE DEF OpenInv, AnswerInv, AnswerTypes
<1>1. ASSUME NEW c \in Clients, ClientChanges(c) PROVE OpenInv'
  BY <1>1 DEF ClientChanges
<1>2. ASSUME NEW c \in Clients, Connect(c) PROVE OpenInv'
  BY <1>2 DEF Connect
<1>3. ASSUME NEW c \in Clients, CloseOnce(c) PROVE OpenInv'
  BY <1>3 DEF CloseOnce
<1>4. ASSUME UNCHANGED <<client, open>> PROVE OpenInv'
  BY <1>4
<1>5. ASSUME NEW c \in Clients, SettingUp(c) \/ Ask(c) \/ Writes(c) PROVE OpenInv'
  BY <1>4, <1>5 DEF Writes, SettingUp, StoreToken, SubAny, SayHello, Ask, tunnelVars
<1>6. ASSUME NEW c \in Clients, Answering(c) PROVE OpenInv'
  BY <1>4, <1>6 DEF Answering, HandlerReleases, HandlerReturns, TimerFires, TakeReply, TakeTimeout, tunnelVars
<1>7. ASSUME NEW c \in Clients, Handling(c) PROVE OpenInv'
  BY <1>4, <1>7 DEF Handling, CreateExec, DoCreate, CreateFails, CreateSucceeds, CheckExec,
                    ListContainersExec, ResizeExec, SendSize, InHandler, tunnelVars
<1>8. ASSUME NEW id \in Ids, Attach(id) \/ TakeSize(id) \/ StreamEnds(id) \/ Watching(id) PROVE OpenInv'
  BY <1>4, <1>8 DEF Attach, TakeSize, StreamEnds, Watching, Remove, Pub, Accept, InExec, tunnelVars
<1>9. CASE UNCHANGED vars
  BY <1>4, <1>9 DEF vars, tunnelVars
<1> QED BY <1>1, <1>2, <1>3, <1>5, <1>6, <1>7, <1>8, <1>9 DEF Next

LEMMA CameInvNext == CameInv /\ BusInv /\ AnswerInv /\ [Next]_vars => CameInv'
<1> SUFFICES ASSUME CameInv, BusInv, AnswerInv, [Next]_vars PROVE CameInv'
  OBVIOUS
<1>1. ASSUME UNCHANGED watcher, \A c \in Clients : client'[c] = "away" => client[c] = "away"
      PROVE  CameInv'
  <2>1. \A id \in Ids : \A i \in DOMAIN watcher[id].left : watcher[id].left[i] \in Clients
    <3>1. \A id \in Ids : watcher[id].left \in Seq(Clients)
      BY DEF BusInv, WatcherTypes
    <3> QED BY <3>1
  <2> QED BY <1>1, <2>1 DEF CameInv
<1>2. ASSUME UNCHANGED <<watcher, client>> PROVE CameInv'
  BY <1>2 DEF CameInv
<1>3. ASSUME NEW c \in Clients, ClientChanges(c) \/ Connect(c) PROVE CameInv'
  <2>1. UNCHANGED watcher /\ \A d \in Clients : client'[d] = "away" => client[d] = "away"
    BY <1>3 DEF ClientChanges, Connect, busVars, AnswerInv, AnswerTypes
  <2> QED BY <1>1, <2>1
<1>4. ASSUME NEW c \in Clients, SettingUp(c) \/ Ask(c) \/ CloseOnce(c) \/ Writes(c) \/ Answering(c) PROVE CameInv'
  BY <1>2, <1>4 DEF SettingUp, StoreToken, SubAny, SayHello, Ask, CloseOnce, Writes, Answering, HandlerReleases,
                    HandlerReturns, TimerFires, TakeReply, TakeTimeout, busVars, tunnelVars
<1>5. ASSUME NEW c \in Clients, Handling(c) PROVE CameInv'
  <2>1. CASE CreateSucceeds(c)
    <3>1. watcher' = [watcher EXCEPT ![request[c].id].at = "waiting"] /\ UNCHANGED client
      BY <2>1 DEF CreateSucceeds, tunnelVars
    <3>2. \A i \in Ids : watcher'[i].left = watcher[i].left
      BY <3>1 DEF BusInv, WatcherTypes
    <3> QED BY <3>1, <3>2 DEF CameInv
  <2>2. CASE ~CreateSucceeds(c)
    BY <1>2, <1>5, <2>2 DEF Handling, CreateExec, DoCreate, CreateFails, CheckExec, ListContainersExec,
                            ResizeExec, SendSize, InHandler, busVars, tunnelVars
  <2> QED BY <2>1, <2>2
<1>6. ASSUME NEW id \in Ids, Attach(id) \/ TakeSize(id) \/ StreamEnds(id) PROVE CameInv'
  BY <1>2, <1>6 DEF Attach, TakeSize, StreamEnds, InExec, busVars
<1>7. ASSUME NEW id \in Ids, Watching(id) PROVE CameInv'
  <2>1. PICK left \in {<<>>, consumers, Tail(watcher[id].left)} :
          /\ \E at : watcher' = [watcher EXCEPT ![id] = [at |-> at, left |-> left]]
          /\ left \in {<<>>, consumers} \/ watcher[id].left # <<>>
          /\ UNCHANGED client
    <3>1. CASE Remove(id)
      BY <3>1 DEF Remove, WatcherMoves, InExec
    <3>2. CASE Pub(id)
      BY <3>2 DEF Pub, WatcherMoves, InExec
    <3>3. CASE Accept(id)
      BY <3>3 DEF Accept, WatcherMoves, InExec
    <3> QED BY <1>7, <3>1, <3>2, <3>3 DEF Watching
  <2>2. watcher'[id].left = left /\ \A i \in Ids \ {id} : watcher'[i] = watcher[i]
    BY <2>1 DEF BusInv, WatcherTypes
  <2>3. \A i \in DOMAIN left : client[left[i]] # "away"
    <3>1. CASE left = <<>>
      BY <3>1
    <3>2. CASE left = consumers
      BY <3>2 DEF BusInv, ConsumersInv
    <3>3. CASE left = Tail(watcher[id].left) /\ watcher[id].left # <<>>
      BY <3>3, TailHasNoneTwice DEF CameInv, BusInv, WatcherTypes, NoticesInv
    <3> QED BY <2>1, <3>1, <3>2, <3>3
  <2> QED BY <2>1, <2>2, <2>3 DEF CameInv
<1>8. CASE UNCHANGED vars
  BY <1>2, <1>8 DEF vars, busVars, tunnelVars
<1> QED BY <1>3, <1>4, <1>5, <1>6, <1>7, <1>8 DEF Next

LEMMA ContractInvCorrect == Spec => []ContractInv
<1>1. Init => PhaseInv /\ OpenInv /\ CameInv
  BY DEF Init, PhaseInv, OpenInv, CameInv, Ids
<1>2. ContractInv <=> AnswerInv /\ MailInv /\ BusInv /\ SlotsInv /\ PhaseInv /\ OpenInv /\ CameInv
  BY DEF ContractInv
<1> QED
  BY <1>1, <1>2, PhaseInvNext, OpenInvNext, CameInvNext, AnswerInvCorrect, MailInvCorrect, BusInvCorrect,
     SlotsInvCorrect, PTL DEF Spec

\* What a step of the service is to the contract.
Simulated == Contract!Next \/ UNCHANGED Contract!vars

\* Steps that touch no more than one request.
LEMMA CallMoves ==
  ASSUME NEW c \in Clients,
         \A d \in Clients \ {c} : reader'[d] = reader[d] /\ once'[d] = once[d]
  PROVE  Calls' = [Calls EXCEPT ![c] = Call(c)']
<1>1. \A d \in Clients \ {c} : Call(d)' = Call(d)
  BY DEF Call
<1> QED BY <1>1 DEF Calls

LEMMA CallStays ==
  ASSUME NEW c \in Clients, Call(c)' = Call(c),
         \A d \in Clients \ {c} : reader'[d] = reader[d] /\ once'[d] = once[d]
  PROVE  Calls' = Calls
<1>1. Calls' = [Calls EXCEPT ![c] = Call(c)] /\ Calls[c] = Call(c)
  BY CallMoves DEF Calls
<1> QED BY <1>1 DEF Calls

LEMMA CallsStay ==
  ASSUME UNCHANGED <<reader, once>>
  PROVE  Calls' = Calls
BY DEF Calls, Call

LEMMA BusStays ==
  ASSUME UNCHANGED <<execMap, life, watcher, consumers>>
  PROVE  UNCHANGED <<Phases, Owed, Subscribed>>
BY DEF Phases, Phase, Owed, Subscribed

LEMMA ClientSimulated ==
  ASSUME ContractInv, NEW c \in Clients, ClientChanges(c) \/ Connect(c)
  PROVE  Simulated
<1>1. /\ UNCHANGED <<execMap, life, watcher, consumers, reader, once, out, asked, answers, notices>>
      /\ \/ client[c] = "connected" /\ client' = [client EXCEPT ![c] = "stalled"]
         \/ client[c] = "stalled" /\ client' = [client EXCEPT ![c] = "connected"]
         \/ client[c] \in {"connected", "stalled"} /\ client' = [client EXCEPT ![c] = "gone"]
         \/ client[c] = "away" /\ client' = [client EXCEPT ![c] = "connected"]
  <2> USE DEF registryVars, busVars, requestVars, historyVars
  <2>1. CASE Connect(c)
    BY <2>1 DEF Connect
  <2>2. CASE ClientChanges(c)
    BY <2>2, Zenon DEF ClientChanges
  <2> QED BY <2>1, <2>2
<1>2. UNCHANGED <<Phases, Owed, Subscribed, Calls>>
  BY <1>1, BusStays, CallsStay
<1>3. Contract!ClientSteps(c)
  BY <1>1, <1>2 DEF Contract!ClientSteps, Contract!Change
<1> QED BY <1>3 DEF Simulated, Contract!Next

LEMMA SettingUpSimulated ==
  ASSUME ContractInv, NEW c \in Clients, SettingUp(c)
  PROVE  Simulated
<1> USE DEF registryVars, requestVars, historyVars, busVars
<1>1. CASE StoreToken(c) \/ (SayHello(c) /\ UNCHANGED out)
  <2>1. UNCHANGED <<execMap, life, watcher, consumers, reader, once, out, asked, answers, notices, client>>
    BY <1>1 DEF StoreToken, SayHello
  <2> QED BY <2>1, BusStays, CallsStay DEF Simulated, Contract!vars
<1>2. CASE SubAny(c)
  <2>1. /\ setup[c] = "subscribe" /\ consumers' = Append(consumers, c)
        /\ UNCHANGED <<execMap, life, watcher, reader, once, out, asked, answers, notices, client>>
    BY <1>2 DEF SubAny
  <2>2. /\ consumers \in Seq(Clients) /\ client[c] # "away"
        /\ \A i \in DOMAIN consumers : consumers[i] # c
    BY <2>1 DEF ContractInv, BusInv, ConsumersInv
  <2>3. /\ DOMAIN consumers = 1 .. Len(consumers) /\ Len(consumers) \in Nat
        /\ DOMAIN consumers' = 1 .. Len(consumers) + 1
        /\ consumers'[Len(consumers) + 1] = c
        /\ \A i \in 1 .. Len(consumers) : consumers'[i] = consumers[i]
    BY <2>1, <2>2
  <2>4. c \notin Subscribed /\ Subscribed' = Subscribed \cup {c}
    BY <2>2, <2>3 DEF Subscribed, Range
  <2>5. UNCHANGED <<Phases, Owed, Calls>>
    BY <2>1, CallsStay DEF Phases, Phase, Owed
  <2>6. Contract!Subscribe(c)
    BY <2>1, <2>2, <2>4, <2>5 DEF Contract!Subscribe
  <2> QED BY <2>6 DEF Simulated, Contract!Next
<1>3. CASE SayHello(c) /\ HandsOver(c, Hello)
  <2>1. UNCHANGED <<execMap, life, watcher, consumers, reader, once, asked, answers, notices, client>> /\ setup[c] = "hello"
    BY <1>3 DEF SayHello
  <2>2. c \in Subscribed
    BY <2>1 DEF ContractInv, BusInv, ConsumersInv, Subscribed, Range
  <2>3. UNCHANGED <<Phases, Owed, Subscribed, Calls>>
    BY <2>1, BusStays, CallsStay
  <2>4. Contract!Greet(c)
    BY <1>3, <2>1, <2>2, <2>3 DEF Contract!Greet, Contract!Post, Contract!NoMail, HandsOver, Nothing, Hello
  <2> QED BY <2>4 DEF Simulated, Contract!Next
<1> QED BY <1>1, <1>2, <1>3 DEF SettingUp, SayHello

LEMMA WritesSimulated ==
  ASSUME ContractInv, NEW c \in Clients, Writes(c)
  PROVE  Simulated
<1>1. UNCHANGED <<execMap, life, watcher, consumers, reader, once, asked, client>>
  BY DEF Writes, registryVars, busVars, requestVars
<1>2. UNCHANGED <<Phases, Owed, Subscribed, Calls>>
  BY <1>1, BusStays, CallsStay
<1>3. Contract!Receive(c)
  BY <1>1, <1>2 DEF Writes, Contract!Receive, Contract!NoMail, Nothing
<1> QED BY <1>3 DEF Simulated, Contract!Next

\* Asking, answering and reading the next request.
LEMMA RequestSimulated ==
  ASSUME ContractInv, NEW c \in Clients, Ask(c) \/ CloseOnce(c) \/ Answering(c)
  PROVE  Simulated
<1> USE DEF registryVars, busVars, tunnelVars, historyVars
<1>1. UNCHANGED <<execMap, life, watcher, consumers, answers, notices, client>>
  BY DEF Ask, CloseOnce, Answering, HandlerReleases, HandlerReturns, TimerFires, TakeReply, TakeTimeout
<1>2. /\ reader \in [Clients -> Readers] /\ once \in [Clients -> {"nobody", "handler", "timer", "done"}]
      /\ OnceInv(c) /\ client[c] \in {"away", "connected", "stalled", "gone"}
  BY DEF ContractInv, AnswerInv, AnswerTypes, Readers
<1>3. \A d \in Clients \ {c} : reader'[d] = reader[d] /\ once'[d] = once[d]
  BY <1>2 DEF Ask, CloseOnce, Answering, HandlerReleases, HandlerReturns, TimerFires, TakeReply, TakeTimeout
<1>4. UNCHANGED <<Phases, Owed, Subscribed>>
  BY <1>1, BusStays
<1>5. Calls' = [Calls EXCEPT ![c] = Call(c)'] /\ Calls[c] = Call(c)
  BY <1>3, CallMoves DEF Calls
<1>6. ASSUME Call(c)' = Call(c), UNCHANGED <<asked, out>> PROVE Simulated
  BY <1>1, <1>3, <1>4, <1>6, CallStays DEF Simulated, Contract!vars
<1>7. ASSUME once[c] \in {"handler", "timer"}, HandsOver(c, Answer(asked[c])), UNCHANGED asked,
             reader[c] \notin AtRest, Call(c)' = "answered"
      PROVE  Simulated
  <2>1. Call(c) = "waiting"
    BY <1>7 DEF Call, AtRest
  <2>2. Contract!Answer(c)
    BY <1>1, <1>4, <1>5, <1>7, <2>1 DEF Contract!Answer, Contract!Post, Contract!NoMail, HandsOver, Nothing, Answer
  <2> QED BY <2>2 DEF Simulated, Contract!Next
<1>8. CASE Ask(c)
  <2>1. reader'[c] = "handle" /\ once'[c] = "nobody" /\ reader[c] = "idle" /\ UNCHANGED out
        /\ client[c] # "away" /\ asked' = [asked EXCEPT ![c] = @ + 1]
    BY <1>2, <1>8 DEF Ask
  <2>2. Call(c) = "none" /\ Call(c)' = "waiting"
    BY <2>1 DEF Call
  <2>3. Contract!Ask(c)
    BY <1>1, <1>4, <1>5, <2>1, <2>2 DEF Contract!Ask
  <2> QED BY <2>3 DEF Simulated, Contract!Next
<1>9. CASE CloseOnce(c)
  <2>1. reader[c] = "idle" /\ reader'[c] = "ended" /\ UNCHANGED <<asked, out>>
    BY <1>2, <1>9 DEF CloseOnce
  <2> QED BY <1>6, <2>1 DEF Call
<1>10. CASE HandlerReleases(c)
  <2>1. /\ reader[c] = "reply" /\ reader'[c] \in {"reply", "sending"} /\ UNCHANGED <<asked, out>>
        /\ once'[c] = "done" <=> once[c] = "done"
    BY <1>2, <1>10 DEF HandlerReleases, MayRelease
  <2> QED BY <1>6, <2>1 DEF Call
<1>11. CASE HandlerReturns(c)
  <2>1. reader[c] = "reply" /\ once[c] = "done" /\ reader'[c] = "idle"
        /\ UNCHANGED <<asked, out>>
    BY <1>2, <1>11 DEF HandlerReturns, OnceInv
  <2>2. Call(c) = "answered" /\ Call(c)' = "none"
    BY <2>1 DEF Call
  <2>3. Contract!NextRequest(c)
    BY <1>1, <1>4, <1>5, <2>1, <2>2 DEF Contract!NextRequest
  <2> QED BY <2>3 DEF Simulated, Contract!Next
<1>12. CASE TimerFires(c)
  <2>1. UNCHANGED <<reader, asked, out>> /\ once[c] = "nobody" /\ once'[c] = "timer"
    BY <1>2, <1>12 DEF TimerFires, MayRelease
  <2> QED BY <1>6, <2>1 DEF Call
<1>13. CASE TakeReply(c)
  <2>1. /\ reader[c] = "sending" /\ once[c] = "handler" /\ reader'[c] = "reply" /\ once'[c] = "done"
        /\ HandsOver(c, Answer(asked[c])) /\ UNCHANGED asked
    BY <1>2, <1>13 DEF TakeReply, OnceInv
  <2> QED BY <1>7, <2>1 DEF Call, AtRest
<1>14. CASE TakeTimeout(c)
  <2>1. /\ once[c] = "timer" /\ UNCHANGED reader /\ once'[c] = "done" /\ reader[c] \notin AtRest
        /\ HandsOver(c, Answer(asked[c])) /\ UNCHANGED asked
    BY <1>2, <1>14 DEF TakeTimeout, OnceInv
  <2> QED BY <1>7, <2>1 DEF Call, AtRest
<1> QED BY <1>8, <1>9, <1>10, <1>11, <1>12, <1>13, <1>14 DEF Answering

\* Where the exec is, from the registry, its life and its watcher.
LEMMA PhaseOfLife ==
  ASSUME PhaseInv, WatcherTypes, NEW id \in Ids
  PROVE  /\ Phase(id) = "none" <=> life[id] = "none"
         /\ life[id] = "created" /\ id \in execMap => Phase(id) = "available"
         /\ life[id] = "streaming" /\ id \in execMap => Phase(id) = "running"
         /\ life[id] = "ended" /\ id \in execMap => Phase(id) = "over"
         /\ watcher[id].at = "pub" => Phase(id) = "removed"
         /\ watcher[id].at = "accept" => Phase(id) = "notified"
<1>1. /\ life[id] \in {"none", "created", "streaming", "ended"} /\ watcher[id].at \in At
      /\ life[id] = "none" => watcher[id].at = "none"
      /\ id \in execMap <=> life[id] # "none" /\ watcher[id].at \in {"none", "waiting"}
  BY DEF PhaseInv, WatcherTypes
<1>2. CASE id \in execMap
  BY <1>1, <1>2 DEF Phase, At
<1>3. CASE id \notin execMap /\ life[id] = "none"
  BY <1>1, <1>3 DEF Phase, At
<1>4. CASE id \notin execMap /\ life[id] # "none"
  BY <1>1, <1>4 DEF Phase, At
<1> QED BY <1>2, <1>3, <1>4

\* Steps that touch no more than one exec.
LEMMA PhaseMoves ==
  ASSUME PhaseInv, WatcherTypes, NEW id \in Ids,
         \A i \in Ids \ {id} :
            (i \in execMap' <=> i \in execMap) /\ life'[i] = life[i] /\ watcher'[i] = watcher[i]
  PROVE  Phases' = [Phases EXCEPT ![id] = Phase(id)']
<1>1. ASSUME NEW i \in Ids \ {id} PROVE Phase(i)' = Phase(i)
  <2>1. (i \in execMap' <=> i \in execMap) /\ life'[i] = life[i] /\ watcher'[i] = watcher[i]
    OBVIOUS
  <2>2. /\ i \in execMap => life[i] \in {"created", "streaming", "ended"}
        /\ i \notin execMap => life[i] = "none" \/ watcher[i].at \in {"pub", "accept"}
    BY DEF PhaseInv, WatcherTypes, At
  <2>3. CASE i \in execMap
    BY <2>1, <2>2, <2>3 DEF Phase
  <2>4. CASE i \notin execMap
    BY <2>1, <2>2, <2>4 DEF Phase
  <2> QED BY <2>3, <2>4
<1> QED BY <1>1 DEF Phases

\* A handler at work goes on working: only the exec that is made can be seen.
LEMMA HandlingSimulated ==
  ASSUME ContractInv, NEW c \in Clients, Handling(c)
  PROVE  Simulated
<1> USE DEF InHandler, registryVars, tunnelVars, historyVars, busVars, Handles
<1>1. /\ UNCHANGED <<consumers, once, out, asked, answers, notices, client>>
      /\ \E at \in Readers \ AtRest : reader' = [reader EXCEPT ![c] = at]
      /\ reader[c] \notin AtRest
  <2> USE DEF Readers, AtRest, Reply
  <2>1. reader \in [Clients -> Readers]
    BY DEF ContractInv, BusInv, HandlerTypes
  <2>2. CASE CreateExec(c)
    <3> DEFINE accepted == ValidateNoShellMetacharacters(request[c].exec.cwd) /\ setToken(c)
    <3>1. CASE accepted
      BY <2>2, <3>1 DEF CreateExec
    <3>2. CASE ~accepted
      BY <2>2, <3>2 DEF CreateExec
    <3> QED BY <3>1, <3>2
  <2>3. CASE DoCreate(c)
    <3>1. /\ UNCHANGED <<consumers, once, out, asked, answers, notices, client>> /\ reader[c] = "try"
          /\ UNCHANGED reader \/ reader' = [reader EXCEPT ![c] = "watch"]
      BY <2>3 DEF DoCreate
    <3>2. CASE UNCHANGED reader
      BY <2>1, <3>1, <3>2
    <3> QED BY <3>1, <3>2
  <2>4. CASE CreateFails(c)
    BY <2>4 DEF CreateFails
  <2>5. CASE CreateSucceeds(c)
    BY <2>5 DEF CreateSucceeds
  <2>6. CASE CheckExec(c)
    BY <2>6 DEF CheckExec
  <2>7. CASE ListContainersExec(c)
    BY <2>7 DEF ListContainersExec
  <2>8. CASE ResizeExec(c)
    BY <2>8 DEF ResizeExec
  <2>9. CASE SendSize(c)
    BY <2>9 DEF SendSize
  <2> QED BY <2>2, <2>3, <2>4, <2>5, <2>6, <2>7, <2>8, <2>9 DEF Handling
<1>2. Calls' = Calls /\ Calls[c] # "none"
  <2>1. /\ reader'[c] \notin AtRest
        /\ \A d \in Clients \ {c} : reader'[d] = reader[d] /\ once'[d] = once[d]
    BY <1>1 DEF ContractInv, BusInv, HandlerTypes
  <2>2. Call(c)' = Call(c) /\ Call(c) # "none"
    BY <1>1, <2>1 DEF Call, AtRest
  <2> QED BY <2>1, <2>2, CallStays DEF Calls
<1>3. ASSUME UNCHANGED <<Phases, Owed>> PROVE Simulated
  BY <1>1, <1>2, <1>3 DEF Simulated, Contract!vars, Subscribed
<1>4. CASE UNCHANGED <<execMap, life, watcher>>
  BY <1>3, <1>4 DEF Phases, Phase, Owed
<1>5. CASE CreateSucceeds(c)
  <2> DEFINE id == request[c].id
  <2>1. /\ reader[c] = "watch" /\ watcher' = [watcher EXCEPT ![id].at = "waiting"]
        /\ UNCHANGED <<execMap, life>>
    BY <1>5 DEF CreateSucceeds
  <2>2. id \in Ids => id \in execMap
    BY <2>1 DEF ContractInv, BusInv, IdsInv, HandlerTypes, PhaseInv, Ids
  <2>3. \A i \in Ids : watcher'[i].left = watcher[i].left /\ (i # id => watcher'[i] = watcher[i])
    BY <2>1 DEF ContractInv, BusInv, WatcherTypes
  <2> HIDE DEF id
  <2>4. Owed' = Owed
    BY <2>3 DEF Owed
  <2>5. \A i \in Ids : Phase(i)' = Phase(i)
    BY <2>1, <2>2, <2>3 DEF Phase
  <2> QED BY <1>3, <2>4, <2>5 DEF Phases
<1>6. CASE DoCreate(c)
  <2>1. CASE UNCHANGED <<execMap, life, watcher>>
    BY <1>4, <2>1
  <2>2. CASE ~UNCHANGED <<execMap, life, watcher>>
    <3>1. PICK id \in Ids :
            /\ id = prevExecID + 1 /\ UNCHANGED watcher
            /\ execMap' = execMap \cup {id} /\ life' = [life EXCEPT ![id] = "created"]
      <4>1. SlotsInv'
        BY <1>6, DoCreateKeepsSlots DEF ContractInv
      <4>2. /\ execMap' = execMap \cup {prevExecID + 1} /\ UNCHANGED watcher
            /\ life' = [life EXCEPT ![prevExecID + 1] = "created"]
        BY <1>6, <2>2 DEF DoCreate, NextID
      <4> QED BY <4>1, <4>2 DEF SlotsInv
    <3>2. prevExecID \in Nat /\ \A i \in Ids : i \in Nat
      BY DEF ContractInv, BusInv, HandlerTypes, Ids
    <3>3. /\ life \in [Ids -> {"none", "created", "streaming", "ended"}]
          /\ watcher \in [Ids -> [at : At, left : Seq(Clients)]] /\ PhaseInv
      BY DEF ContractInv, BusInv, WatcherTypes
    <3>4. \A i \in Ids : Phase(i) = "none" <=> i >= id
      <4>1. \A i \in Ids : i > prevExecID <=> i >= id
        BY <3>1, <3>2
      <4>2. \A i \in Ids : life[i] = "none" <=> i >= id
        BY <3>3, <4>1 DEF PhaseInv
      <4>3. \A i \in Ids : Phase(i) = "none" <=> life[i] = "none"
        BY PhaseOfLife DEF ContractInv, BusInv
      <4> QED BY <4>2, <4>3
    <3>5. id \in execMap' /\ life'[id] = "created"
      BY <3>1, <3>3
    <3>6. Phases' = [Phases EXCEPT ![id] = "available"]
      <4>1. \A i \in Ids \ {id} : (i \in execMap' <=> i \in execMap) /\ life'[i] = life[i] /\ watcher'[i] = watcher[i]
        BY <3>1, <3>3
      <4>2. Phases' = [Phases EXCEPT ![id] = Phase(id)']
        BY <4>1, PhaseMoves DEF ContractInv, BusInv
      <4> QED BY <3>5, <4>2 DEF Phase
    <3>7. Phases[id] = "none" /\ \A i \in Ids : Phases[i] = "none" <=> i >= id
      BY <3>2, <3>4 DEF Phases
    <3>8. Owed' = Owed
      BY <3>1 DEF Owed
    <3>9. Contract!Make(id)
      BY <1>1, <1>2, <3>6, <3>7, <3>8 DEF Contract!Make, Contract!Moves, Subscribed
    <3> QED BY <3>9 DEF Simulated, Contract!Next
  <2> QED BY <2>1, <2>2
<1>7. CASE CreateExec(c) \/ CreateFails(c) \/ CheckExec(c) \/ ListContainersExec(c) \/ ResizeExec(c) \/ SendSize(c)
  BY <1>4, <1>7 DEF CreateExec, CreateFails, CheckExec, ListContainersExec, ResizeExec, SendSize
<1> QED BY <1>5, <1>6, <1>7 DEF Handling

LEMMA LiveSimulated ==
  ASSUME ContractInv, NEW id \in Ids, Attach(id) \/ TakeSize(id) \/ StreamEnds(id) \/ Remove(id)
  PROVE  Simulated
<1> USE DEF InExec, requestVars, historyVars, busVars
<1>1. /\ UNCHANGED <<consumers, reader, once, out, asked, answers, notices, client>>
      /\ Calls' = Calls /\ Subscribed' = Subscribed
  BY CallsStay DEF Attach, TakeSize, StreamEnds, Remove, Subscribed
<1>2. PhaseInv /\ WatcherTypes /\ NoticesInv
  BY DEF ContractInv, BusInv
<1>3. CASE TakeSize(id)
  <2>1. UNCHANGED <<execMap, life, watcher, consumers>>
    BY <1>3 DEF TakeSize
  <2> QED BY <1>1, <2>1, BusStays DEF Simulated, Contract!vars
<1>4. ASSUME Owed' = Owed, Phases' = [Phases EXCEPT ![id] = Phase(id)'],
             \/ Phase(id) = "available" /\ Phase(id)' = "running"
             \/ Phase(id) = "running" /\ Phase(id)' = "over"
             \/ Phase(id) = "over" /\ Phase(id)' = "removed"
      PROVE  Simulated
  <2>1. Phases[id] = Phase(id)
    BY DEF Phases
  <2>2. Contract!Live(id)
    BY <1>1, <1>4, <2>1 DEF Contract!Live, Contract!Moves
  <2> QED BY <2>2 DEF Simulated, Contract!Next
<1>5. CASE Attach(id) \/ StreamEnds(id)
  <2>1. /\ UNCHANGED <<execMap, watcher>>
        /\ \/ life[id] = "created" /\ life' = [life EXCEPT ![id] = "streaming"]
           \/ life[id] = "streaming" /\ life' = [life EXCEPT ![id] = "ended"]
    BY <1>5 DEF Attach, StreamEnds
  <2>2. id \in execMap
    BY <1>2, <2>1 DEF PhaseInv, NoticesInv, WatcherTypes, At
  <2>3. /\ \A i \in Ids \ {id} : life'[i] = life[i]
        /\ \/ life[id] = "created" /\ life'[id] = "streaming"
           \/ life[id] = "streaming" /\ life'[id] = "ended"
    BY <1>2, <2>1 DEF WatcherTypes
  <2>4. Owed' = Owed
    BY <2>1 DEF Owed
  <2>5. Phases' = [Phases EXCEPT ![id] = Phase(id)']
    BY <1>2, <2>1, <2>3, PhaseMoves
  <2>6. CASE life[id] = "created" /\ life'[id] = "streaming"
    <3>1. Phase(id) = "available" /\ Phase(id)' = "running"
      BY <2>1, <2>2, <2>6 DEF Phase
    <3> QED BY <1>4, <2>4, <2>5, <3>1
  <2>7. CASE life[id] = "streaming" /\ life'[id] = "ended"
    <3>1. Phase(id) = "running" /\ Phase(id)' = "over"
      BY <2>1, <2>2, <2>7 DEF Phase
    <3> QED BY <1>4, <2>4, <2>5, <3>1
  <2> QED BY <2>3, <2>6, <2>7
<1>6. CASE Remove(id)
  <2>1. /\ watcher[id].at = "waiting" /\ life[id] = "ended" /\ UNCHANGED life
        /\ execMap' = execMap \ {id} /\ watcher' = [watcher EXCEPT ![id] = [at |-> "pub", left |-> <<>>]]
    BY <1>6 DEF Remove, WatcherMoves
  <2>2. id \in execMap /\ watcher[id].left = <<>>
    BY <1>2, <2>1 DEF PhaseInv
  <2>3. watcher'[id] = [at |-> "pub", left |-> <<>>] /\ \A i \in Ids \ {id} : watcher'[i] = watcher[i]
    BY <1>2, <2>1 DEF WatcherTypes
  <2>4. \A i \in Ids : watcher'[i].left = watcher[i].left
    BY <2>2, <2>3
  <2>5. Owed' = Owed
    BY <2>4 DEF Owed
  <2>6. Phases' = [Phases EXCEPT ![id] = Phase(id)']
    BY <1>2, <2>1, <2>3, PhaseMoves
  <2>7. Phase(id) = "over" /\ Phase(id)' = "removed"
    BY <2>1, <2>2, <2>3 DEF Phase
  <2> QED BY <1>4, <2>5, <2>6, <2>7
<1> QED BY <1>3, <1>5, <1>6

LEMMA PubSimulated ==
  ASSUME ContractInv, NEW id \in Ids, Pub(id)
  PROVE  Simulated
<1>1. /\ watcher[id].at = "pub" /\ watcher' = [watcher EXCEPT ![id] = [at |-> "accept", left |-> consumers]]
      /\ UNCHANGED <<execMap, life, consumers, reader, once, out, asked, answers, notices, client>>
  BY DEF Pub, WatcherMoves, InExec, requestVars, historyVars
<1>2. PhaseInv /\ WatcherTypes /\ NoticesInv
  BY DEF ContractInv, BusInv
<1>3. /\ watcher'[id] = [at |-> "accept", left |-> consumers] /\ \A i \in Ids \ {id} : watcher'[i] = watcher[i]
      /\ id \notin execMap /\ life[id] = "ended"
  BY <1>1, <1>2 DEF WatcherTypes, NoticesInv
<1>4. Phases' = [Phases EXCEPT ![id] = Phase(id)']
  BY <1>1, <1>2, <1>3, PhaseMoves
<1>5. Phases[id] = "removed" /\ Phase(id)' = "notified"
  BY <1>1, <1>3 DEF Phases, Phase
<1>6. Owed' = [Owed EXCEPT ![id] = Subscribed]
  <2>1. watcher'[id].left = consumers /\ \A i \in Ids \ {id} : watcher'[i].left = watcher[i].left
    BY <1>3
  <2> QED BY <2>1 DEF Owed, Subscribed
<1>7. Calls' = Calls /\ Subscribed' = Subscribed
  BY <1>1, CallsStay DEF Subscribed
<1>8. Contract!Announce(id)
  BY <1>1, <1>4, <1>5, <1>6, <1>7 DEF Contract!Announce, Contract!Moves
<1> QED BY <1>8 DEF Simulated, Contract!Next

LEMMA TailOmitsHead ==
  ASSUME NEW s \in Seq(Clients), s # <<>>, NoneTwice(s)
  PROVE  Range(Tail(s)) = Range(s) \ {Head(s)} /\ Head(s) \in Range(s)
<1>1. /\ Head(s) = s[1] /\ 1 \in DOMAIN s
      /\ DOMAIN s = 1 .. Len(s) /\ DOMAIN Tail(s) = 1 .. Len(s) - 1 /\ Len(s) \in Nat
  OBVIOUS
<1>2. \A i \in DOMAIN Tail(s) : i + 1 \in DOMAIN s /\ i + 1 # 1 /\ Tail(s)[i] = s[i + 1]
  OBVIOUS
<1>3. \A j \in DOMAIN s : j # 1 => j - 1 \in DOMAIN Tail(s) /\ Tail(s)[j - 1] = s[j]
  OBVIOUS
<1>4. \A i \in DOMAIN Tail(s) : Tail(s)[i] # Head(s)
  BY <1>1, <1>2 DEF NoneTwice
<1>5. \A x \in Range(Tail(s)) : x \in Range(s) /\ x # Head(s)
  BY <1>2, <1>4 DEF Range
<1>6. \A x \in Range(s) : x # Head(s) => x \in Range(Tail(s))
  BY <1>1, <1>3 DEF Range
<1>7. Head(s) \in Range(s)
  BY <1>1 DEF Range
<1> QED BY <1>5, <1>6, <1>7

\* Who is told was owed it, and who is passed over has left.
LEMMA AcceptSimulated ==
  ASSUME ContractInv, NEW id \in Ids, Accept(id)
  PROVE  Simulated
<1> DEFINE s == watcher[id].left
<1>1. PICK c \in Clients :
        /\ c = Head(s) /\ s \in Seq(Clients) /\ s # <<>> /\ NoneTwice(s)
        /\ watcher[id].at = "accept"
        /\ HandsOver(c, End(id)) \/ (~open[c] /\ UNCHANGED out)
        /\ watcher' = [watcher EXCEPT ![id] = [at |-> "accept", left |-> Tail(s)]]
  BY TailHasNoneTwice DEF Accept, WatcherMoves, ContractInv, BusInv, WatcherTypes, NoticesInv
<1>2. UNCHANGED <<execMap, life, consumers, reader, once, asked, answers, notices, client>>
  BY DEF Accept, InExec, requestVars, historyVars
<1>3. Range(Tail(s)) = Range(s) \ {c} /\ c \in Range(s)
  BY <1>1, TailOmitsHead
<1>4. ~open[c] => client[c] = "gone"
  <2>1. \E i \in DOMAIN watcher[id].left : watcher[id].left[i] = c
    BY <1>3 DEF Range
  <2>2. client[c] # "away" /\ client[c] \in {"away", "connected", "stalled", "gone"}
    BY <2>1 DEF ContractInv, CameInv, AnswerInv, AnswerTypes
  <2> QED BY <2>2 DEF ContractInv, OpenInv
<1>5. /\ watcher'[id] = [at |-> "accept", left |-> Tail(s)] /\ \A i \in Ids \ {id} : watcher'[i] = watcher[i]
  BY <1>1 DEF ContractInv, BusInv, WatcherTypes
<1> HIDE DEF s
<1>6. Owed' = [Owed EXCEPT ![id] = Owed[id] \ {c}] /\ c \in Owed[id]
  <2>1. watcher'[id].left = Tail(s) /\ \A i \in Ids \ {id} : watcher'[i].left = watcher[i].left
    BY <1>5
  <2>2. Owed[id] = Range(s)
    BY DEF Owed, s
  <2> QED BY <1>3, <2>1, <2>2 DEF Owed
<1>7. Phases' = Phases
  <2>1. watcher'[id].at = "accept" /\ watcher[id].at = "accept"
    BY <1>1, <1>5
  <2>2. \A i \in Ids : watcher'[i].at = watcher[i].at
    BY <1>5, <2>1
  <2> QED BY <1>2, <2>2 DEF Phases, Phase
<1>8. Calls' = Calls /\ Subscribed' = Subscribed
  BY <1>2, CallsStay DEF Subscribed
<1>9. Contract!Tell(c, id)
  BY <1>1, <1>2, <1>4, <1>6, <1>7, <1>8
     DEF Contract!Tell, Contract!Post, Contract!NoMail, HandsOver, Nothing, End
<1> QED BY <1>9 DEF Simulated, Contract!Next

\* The service keeps its contract with any number of clients, requests and execs: one
\* answer is sent to each request before the next is read, and one notice of each end
\* to each subscriber; what is sent arrives in order, and only who has left misses it.
THEOREM ServiceKeepsContract == Spec => ImplementsContract
<1>1. Init => Contract!Init
  BY DEF Init, Contract!Init, Contract!NoMail, Nothing, Subscribed, Range, Calls, Call, Phases, Phase, Owed
<1>2. ContractInv /\ [Next]_vars => [Contract!Next]_Contract!vars
  <2> SUFFICES ASSUME ContractInv, [Next]_vars PROVE Simulated
    BY DEF Simulated
  <2>1. ASSUME NEW c \in Clients, ClientChanges(c) \/ Connect(c) PROVE Simulated
    BY <2>1, ClientSimulated
  <2>2. ASSUME NEW c \in Clients, SettingUp(c) PROVE Simulated
    BY <2>2, SettingUpSimulated
  <2>3. ASSUME NEW c \in Clients, Ask(c) \/ CloseOnce(c) \/ Answering(c) PROVE Simulated
    BY <2>3, RequestSimulated
  <2>4. ASSUME NEW c \in Clients, Handling(c) PROVE Simulated
    BY <2>4, HandlingSimulated
  <2>5. ASSUME NEW id \in Ids, Attach(id) \/ TakeSize(id) \/ StreamEnds(id) \/ Watching(id) PROVE Simulated
    BY <2>5, LiveSimulated, PubSimulated, AcceptSimulated DEF Watching
  <2>6. ASSUME NEW c \in Clients, Writes(c) PROVE Simulated
    BY <2>6, WritesSimulated
  <2>7. CASE UNCHANGED vars
    <3>1. UNCHANGED <<execMap, life, watcher, consumers, reader, once, out, asked, answers, notices, client>>
      BY <2>7 DEF vars, registryVars, busVars, tunnelVars, requestVars, historyVars
    <3> QED BY <3>1, BusStays, CallsStay DEF Simulated, Contract!vars
  <2> QED BY <2>1, <2>2, <2>3, <2>4, <2>5, <2>6, <2>7 DEF Next
<1> QED BY <1>1, <1>2, ContractInvCorrect, PTL DEF Spec, Contract!Spec, ImplementsContract
=============================================================================
