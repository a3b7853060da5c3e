--------------------------- MODULE ServiceContract ---------------------------
(***************************************************************************)
(* What the clients of the JSON-RPC interface are promised, with no        *)
(* goroutine, channel or timer in sight.  What is sent to a client goes by *)
(* mail that holds one message: it arrives when the client reads, and is   *)
(* lost only if the client has left.  To every request one answer is       *)
(* posted, before the next one is read.  Execs are numbered as they are    *)
(* made.  An exec that has ended leaves the registry, then its end is      *)
(* announced, to everybody who had subscribed by then: one notice is       *)
(* posted to each, and only who has left may be passed over.               *)
(***************************************************************************)
EXTENDS Naturals, Sequences

CONSTANTS Clients, Ids

VARIABLES
    client,      \* "away", "connected", "stalled" (it reads nothing) or "gone"
    subscribed,  \* who asked to be told of ends
    asked,       \* how many requests of each client have been read
    call,        \* the last one: "waiting", "answered", or "none" when it is done with
    mail,        \* what is on its way to each client
    answers,     \* which requests the answers were to that it has received
    phase,       \* of each exec, in the words of ExecLifecycle; "none" before it is made
    owed,        \* for whom a notice of its end is still to be posted
    told         \* how often each client was told of it

vars == <<client, subscribed, asked, call, mail, answers, phase, owed, told>>

NoMail == [kind |-> "nothing"]

Init ==
    /\ client = [c \in Clients |-> "away"]
    /\ subscribed = {}
    /\ asked = [c \in Clients |-> 0]
    /\ call = [c \in Clients |-> "none"]
    /\ mail = [c \in Clients |-> NoMail]
    /\ answers = [c \in Clients |-> <<>>]
    /\ phase = [id \in Ids |-> "none"]
    /\ owed = [id \in Ids |-> {}]
    /\ told = [c \in Clients |-> [id \in Ids |-> 0]]

-----------------------------------------------------------------------------
\* A client comes once, reads or does not for a while, and leaves for good.
Change(c, from, to) ==
    /\ client[c] \in from
    /\ client' = [client EXCEPT ![c] = to]
    /\ UNCHANGED <<subscribed, asked, call, mail, answers, phase, owed, told>>

ClientSteps(c) ==
    \/ Change(c, {"away"}, "connected")
    \/ Change(c, {"connected"}, "stalled")
    \/ Change(c, {"stalled"}, "connected")
    \/ Change(c, {"connected", "stalled"}, "gone")

Subscribe(c) ==
    /\ client[c] # "away" /\ c \notin subscribed
    /\ subscribed' = subscribed \cup {c}
    /\ UNCHANGED <<client, asked, call, mail, answers, phase, owed, told>>

-----------------------------------------------------------------------------
Post(c, message) ==
    /\ mail[c] = NoMail
    /\ mail' = [mail EXCEPT ![c] = message]

Receive(c) ==
    /\ mail[c] # NoMail /\ client[c] # "stalled"
    /\ mail' = [mail EXCEPT ![c] = NoMail]
    /\ answers' = IF client[c] = "connected" /\ mail[c].kind = "answer"
                    THEN [answers EXCEPT ![c] = Append(@, mail[c].n)] ELSE answers
    /\ told' = IF client[c] = "connected" /\ mail[c].kind = "end"
                 THEN [told EXCEPT ![c][mail[c].id] = @ + 1] ELSE told
    /\ UNCHANGED <<client, subscribed, asked, call, phase, owed>>

Greet(c) ==
    /\ c \in subscribed
    /\ Post(c, [kind |-> "hello"])
    /\ UNCHANGED <<client, subscribed, asked, call, answers, phase, owed, told>>

Ask(c) ==
    /\ client[c] # "away" /\ call[c] = "none"
    /\ asked' = [asked EXCEPT ![c] = @ + 1]
    /\ call' = [call EXCEPT ![c] = "waiting"]
    /\ UNCHANGED <<client, subscribed, mail, answers, phase, owed, told>>

Answer(c) ==
    /\ call[c] = "waiting"
    /\ Post(c, [kind |-> "answer", n |-> asked[c]])
    /\ call' = [call EXCEPT ![c] = "answered"]
    /\ UNCHANGED <<client, subscribed, asked, answers, phase, owed, told>>

NextRequest(c) ==
    /\ call[c] = "answered"
    /\ call' = [call EXCEPT ![c] = "none"]
    /\ UNCHANGED <<client, subscribed, asked, mail, answers, phase, owed, told>>

-----------------------------------------------------------------------------
Moves(id, from, to) == phase[id] = from /\ phase' = [phase EXCEPT ![id] = to]

\* An exec is made for a request in progress, and is given the next identifier.
Make(id) ==
    /\ \E c \in Clients : call[c] # "none"
    /\ \A i \in Ids : phase[i] = "none" <=> i >= id
    /\ Moves(id, "none", "available")
    /\ UNCHANGED <<client, subscribed, asked, call, mail, answers, owed, told>>

Live(id) ==
    /\ Moves(id, "available", "running") \/ Moves(id, "running", "over") \/ Moves(id, "over", "removed")
    /\ UNCHANGED <<client, subscribed, asked, call, mail, answers, owed, told>>

Announce(id) ==
    /\ Moves(id, "removed", "notified")
    /\ owed' = [owed EXCEPT ![id] = subscribed]
    /\ UNCHANGED <<client, subscribed, asked, call, mail, answers, told>>

Tell(c, id) ==
    /\ c \in owed[id]
    /\ owed' = [owed EXCEPT ![id] = @ \ {c}]
    /\ Post(c, [kind |-> "end", id |-> id]) \/ (client[c] = "gone" /\ UNCHANGED mail)
    /\ UNCHANGED <<client, subscribed, asked, call, answers, phase, told>>

-----------------------------------------------------------------------------
Next ==
    \/ \E c \in Clients :
          \/ ClientSteps(c) \/ Subscribe(c) \/ Greet(c) \/ Receive(c)
          \/ Ask(c) \/ Answer(c) \/ NextRequest(c)
          \/ \E id \in Ids : Tell(c, id)
    \/ \E id \in Ids : Make(id) \/ Live(id) \/ Announce(id)

Spec == Init /\ [][Next]_vars
=============================================================================
