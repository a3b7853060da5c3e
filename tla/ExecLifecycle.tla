---------------------------- MODULE ExecLifecycle ----------------------------
(***************************************************************************)
(* What the clients of an exec are promised, with no goroutine, lock or    *)
(* channel in sight.  An exec accepts /attach requests until it is         *)
(* removed, and refuses them from then on.  The first accepted request may *)
(* start it.  Once it has ended it is removed, and only then is its end    *)
(* published, once, with the result it ended with.                         *)
(***************************************************************************)
CONSTANT Clients

VARIABLES
    phase,    \* where the exec is in its life
    request,  \* the answer to each /attach request
    result,   \* how it ended
    event     \* what was published about it

vars == <<phase, request, result, event>>

Init ==
    /\ phase = "available"
    /\ request = [c \in Clients |-> "none"]
    /\ result = "none"
    /\ event = "none"

Removed == phase \in {"removed", "notified"}

Accept(c) ==
    /\ ~Removed
    /\ request[c] = "none"
    /\ request' = [request EXCEPT ![c] = "accepted"]
    /\ UNCHANGED <<phase, result, event>>

Refuse(c) ==
    /\ Removed
    /\ request[c] = "none"
    /\ request' = [request EXCEPT ![c] = "refused"]
    /\ UNCHANGED <<phase, result, event>>

Start ==
    /\ phase = "available"
    /\ \E c \in Clients : request[c] = "accepted"
    /\ phase' = "running"
    /\ UNCHANGED <<request, result, event>>

End ==
    /\ phase = "running"
    /\ phase' = "over"
    /\ result' \in {"exit", "error"}
    /\ UNCHANGED <<request, event>>

Remove ==
    /\ phase = "over"
    /\ phase' = "removed"
    /\ UNCHANGED <<request, result, event>>

Notify ==
    /\ phase = "removed"
    /\ phase' = "notified"
    /\ event' = result
    /\ UNCHANGED <<request, result>>

Next ==
    \/ \E c \in Clients : Accept(c) \/ Refuse(c)
    \/ Start \/ End \/ Remove \/ Notify

Spec == Init /\ [][Next]_vars
=============================================================================
