--------------------------- MODULE RequestChannel ---------------------------
(***************************************************************************)
(* What a tunnel stream promises whoever proxies requests over it: a call  *)
(* returns at most once, and never takes back what it returned; it returns *)
(* an answer only if the client has answered this very request, and the    *)
(* client hears only of requests that were let through.  It does not       *)
(* promise the answer: a call may fail although the client has answered.   *)
(***************************************************************************)
CONSTANT Requests

VARIABLES
    call,       \* where a call is, or what it returned
    answered    \* requests the client has sent something for

channelVars == <<call, answered>>

Answers == {"response", "stream"}

Failures == {"error", "timeout", "sendfail", "disconnected", "nochannel"}

ChannelInit ==
    /\ call = [r \in Requests |-> "new"]
    /\ answered = {}

\* A call is let through, or turned away.
Enter(r, v) ==
    /\ call[r] = "new"
    /\ v \in {"open", "rejected"}
    /\ call' = [call EXCEPT ![r] = v]
    /\ UNCHANGED answered

\* The client sends something for it, also when the call has already returned.
Answer(r) ==
    /\ call[r] \notin {"new", "rejected"}
    /\ answered' = answered \cup {r}
    /\ UNCHANGED call

Settle(r, v) ==
    /\ call[r] = "open"
    /\ v \in Failures \/ (v \in Answers /\ r \in answered)
    /\ call' = [call EXCEPT ![r] = v]
    /\ UNCHANGED answered

ChannelNext ==
    \E r \in Requests :
        \/ Answer(r)
        \/ \E v \in {"open", "rejected"} : Enter(r, v)
        \/ \E v \in Failures \cup Answers : Settle(r, v)

ChannelSpec == ChannelInit /\ [][ChannelNext]_channelVars
=============================================================================
