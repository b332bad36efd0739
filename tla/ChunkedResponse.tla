--------------------------- MODULE ChunkedResponse ---------------------------
(***************************************************************************)
(* One streamed answer, from the local service to the browser: the         *)
(* client's read and send loop, the gRPC stream, the server's dispatcher   *)
(* with its two looks at the table of pending requests and its five        *)
(* seconds for the bounded channel, the collector that writes the pipe,    *)
(* and the cancellation that a browser's departure sets off.               *)
(*                                                                         *)
(* Chunks are numbered, and every queue on the way hands them on in order, *)
(* so a queue is the set of the numbers in it: place[n] says where chunk n *)
(* is.  Number N + 1 is the error message that may end the answer.  That   *)
(* delivering it can meet a closed channel is PendingRequests' subject;    *)
(* here the message is then lost.                                          *)
(***************************************************************************)
EXTENDS Naturals, FiniteSets

CONSTANTS
    N,      \* chunks of the body
    Cap     \* capacity of the pending channel: 10, or 1 for an upgraded answer

ASSUME ChunkAssumption ==
    /\ N \in Nat \ {0}
    /\ Cap \in Nat \ {0}

Chunks == 1..N
Failure == N + 1
Messages == 1..(N + 1)

VARIABLES
    place,      \* where each message is
    marked,     \* the local service's last read returns data and EOF together
    client,     \* streamResponseInChunksWithContext
    disp,       \* what the dispatcher is delivering, or 0
    entry,      \* the request is pending and its channel open
    col,        \* the collector goroutine
    why,        \* why it ended
    reader,     \* the browser reads, or is gone
    cancel,     \* the cancellation: none, sent, or arrived at the client
    control,    \* the tunnel has a control channel
    broken,     \* the gRPC stream broke
    dropped     \* history: chunks given up after five seconds

vars == <<place, marked, client, disp, entry, col, why, reader, cancel, control, broken, dropped>>
serverVars == <<disp, entry, col, why, reader, dropped>>
linkVars == <<marked, control>>

Places == {"local", "net", "held", "chan", "write", "got", "lost"}
At(p) == {n \in Messages : place[n] = p}
First(p, n) == n \in At(p) /\ \A m \in At(p) : n <= m
Moved(n, p) == place' = [place EXCEPT ![n] = p]

TypeOK ==
    /\ place \in [Messages -> Places]
    /\ marked \in BOOLEAN /\ control \in BOOLEAN /\ broken \in BOOLEAN /\ entry \in BOOLEAN
    /\ client \in {"read", "send", "done"}
    /\ disp \in 0..(N + 1)
    /\ col \in {"wait", "write", "exit", "done"}
    /\ why \in {"none", "final", "error", "closed", "timeout", "gone"}
    /\ reader \in {"reading", "gone"}
    /\ cancel \in {"none", "sent", "arrived"}
    /\ dropped \subseteq Chunks

Init ==
    /\ place = [n \in Messages |-> "local"]
    /\ marked \in BOOLEAN
    /\ client = "read"
    /\ disp = 0
    /\ entry = TRUE
    /\ col = "wait"
    /\ why = "none"
    /\ reader = "reading"
    /\ cancel = "none"
    /\ control \in BOOLEAN
    /\ broken = FALSE
    /\ dropped = {}

-----------------------------------------------------------------------------
(* The client.                                                             *)

\* One turn of the loop up to the read: the cancellation is looked at first.
ClientRead ==
    /\ client = "read"
    /\ \/ /\ cancel = "arrived"
          /\ client' = "done"
       \/ /\ cancel # "arrived"
          /\ At("local") \cap Chunks # {}
          /\ client' = "send"
       \/ /\ cancel # "arrived"
          /\ At("local") \cap Chunks = {}    \* EOF comes alone: nothing tells the server
          /\ client' = "done"
    /\ UNCHANGED <<place, serverVars, cancel, linkVars, broken>>

\* The read fails or thirty minutes are over: sendErrorResponse.
ClientFails ==
    /\ client = "read" /\ cancel # "arrived"
    /\ client' = "done"
    /\ IF broken THEN UNCHANGED place ELSE Moved(Failure, "net")
    /\ UNCHANGED <<serverVars, cancel, linkVars, broken>>


Final(n) == n = N /\ marked

\* A broken stream takes neither the chunk nor the error message.
ClientSend ==
    /\ client = "send"
    /\ \/ /\ cancel = "arrived" \/ broken
          /\ client' = "done"
          /\ UNCHANGED place
       \/ /\ cancel # "arrived" /\ ~broken
          /\ \E n \in Chunks :
                /\ First("local", n)
                /\ Moved(n, "net")
                /\ client' = IF Final(n) THEN "done" ELSE "read"
    /\ UNCHANGED <<serverVars, cancel, linkVars, broken>>

\* handleControlMessages runs beside the loop; the data channel is read by
\* the goroutine that is in it, so a cancellation sent there comes too late.
CancelArrives ==
    /\ cancel = "sent" /\ control /\ ~broken
    /\ cancel' = "arrived"
    /\ UNCHANGED <<place, client, serverVars, linkVars, broken>>

-----------------------------------------------------------------------------
(* The server's dispatcher: handleClientMessages, handleRegularHTTPResponse *)
(* and handleErrorMessage.                                                  *)

\* The bug: a goroutine for each message.
ReceiveAnyOrder ==
    /\ ~broken /\ disp = 0
    /\ \E n \in At("net") :
          IF entry THEN Moved(n, "held") /\ disp' = n
                   ELSE Moved(n, "lost") /\ UNCHANGED disp
    /\ UNCHANGED <<marked, client, entry, col, why, reader, cancel, control, broken, dropped>>

Receive ==
    /\ ~broken /\ disp = 0
    /\ \E n \in Messages :
          /\ First("net", n)
          /\ IF entry THEN Moved(n, "held") /\ disp' = n
                      ELSE Moved(n, "lost") /\ UNCHANGED disp
    /\ UNCHANGED <<marked, client, entry, col, why, reader, cancel, control, broken, dropped>>

\* Between the look and this step requestsMux was free, so the entry may be
\* gone.  It is held, for a chunk, until the channel took it or five seconds
\* are over.  An error message takes the entry away.
Deliver ==
    /\ disp # 0
    /\ disp' = 0
    /\ \/ /\ entry /\ Cardinality(At("chan")) < Cap
          /\ Moved(disp, "chan")
          /\ UNCHANGED dropped
       \/ /\ ~entry
          /\ Moved(disp, "lost")
          /\ UNCHANGED dropped
       \/ /\ entry /\ Cardinality(At("chan")) >= Cap    \* for five seconds
          /\ Moved(disp, "lost")
          /\ dropped' = dropped \cup ({disp} \cap Chunks)
    /\ entry' = (entry /\ disp # Failure)
    /\ UNCHANGED <<marked, client, col, why, reader, cancel, control, broken>>

-----------------------------------------------------------------------------
(* The collector.                                                          *)

Ends(reason) == col' = "exit" /\ why' = reason

Take ==
    /\ col = "wait"
    /\ \E n \in Messages :
          /\ First("chan", n)
          /\ IF n = Failure
             THEN Moved(n, "got") /\ Ends("error")
             ELSE Moved(n, "write") /\ col' = "write" /\ UNCHANGED why
    /\ UNCHANGED <<marked, client, disp, entry, reader, cancel, control, broken, dropped>>

ChannelClosed ==
    /\ col = "wait" /\ ~entry /\ At("chan") = {}
    /\ Ends("closed")
    /\ UNCHANGED <<place, marked, client, disp, entry, reader, cancel, control, broken, dropped>>

Expire ==
    /\ col = "wait"
    /\ Ends("timeout")
    /\ UNCHANGED <<place, marked, client, disp, entry, reader, cancel, control, broken, dropped>>

\* The bug: the error of a write is not looked at.
WriteUnchecked ==
    /\ col = "write"
    /\ \E n \in At("write") :
          /\ Moved(n, IF reader = "reading" THEN "got" ELSE "lost")
          /\ IF Final(n) THEN Ends("final") ELSE col' = "wait" /\ UNCHANGED why
    /\ UNCHANGED <<marked, client, disp, entry, reader, cancel, control, broken, dropped>>

\* The pipe takes the chunk when the browser reads it; a browser that is gone
\* makes the write fail, and the client is told.
Write ==
    /\ col = "write"
    /\ \E n \in At("write") :
          \/ /\ reader = "reading"
             /\ Moved(n, "got")
             /\ IF Final(n) THEN Ends("final") ELSE col' = "wait" /\ UNCHANGED why
             /\ UNCHANGED cancel
          \/ /\ reader = "gone"
             /\ Moved(n, "lost")
             /\ Ends("gone")
             /\ cancel' = "sent"
    /\ UNCHANGED <<marked, client, disp, entry, reader, control, broken, dropped>>

\* The deferred functions: the entry is removed, its channel and the pipe
\* closed.
Cleanup ==
    /\ col = "exit"
    /\ col' = "done"
    /\ entry' = FALSE
    /\ place' = [n \in Messages |-> IF place[n] = "chan" THEN "lost" ELSE place[n]]
    /\ UNCHANGED <<marked, client, disp, why, reader, cancel, control, broken, dropped>>

-----------------------------------------------------------------------------
(* The environment: the browser leaves, or nothing came for sixty seconds   *)
(* and the pipe was closed on its side; the stream breaks and its cleanup   *)
(* closes the pending channels.                                             *)

ReaderLeaves ==
    /\ reader = "reading"
    /\ reader' = "gone"
    /\ UNCHANGED <<place, marked, client, disp, entry, col, why, cancel, control, broken, dropped>>

StreamBreaks ==
    /\ ~broken
    /\ broken' = TRUE
    /\ place' = [n \in Messages |-> IF place[n] = "net" THEN "lost" ELSE place[n]]
    /\ UNCHANGED <<marked, client, serverVars, cancel, control>>

CleanupStream ==
    /\ broken /\ entry
    /\ entry' = FALSE
    /\ UNCHANGED <<place, marked, client, disp, col, why, reader, cancel, control, broken, dropped>>

-----------------------------------------------------------------------------
ClientStep == ClientRead \/ ClientSend
Collector == Take \/ ChannelClosed \/ Write \/ Cleanup

Next ==
    \/ ClientStep \/ ClientFails \/ CancelArrives
    \/ Receive \/ Deliver
    \/ Collector \/ Expire
    \/ ReaderLeaves \/ StreamBreaks \/ CleanupStream

\* Goroutines run, messages arrive, the browser reads or leaves.  The
\* ten-minute timer is left out on purpose: see MarkedBodyEnds.
Fairness ==
    /\ WF_vars(ClientStep) /\ WF_vars(CancelArrives)
    /\ WF_vars(Receive) /\ WF_vars(Deliver)
    /\ WF_vars(Collector) /\ WF_vars(CleanupStream)

Spec == Init /\ [][Next]_vars /\ Fairness

-----------------------------------------------------------------------------
\* How far along the way a message is; lost ones are out of it.
Rank(p) ==
    CASE p = "local" -> 0 [] p = "net" -> 1 [] p = "held" -> 2 [] p = "chan" -> 3
      [] p = "write" -> 4 [] p = "got" -> 5 [] OTHER -> 6

NoOvertaking == \A m, n \in Messages : m < n =>
    \/ Rank(place[m]) >= Rank(place[n])
    \/ place[n] = "lost"
    \/ n = Failure /\ place[m] = "local"

\* At most one message is in the dispatcher's hands, one in the collector's.
OneInHand ==
    /\ \A m, n \in Messages : place[m] = "write" /\ place[n] = "write" => m = n
    /\ \A n \in Messages : (place[n] = "held") <=> (disp = n)
    /\ (col = "write") <=> (\E n \in Chunks : place[n] = "write")
    /\ place[Failure] # "write"

EndIsKnown ==
    /\ (why = "none") <=> (col \in {"wait", "write"})
    /\ entry => col # "done"
    /\ why = "final" => place[N] = "got"
    /\ place[Failure] # "local" => client = "done"

\* After a hole that the dispatcher did not make by giving up, nothing passes.
HolesEndIt ==
    /\ \A n \in dropped : place[n] = "lost"
    /\ \A n \in Messages : place[n] = "lost" /\ n \notin dropped =>
          /\ ~entry \/ broken \/ why # "none"
          /\ \A m \in Messages : m > n =>
                /\ place[m] \notin {"write", "got"}
                /\ place[m] \in {"held", "chan"} => why # "none"

\* No message overtakes another on the way from the client's loop to the
\* pipe, and what is lost otherwise than on a full channel ends the answer.
ChunkInv == TypeOK /\ NoOvertaking /\ OneInHand /\ EndIsKnown /\ HolesEndIt

\* A body that ended with its last chunk lacks only what was given up on a
\* full channel: no other hole, whatever broke, left or timed out meanwhile.
FinalMeansAll == why = "final" => \A n \in Chunks : place[n] = "got" \/ n \in dropped

\* The answer keeps the promise of BodyStream.
Body == INSTANCE BodyStream WITH
    offered <- {n \in Chunks : place[n] # "local"},
    got <- {n \in Chunks : place[n] = "got"},
    over <- col = "done"

InOrderOnce == Body!BodySpec

=============================================================================
