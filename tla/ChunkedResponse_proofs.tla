----------------------- MODULE ChunkedResponse_proofs -----------------------
(***************************************************************************)
(* Proofs about ChunkedResponse, for any number of chunks and any capacity *)
(* of the pending channel.                                                 *)
(***************************************************************************)
EXTENDS ChunkedResponse, TLAPS

\* The places in the order in which a message passes them.
LEMMA Ranks ==
    /\ Rank("local") = 0 /\ Rank("net") = 1 /\ Rank("held") = 2
    /\ Rank("chan") = 3 /\ Rank("write") = 4 /\ Rank("got") = 5
    /\ Rank("lost") = 6
BY DEF Rank

\* The error message is the one after the last chunk.
LEMMA Numbers ==
    /\ Messages \subseteq Nat /\ Chunks \subseteq Messages
    /\ Failure \in Messages /\ Failure \notin Chunks /\ N \in Chunks
    /\ \A n \in Messages : n \in Chunks \/ n = Failure
    /\ \A n \in Messages : n # 0 /\ n <= Failure
    /\ \A n \in Chunks : n <= N
BY ChunkAssumption DEF Messages, Chunks, Failure

\* The initial state satisfies the invariant.
LEMMA ChunkInit == Init => ChunkInv
<1> SUFFICES ASSUME Init PROVE ChunkInv
  OBVIOUS
<1>1. TypeOK
  <2>1. disp \in 0..(N + 1)
    BY ChunkAssumption DEF Init
  <2>2. QED
    BY <2>1 DEF Init, TypeOK, Places
<1>2. NoOvertaking
  BY Ranks, Numbers DEF Init, NoOvertaking
<1>3. OneInHand /\ EndIsKnown /\ HolesEndIt
  BY Numbers DEF Init, OneInHand, EndIsKnown, HolesEndIt
<1>4. QED
  BY <1>1, <1>2, <1>3 DEF ChunkInv

\* Every step of the client and of its control channel preserves it.
LEMMA ClientPreserves ==
    ASSUME ChunkInv, ClientStep \/ ClientFails \/ CancelArrives
    PROVE  ChunkInv'
<1> USE Numbers DEF ChunkInv, serverVars, linkVars
<1>1. CASE ClientRead \/ CancelArrives
  <2>1. /\ UNCHANGED <<place, disp, entry, col, why, reader, dropped, marked, control, broken>>
        /\ client' \in {"read", "send", "done"}
        /\ client = "done" => client' = "done"
        /\ cancel' \in {"none", "sent", "arrived"}
    BY <1>1 DEF ClientRead, CancelArrives, TypeOK
  <2>2. TypeOK'
    BY <2>1 DEF TypeOK
  <2>3. NoOvertaking' /\ OneInHand' /\ EndIsKnown' /\ HolesEndIt'
    BY <2>1 DEF NoOvertaking, OneInHand, EndIsKnown, HolesEndIt
  <2>4. QED
    BY <2>2, <2>3
<1>2. CASE ClientFails
  <2>1. TypeOK'
    BY <1>2 DEF ClientFails, Moved, TypeOK, Places
  <2>2. NoOvertaking'
    BY <1>2, Ranks DEF ClientFails, Moved, NoOvertaking, TypeOK, EndIsKnown, Places
  <2>3. OneInHand'
    BY <1>2 DEF ClientFails, Moved, TypeOK, OneInHand, EndIsKnown
  <2>4. EndIsKnown'
    BY <1>2 DEF ClientFails, Moved, TypeOK, EndIsKnown
  <2>5. HolesEndIt'
    BY <1>2 DEF ClientFails, Moved, TypeOK, EndIsKnown, HolesEndIt
  <2>6. QED
    BY <2>1, <2>2, <2>3, <2>4, <2>5
<1>3. CASE ClientSend
  <2>1. TypeOK'
    BY <1>3 DEF ClientSend, Moved, TypeOK, Places
  <2>2. NoOvertaking'
    BY <1>3, Ranks DEF ClientSend, Moved, First, At, NoOvertaking, TypeOK, EndIsKnown, Places
  <2>3. OneInHand'
    BY <1>3 DEF ClientSend, Moved, First, At, TypeOK, OneInHand
  <2>4. EndIsKnown'
    BY <1>3 DEF ClientSend, Moved, First, At, TypeOK, EndIsKnown
  <2>5. HolesEndIt'
    BY <1>3 DEF ClientSend, Moved, First, At, TypeOK, HolesEndIt
  <2>6. QED
    BY <2>1, <2>2, <2>3, <2>4, <2>5
<1>4. QED
  BY <1>1, <1>2, <1>3 DEF ClientStep

\* Every step of the dispatcher preserves it.
LEMMA DispatcherPreserves ==
    ASSUME ChunkInv, Receive \/ Deliver
    PROVE  ChunkInv'
<1> USE Numbers DEF ChunkInv
<1>1. CASE Receive
  <2>1. TypeOK'
    BY <1>1, ChunkAssumption DEF Receive, Moved, TypeOK, Places, Messages
  <2>2. NoOvertaking'
    <3>1. PICK k \in Messages : First("net", k) /\ (Moved(k, "held") \/ Moved(k, "lost"))
      BY <1>1 DEF Receive
    <3>2. SUFFICES ASSUME NEW m \in Messages, NEW n \in Messages, m < n
                   PROVE  NoOvertaking!(m, n)!2'
      BY DEF NoOvertaking
    <3> QED
      BY <3>1, <3>2, Ranks DEF Moved, First, At, NoOvertaking, TypeOK, Places
  <2>3. OneInHand'
    BY <1>1 DEF Receive, Moved, First, At, TypeOK, OneInHand
  <2>4. EndIsKnown'
    BY <1>1 DEF Receive, Moved, First, At, TypeOK, EndIsKnown
  <2>5. HolesEndIt'
    BY <1>1, Ranks DEF Receive, Moved, First, At, TypeOK, Places, NoOvertaking, HolesEndIt
  <2>6. QED
    BY <2>1, <2>2, <2>3, <2>4, <2>5
<1>2. CASE Deliver
  <2>1. disp \in Messages /\ place[disp] = "held"
    BY <1>2, ChunkAssumption DEF Deliver, TypeOK, Messages, OneInHand
  <2>2. TypeOK'
    <3>1. entry' \in BOOLEAN /\ disp' \in 0..(N + 1)
      BY <1>2, ChunkAssumption DEF Deliver
    <3>2. place' \in [Messages -> Places] /\ dropped' \subseteq Chunks
      BY <1>2, <2>1 DEF Deliver, Moved, TypeOK, Places
    <3>3. QED
      BY <1>2, <3>1, <3>2 DEF Deliver, TypeOK
  <2>3. NoOvertaking'
    BY <1>2, <2>1, Ranks DEF Deliver, Moved, NoOvertaking, OneInHand, TypeOK, Places
  <2>4. OneInHand'
    BY <1>2, <2>1 DEF Deliver, Moved, TypeOK, OneInHand
  <2>5. EndIsKnown'
    BY <1>2, <2>1 DEF Deliver, Moved, TypeOK, EndIsKnown
  <2>6. HolesEndIt'
    <3>1. \A m \in Messages : m > disp => place[m] \notin {"held", "chan", "write", "got"}
      BY <2>1, Ranks DEF TypeOK, NoOvertaking, OneInHand
    <3>2. /\ place' = [place EXCEPT ![disp] = "chan"] \/ place' = [place EXCEPT ![disp] = "lost"]
          /\ entry' => entry
          /\ UNCHANGED <<why, broken>>
          /\ place'[disp] = "lost" /\ disp \notin dropped' => ~entry'
          /\ dropped \subseteq dropped' /\ dropped' \subseteq dropped \cup {disp}
          /\ disp \in dropped' /\ disp \notin dropped => place'[disp] = "lost"
      BY <1>2, <2>1 DEF Deliver, Moved, TypeOK
    <3>3. disp \notin dropped
      BY <2>1 DEF HolesEndIt
    <3>4. \A n \in dropped' : place'[n] = "lost"
      BY <2>1, <3>2, <3>3 DEF HolesEndIt, TypeOK
    <3>5. ASSUME NEW n \in Messages, place'[n] = "lost", n \notin dropped'
          PROVE  HolesEndIt!2!(n)!2'
      BY <2>1, <3>1, <3>2, <3>5 DEF HolesEndIt, TypeOK
    <3>6. QED
      BY <3>4, <3>5 DEF HolesEndIt
  <2>7. QED
    BY <2>2, <2>3, <2>4, <2>5, <2>6
<1>3. QED
  BY <1>1, <1>2

\* Every step of the collector preserves it.
LEMMA CollectorPreserves ==
    ASSUME ChunkInv, Collector \/ Expire
    PROVE  ChunkInv'
<1> USE Numbers DEF ChunkInv
<1>1. CASE Take
  <2>1. TypeOK'
    BY <1>1 DEF Take, Moved, Ends, TypeOK, Places
  <2>2. NoOvertaking'
    <3>1. PICK k \in Messages : First("chan", k) /\ (Moved(k, "got") \/ Moved(k, "write"))
      BY <1>1 DEF Take
    <3>2. \A m \in Messages : place[m] # "write"
      BY <1>1 DEF Take, OneInHand
    <3>3. SUFFICES ASSUME NEW m \in Messages, NEW n \in Messages, m < n
                   PROVE  NoOvertaking!(m, n)!2'
      BY DEF NoOvertaking
    <3> QED
      BY <3>1, <3>2, <3>3, Ranks DEF Moved, First, At, NoOvertaking, TypeOK, Places
  <2>3. OneInHand'
    BY <1>1 DEF Take, Moved, Ends, First, At, TypeOK, OneInHand
  <2>4. EndIsKnown'
    BY <1>1 DEF Take, Moved, Ends, First, At, TypeOK, EndIsKnown
  <2>5. HolesEndIt'
    BY <1>1 DEF Take, Moved, Ends, First, At, TypeOK, EndIsKnown, HolesEndIt
  <2>6. QED
    BY <2>1, <2>2, <2>3, <2>4, <2>5
<1>2. CASE ChannelClosed \/ Expire
  <2>1. /\ UNCHANGED <<place, disp, entry, reader, dropped, marked, control, broken, client, cancel>>
        /\ col = "wait" /\ col' = "exit" /\ why' \in {"closed", "timeout"}
    BY <1>2 DEF ChannelClosed, Expire, Ends
  <2>2. TypeOK'
    BY <2>1 DEF TypeOK
  <2>3. NoOvertaking' /\ OneInHand' /\ EndIsKnown' /\ HolesEndIt'
    BY <2>1 DEF NoOvertaking, OneInHand, EndIsKnown, HolesEndIt
  <2>4. QED
    BY <2>2, <2>3
<1>3. CASE Write
  <2>1. TypeOK'
    BY <1>3 DEF Write, Moved, Ends, At, TypeOK, Places
  <2>2. NoOvertaking'
    <3>1. PICK k \in Messages : place[k] = "write" /\ (Moved(k, "got") \/ Moved(k, "lost"))
      BY <1>3 DEF Write, At
    <3>2. SUFFICES ASSUME NEW m \in Messages, NEW n \in Messages, m < n
                   PROVE  NoOvertaking!(m, n)!2'
      BY DEF NoOvertaking
    <3> QED
      BY <3>1, <3>2, Ranks DEF Moved, NoOvertaking, OneInHand, TypeOK, Places
  <2>3. OneInHand'
    BY <1>3 DEF Write, Moved, Ends, At, TypeOK, OneInHand
  <2>4. EndIsKnown'
    BY <1>3 DEF Write, Moved, Ends, At, Final, TypeOK, EndIsKnown, OneInHand
  <2>5. HolesEndIt'
    BY <1>3, Ranks DEF Write, Moved, Ends, At, TypeOK, Places, NoOvertaking, OneInHand,
       EndIsKnown, HolesEndIt
  <2>6. QED
    BY <2>1, <2>2, <2>3, <2>4, <2>5
<1>4. CASE Cleanup
  <2>1. TypeOK'
    BY <1>4 DEF Cleanup, TypeOK, Places
  <2>2. NoOvertaking'
    BY <1>4, Ranks DEF Cleanup, NoOvertaking, TypeOK, Places
  <2>3. OneInHand'
    BY <1>4 DEF Cleanup, TypeOK, OneInHand
  <2>4. EndIsKnown'
    BY <1>4 DEF Cleanup, TypeOK, EndIsKnown
  <2>5. HolesEndIt'
    BY <1>4, Ranks DEF Cleanup, TypeOK, Places, NoOvertaking, EndIsKnown, HolesEndIt
  <2>6. QED
    BY <2>1, <2>2, <2>3, <2>4, <2>5
<1>5. QED
  BY <1>1, <1>2, <1>3, <1>4 DEF Collector

\* So do the browser's leaving and the stream's end.
LEMMA EnvironmentPreserves ==
    ASSUME ChunkInv, ReaderLeaves \/ StreamBreaks \/ CleanupStream
    PROVE  ChunkInv'
<1> USE Numbers DEF ChunkInv
<1>1. CASE ReaderLeaves \/ CleanupStream
  <2>1. /\ UNCHANGED <<place, disp, col, why, dropped, marked, control, broken, client, cancel>>
        /\ reader' \in {"reading", "gone"}
        /\ entry' \in BOOLEAN /\ (entry' => entry)
    <3>1. CASE ReaderLeaves
      BY <3>1 DEF ReaderLeaves, TypeOK
    <3>2. CASE CleanupStream
      BY <3>2 DEF CleanupStream, TypeOK
    <3>3. QED
      BY <1>1, <3>1, <3>2
  <2>2. TypeOK'
    BY <2>1 DEF TypeOK
  <2>3. NoOvertaking' /\ OneInHand' /\ EndIsKnown' /\ HolesEndIt'
    BY <2>1 DEF NoOvertaking, OneInHand, EndIsKnown, HolesEndIt
  <2>4. QED
    BY <2>2, <2>3
<1>2. CASE StreamBreaks
  <2>1. TypeOK'
    BY <1>2 DEF StreamBreaks, serverVars, TypeOK, Places
  <2>2. NoOvertaking'
    BY <1>2, Ranks DEF StreamBreaks, NoOvertaking, TypeOK, Places
  <2>3. OneInHand'
    BY <1>2 DEF StreamBreaks, serverVars, TypeOK, OneInHand
  <2>4. EndIsKnown'
    BY <1>2 DEF StreamBreaks, serverVars, TypeOK, EndIsKnown
  <2>5. HolesEndIt'
    BY <1>2, Ranks DEF StreamBreaks, serverVars, TypeOK, Places, NoOvertaking, HolesEndIt
  <2>6. QED
    BY <2>1, <2>2, <2>3, <2>4, <2>5
<1>3. QED
  BY <1>1, <1>2

\* ChunkInv is inductive.
LEMMA ChunkNext == ChunkInv /\ [Next]_vars => ChunkInv'
<1> SUFFICES ASSUME ChunkInv, [Next]_vars PROVE ChunkInv'
  OBVIOUS
<1>1. CASE Next
  BY <1>1, ClientPreserves, DispatcherPreserves, CollectorPreserves, EnvironmentPreserves DEF Next
<1>2. CASE UNCHANGED vars
  BY <1>2 DEF vars, ChunkInv, TypeOK, NoOvertaking, OneInHand, EndIsKnown, HolesEndIt
<1>3. QED
  BY <1>1, <1>2

\* No message overtakes another between the client's loop and the pipe, and
\* every loss but the dispatcher's five-second drop ends the answer.
THEOREM ChunksKeepOrder == Spec => []ChunkInv
BY ChunkInit, ChunkNext, PTL DEF Spec

\* A hole the dispatcher did not make lets no later chunk through, so the
\* last chunk's arrival means that the others are there or were dropped.
LEMMA FinalFollows == ChunkInv => FinalMeansAll
<1> SUFFICES ASSUME ChunkInv, why = "final", NEW n \in Chunks,
                    place[n] # "got", n \notin dropped
             PROVE  FALSE
  BY DEF FinalMeansAll
<1>1. place[N] = "got"
  BY DEF ChunkInv, EndIsKnown
<1>2. n < N
  BY <1>1, Numbers
<1>3. place[n] = "lost"
  BY <1>1, <1>2, Numbers, Ranks DEF ChunkInv, NoOvertaking, TypeOK, Places
<1>4. QED
  BY <1>1, <1>2, <1>3, Numbers DEF ChunkInv, HolesEndIt

\* A body that the collector ended with its final mark has all its chunks
\* but those given up on a full channel.
THEOREM FinalBodiesAreWhole == Spec => []FinalMeansAll
BY ChunksKeepOrder, FinalFollows, PTL

\* The streamed answer implements BodyStream: the browser is given pieces in
\* order, each at most once and only those produced, and nothing after the end.
THEOREM AnswerIsBodyStream == Spec => InOrderOnce
<1>1. Init => Body!BodyInit
  BY Numbers DEF Init, Body!BodyInit
<1>2. ChunkInv /\ [Next]_vars => [Body!BodyNext]_Body!bodyVars
  <2> SUFFICES ASSUME ChunkInv, [Next]_vars PROVE [Body!BodyNext]_Body!bodyVars
    OBVIOUS
  <2> USE Numbers DEF Body!bodyVars, Body!BodyNext, Body!Pieces, Chunks
  <2>1. CASE ClientSend
    <3>1. CASE UNCHANGED place
      BY <2>1, <3>1 DEF ClientSend, serverVars
    <3>2. CASE \E n \in Chunks : First("local", n) /\ Moved(n, "net")
      <4>1. PICK n \in Chunks : First("local", n) /\ Moved(n, "net")
        BY <3>2
      <4>2. Body!Offer(n)
        BY <2>1, <4>1 DEF Body!Offer, ClientSend, serverVars, First, At, Moved, ChunkInv, TypeOK
      <4>3. QED
        BY <4>2
    <3>3. QED
      BY <2>1, <3>1, <3>2 DEF ClientSend
  <2>2. CASE Write
    <3>1. PICK n \in Messages : place[n] = "write" /\ (Moved(n, "got") \/ Moved(n, "lost"))
      BY <2>2 DEF Write, At
    <3>2. n \in Chunks
      BY <3>1 DEF ChunkInv, OneInHand
    <3>3. col = "write" /\ col' # "done"
      BY <2>2 DEF Write, Ends
    <3>4. CASE Moved(n, "got")
      <4>1. \A m \in Chunks : place[m] = "got" => m < n
        BY <3>1, <3>2, Ranks DEF ChunkInv, NoOvertaking
      <4>2. Body!Pass(n)
        BY <3>1, <3>2, <3>3, <3>4, <4>1 DEF Body!Pass, Moved, ChunkInv, TypeOK
      <4>3. QED
        BY <3>2, <4>2
    <3>5. CASE Moved(n, "lost")
      BY <3>1, <3>2, <3>3, <3>5 DEF Moved, ChunkInv, TypeOK
    <3>6. QED
      BY <3>1, <3>4, <3>5
  <2>3. CASE Cleanup
    <3>1. Body!End
      BY <2>3 DEF Body!End, Cleanup, ChunkInv, TypeOK
    <3>2. QED
      BY <3>1
  <2>4. CASE ~(ClientSend \/ Write \/ Cleanup)
    <3>1. /\ \A n \in Chunks : (place'[n] = "local") <=> (place[n] = "local")
          /\ \A n \in Chunks : (place'[n] = "got") <=> (place[n] = "got")
          /\ (col' = "done") <=> (col = "done")
      <4> USE <2>4 DEF ChunkInv, TypeOK
      <4>1. CASE ClientFails
        BY <4>1 DEF ClientFails, Moved, serverVars
      <4>2. CASE Receive
        BY <4>2 DEF Receive, Moved, First, At
      <4>3. CASE Deliver
        <5>1. place[disp] = "held" /\ disp \in Messages
          BY <4>3, ChunkAssumption DEF Deliver, Messages, OneInHand
        <5>2. QED
          BY <4>3, <5>1 DEF Deliver, Moved
      <4>4. CASE Take
        BY <4>4 DEF Take, Moved, First, At, Ends
      <4>5. CASE StreamBreaks
        BY <4>5 DEF StreamBreaks, serverVars
      <4>6. CASE \/ ClientRead \/ CancelArrives \/ ChannelClosed \/ Expire
                 \/ ReaderLeaves \/ CleanupStream \/ UNCHANGED vars
        BY <4>6 DEF ClientRead, CancelArrives, ChannelClosed, Expire, Ends, ReaderLeaves,
           CleanupStream, vars, serverVars
      <4>7. QED
        BY <4>1, <4>2, <4>3, <4>4, <4>5, <4>6 DEF Next, ClientStep, Collector
    <3>2. QED
      BY <3>1
  <2>5. QED
    BY <2>1, <2>2, <2>3, <2>4
<1>3. QED
  BY <1>1, <1>2, ChunksKeepOrder, PTL DEF Spec, InOrderOnce, Body!BodySpec
=============================================================================
