------------------------- MODULE GRPCService_proofs -------------------------
(***************************************************************************)
(* Proofs about the gRPC server of grpc_service.go: its requests            *)
(* (PendingRequests), for any sets of requests, any channel capacities and *)
(* any number of messages from the client, and its streams                 *)
(* (StreamRegistry), for any sets of domains, data streams and control     *)
(* streams.                                                                *)
(***************************************************************************)
EXTENDS PendingRequests, StreamRegistry, TLAPS

-----------------------------------------------------------------------------
(* The requests.                                                           *)

\* The initial state satisfies the inductive invariant.
LEMMA InitInv == Init => IndInv
<1> SUFFICES ASSUME Init PROVE IndInv
  OBVIOUS
<1>1. TypeOK
  <2>1. buf \in [Requests -> Seq(Kinds)]
    BY DEF Init
  <2>2. /\ handler = Idle
        /\ Idle \in [st : HandlerStates, req : Requests \cup {None},
                     kind : Kinds \cup {None}]
    BY DEF Init, Idle, HandlerStates
  <2>3. handler.st = "recv"
    BY <2>2 DEF Idle
  <2>4. QED
    BY <2>1, <2>2, <2>3 DEF Init, TypeOK, None, PCs, Results, CollectorStates
<1>2. AnswersAreFinal
  BY DEF Init, AnswersAreFinal
<1>3. QED
  BY <1>1, <1>2
     DEF Init, IndInv, ChannelLifecycle, SafePathsNeverPanic, DispatcherInv,
         EntriesOwned, Owned, Started, Idle, None

\* Tail drops the first element.
LEMMA TailFacts ==
    ASSUME NEW S, NEW s \in Seq(S), s # <<>>
    PROVE  /\ Tail(s) \in Seq(S)
           /\ Head(s) \in S
           /\ 1 \in 1..Len(s) /\ s[1] = Head(s)
           /\ \A i \in 1..Len(Tail(s)) : i + 1 \in 1..Len(s) /\ Tail(s)[i] = s[i + 1]
OBVIOUS

\* Append keeps the elements and adds one.
LEMMA AppendFacts ==
    ASSUME NEW S, NEW s \in Seq(S), NEW e \in S
    PROVE  /\ Append(s, e) \in Seq(S)
           /\ \A i \in 1..Len(Append(s, e)) :
                 \/ i \in 1..Len(s) /\ Append(s, e)[i] = s[i]
                 \/ Append(s, e)[i] = e
OBVIOUS

\* A receive leaves only messages in a channel that were there before.
LEMMA BufAfterReceive ==
    ASSUME TypeOK, NEW r \in Requests, buf[r] # <<>>,
           buf' = [buf EXCEPT ![r] = Tail(@)]
    PROVE  /\ buf' \in [Requests -> Seq(Kinds)]
           /\ \A q \in Requests : \A i \in 1..Len(buf'[q]) :
                 \E j \in 1..Len(buf[q]) : buf'[q][i] = buf[q][j]
<1>1. buf \in [Requests -> Seq(Kinds)] /\ buf[r] \in Seq(Kinds)
  BY DEF TypeOK
<1>2. /\ Tail(buf[r]) \in Seq(Kinds)
      /\ \A i \in 1..Len(Tail(buf[r])) :
            i + 1 \in 1..Len(buf[r]) /\ Tail(buf[r])[i] = buf[r][i + 1]
  BY <1>1, TailFacts
<1>3. buf' = [q \in Requests |-> IF q = r THEN Tail(buf[r]) ELSE buf[q]]
  BY <1>1
<1>4. ASSUME NEW q \in Requests, NEW i \in 1..Len(buf'[q])
      PROVE  \E j \in 1..Len(buf[q]) : buf'[q][i] = buf[q][j]
  <2>1. CASE q = r
    BY <1>2, <1>3, <2>1
  <2>2. CASE q # r
    BY <1>3, <2>2
  <2>3. QED
    BY <2>1, <2>2
<1>5. QED
  BY <1>1, <1>2, <1>3, <1>4

\* A delivery adds at most the delivered message, to one channel.
LEMMA BufAfterDelivery ==
    ASSUME TypeOK, NEW r \in Requests, NEW k \in Kinds,
           buf' = IF Len(buf[r]) < Cap(r)
                  THEN [buf EXCEPT ![r] = Append(@, k)] ELSE buf
    PROVE  /\ buf' \in [Requests -> Seq(Kinds)]
           /\ \A q \in Requests : \A i \in 1..Len(buf'[q]) :
                 \/ i \in 1..Len(buf[q]) /\ buf'[q][i] = buf[q][i]
                 \/ q = r /\ buf'[q][i] = k
<1>1. buf \in [Requests -> Seq(Kinds)] /\ buf[r] \in Seq(Kinds)
  BY DEF TypeOK
<1>2. /\ Append(buf[r], k) \in Seq(Kinds)
      /\ \A i \in 1..Len(Append(buf[r], k)) :
            \/ i \in 1..Len(buf[r]) /\ Append(buf[r], k)[i] = buf[r][i]
            \/ Append(buf[r], k)[i] = k
  BY <1>1, AppendFacts
<1>3. CASE buf' = [buf EXCEPT ![r] = Append(@, k)]
  <2>1. buf' = [q \in Requests |-> IF q = r THEN Append(buf[r], k) ELSE buf[q]]
    BY <1>1, <1>3
  <2>2. ASSUME NEW q \in Requests, NEW i \in 1..Len(buf'[q])
        PROVE  \/ i \in 1..Len(buf[q]) /\ buf'[q][i] = buf[q][i]
               \/ q = r /\ buf'[q][i] = k
    BY <1>2, <2>1
  <2>3. QED
    BY <1>1, <1>2, <2>1, <2>2
<1>4. CASE buf' = buf
  BY <1>1, <1>4
<1>5. QED
  BY <1>3, <1>4

\* One goroutine moves on: all other entries stay owned.
LEMMA OwnedKept ==
    ASSUME EntriesOwned, NEW r \in Requests,
           \A q \in Requests \ {r} :
              pc'[q] = pc[q] /\ coll'[q] = coll[q] /\ result'[q] = result[q],
           handler' = handler, pending' = pending,
           r \in pending => Owned(r)'
    PROVE  EntriesOwned'
<1>1. ASSUME NEW q \in Requests, q \in pending, q # r
      PROVE  Owned(q)'
  <2>1. Owned(q)
    BY <1>1 DEF EntriesOwned
  <2>2. pc'[q] = pc[q] /\ coll'[q] = coll[q] /\ result'[q] = result[q]
    BY <1>1
  <2>3. BeingFailed(q)' <=> BeingFailed(q)
    BY DEF BeingFailed
  <2>4. QED
    BY <2>1, <2>2, <2>3 DEF Owned
<1>2. QED
  BY <1>1 DEF EntriesOwned

\* A goroutine that has registered its channel moves on and touches nothing the
\* dispatcher uses.
LEMMA MoveKeeps ==
    ASSUME IndInv, TypeOK', EntriesOwned',
           NEW r \in Requests, Started(r),
           NEW l \in PCs \ {"idle", "found", "rejected"},
           pc' = [pc EXCEPT ![r] = l],
           UNCHANGED <<chanVars, handler, muxHeld, panic>>
    PROVE  IndInv'
<1>1. \A q \in Requests : Started(q)' <=> Started(q)
  BY DEF IndInv, TypeOK, Started
<1>2. ChannelLifecycle' /\ SafePathsNeverPanic'
  BY <1>1 DEF IndInv, ChannelLifecycle, SafePathsNeverPanic, chanVars
<1>3. DispatcherInv'
  BY <1>1 DEF IndInv, TypeOK, DispatcherInv, chanVars
<1>4. AnswersAreFinal'
  BY <1>1 DEF IndInv, AnswersAreFinal, chanVars
<1>5. QED
  BY <1>2, <1>3, <1>4 DEF IndInv

\* The caller of a regular request takes a message from its channel.
LEMMA ReceiveAnswerPreserves ==
    ASSUME IndInv, NEW r \in Requests, ReceiveAnswer(r)
    PROVE  IndInv'
<1> USE RequestsDisjoint DEF IndInv, ReceiveAnswer, Goto, Return
<1>1. ASSUME buf[r] # <<>>, buf' = [buf EXCEPT ![r] = Tail(@)],
             \/ Head(buf[r]) \in Chunks /\ Goto(r, "lookup")
             \/ Head(buf[r]) \notin Chunks /\ Goto(r, "done")
      PROVE  IndInv'
  <2>1. /\ Head(buf[r]) \in Kinds
        /\ 1 \in 1..Len(buf[r]) /\ buf[r][1] = Head(buf[r])
    BY <1>1, TailFacts DEF TypeOK
  <2>2. /\ buf' \in [Requests -> Seq(Kinds)]
        /\ \A q \in Requests : \A i \in 1..Len(buf'[q]) :
              \E j \in 1..Len(buf[q]) : buf'[q][i] = buf[q][j]
    BY <1>1, BufAfterReceive
  <2>3. TypeOK'
    <3>1. /\ initial' \in [Requests -> Chunks \cup {None}]
          /\ result' \in [Requests -> Results]
          /\ pc' \in [Requests -> PCs]
      <4>1. CASE Head(buf[r]) \in Chunks
        <5>1. /\ initial' = [initial EXCEPT ![r] = Head(buf[r])]
              /\ pc' = [pc EXCEPT ![r] = "lookup"] /\ result' = result
          BY <1>1, <4>1
        <5> HIDE DEF ReceiveAnswer, Goto, Return
        <5>2. QED
          BY <4>1, <5>1 DEF TypeOK, PCs
      <4>2. CASE Head(buf[r]) \notin Chunks
        <5>1. PICK v \in {"response", "error"} :
                 result' = [result EXCEPT ![r] = v]
          BY <1>1, <4>2
        <5>2. initial' = initial /\ pc' = [pc EXCEPT ![r] = "done"]
          BY <1>1, <4>2
        <5> HIDE DEF ReceiveAnswer, Goto, Return
        <5>3. v \in Results /\ "done" \in PCs
          BY DEF Results, PCs
        <5>4. QED
          BY <5>1, <5>2, <5>3 DEF TypeOK
      <4>3. QED
        BY <4>1, <4>2
    <3>2. QED
      BY <2>2, <3>1 DEF TypeOK, chanVars, collVars, clientVars, streamVars
  <2>4. ChannelLifecycle'
    BY <1>1 DEF TypeOK, ChannelLifecycle, Started
  <2>5. SafePathsNeverPanic'
    BY DEF SafePathsNeverPanic
  <2>6. DispatcherInv'
    BY <1>1 DEF TypeOK, DispatcherInv, Started
  <2>7. AnswersAreFinal'
    BY <1>1, <2>2 DEF TypeOK, AnswersAreFinal, Started
  <2>8. EntriesOwned'
    <3>1. /\ \A q \in Requests \ {r} :
                pc'[q] = pc[q] /\ coll'[q] = coll[q] /\ result'[q] = result[q]
          /\ handler' = handler /\ pending' = pending
      BY <1>1 DEF TypeOK, collVars
    <3>2. CASE Head(buf[r]) \in Chunks
      <4>1. pc'[r] = "lookup"
        BY <1>1, <3>2 DEF TypeOK
      <4> HIDE DEF ReceiveAnswer, Goto, Return
      <4>2. QED
        BY <3>1, <4>1, OwnedKept DEF Owned
    <3>3. CASE Head(buf[r]) \notin Chunks
      <4>1. r \notin pending \/ (handler.st = "errclean" /\ handler.req = r)
        BY <2>1, <3>3 DEF AnswersAreFinal, Kinds, Chunks
      <4> HIDE DEF ReceiveAnswer, Goto, Return
      <4>2. r \in pending => Owned(r)'
        BY <3>1, <4>1 DEF Owned, BeingFailed
      <4>3. QED
        BY <3>1, <4>2, OwnedKept
    <3>4. QED
      BY <3>2, <3>3
  <2>9. QED
    BY <2>3, <2>4, <2>5, <2>6, <2>7, <2>8
<1>2. ASSUME buf[r] = <<>>, r \in closed, buf' = buf, initial' = initial,
             Return(r, "error")
      PROVE  IndInv'
  <2>1. pc' = [pc EXCEPT ![r] = "done"] /\ Started(r) /\ r \notin pending
    BY <1>2 DEF Started, ChannelLifecycle
  <2>2. TypeOK'
    BY <1>2 DEF TypeOK, PCs, Results, collVars, clientVars, streamVars
  <2>3. /\ \A q \in Requests \ {r} :
              pc'[q] = pc[q] /\ coll'[q] = coll[q] /\ result'[q] = result[q]
        /\ handler' = handler /\ pending' = pending
    BY <1>2 DEF TypeOK, collVars
  <2>4. EntriesOwned'
    BY <2>1, <2>3, OwnedKept
  <2>5. QED
    BY <2>1, <2>2, <2>4, <1>2, MoveKeeps DEF chanVars, PCs
<1> HIDE DEF IndInv
<1>3. QED
  BY <1>1, <1>2

\* The dispatcher delivers a complete response, or panics.
LEMMA DeliverRegularPreserves ==
    ASSUME IndInv, panic = None, DeliverRegular
    PROVE  IndInv'
<1> DEFINE r == handler.req
<1> USE DEF IndInv, DeliverRegular, reqVars, collVars, clientVars, streamVars
<1>0. r \in Requests /\ handler.kind \in Kinds
  BY DEF TypeOK
<1>1. CASE r \in closed
  BY <1>0, <1>1
     DEF TypeOK, ChannelLifecycle, SafePathsNeverPanic, DispatcherInv, None,
         AnswersAreFinal, EntriesOwned, Owned, Started, BeingFailed, chanVars
<1>2. CASE r \notin closed
  <2>1. /\ buf' \in [Requests -> Seq(Kinds)]
        /\ \A q \in Requests : \A i \in 1..Len(buf'[q]) :
              \/ i \in 1..Len(buf[q]) /\ buf'[q][i] = buf[q][i]
              \/ q = r /\ buf'[q][i] = handler.kind
    BY <1>0, <1>2, BufAfterDelivery
  <2>2. /\ pending' = pending \ {r} /\ closed' = closed \cup {r}
        /\ handler' = Idle /\ muxHeld' = FALSE /\ panic' = panic
    BY <1>2
  <2>3. handler'.st = "recv"
    BY <2>2 DEF Idle
  <2> HIDE DEF DeliverRegular
  <2>4. TypeOK'
    BY <1>0, <2>1, <2>2, <2>3 DEF TypeOK, Idle, HandlerStates, DeliverRegular
  <2>5. QED
    <3>1. UNCHANGED <<reqVars, collVars, clientVars, streamVars>> /\ handler.st = "regsend"
      BY DEF DeliverRegular
    <3>2. ChannelLifecycle'
      BY <1>0, <2>2, <3>1 DEF ChannelLifecycle, Started, DispatcherInv
    <3>3. SafePathsNeverPanic' /\ DispatcherInv'
      BY <2>2, <2>3 DEF SafePathsNeverPanic, DispatcherInv
    <3>4. AnswersAreFinal'
      BY <1>0, <2>1, <2>2, <3>1 DEF AnswersAreFinal, Started, DispatcherInv
    <3>5. EntriesOwned'
      BY <2>2, <3>1 DEF EntriesOwned, Owned, BeingFailed
    <3>6. QED
      BY <2>4, <3>2, <3>3, <3>4, <3>5
<1> HIDE DEF IndInv
<1>3. QED
  BY <1>1, <1>2

\* collectChunkedResponseNoSend finds its channel, or reports that it has none.
LEMMA LookupChannelPreserves ==
    ASSUME IndInv, NEW r \in Requests, LookupChannel(r)
    PROVE  IndInv'
<1> USE DEF IndInv, LookupChannel, Goto, Return
<1>0. PICK l \in {"meta", "done"} :
         /\ pc' = [pc EXCEPT ![r] = l]
         /\ r \in pending => l = "meta"
  OBVIOUS
<1>1. TypeOK'
  <2>1. /\ coll' \in [Requests -> CollectorStates]
        /\ pc' \in [Requests -> PCs]
        /\ result' \in [Requests -> Results]
    <3>1. CASE r \in pending
      BY <3>1 DEF TypeOK, CollectorStates, PCs
    <3>2. CASE r \notin pending
      BY <3>2 DEF TypeOK, Results, PCs
    <3>3. QED
      BY <3>1, <3>2
  <2>2. QED
    BY <2>1 DEF TypeOK, chanVars, clientVars, streamVars
<1>2. pc[r] = "lookup" /\ UNCHANGED <<chanVars, handler, muxHeld, panic>>
  OBVIOUS
<1> HIDE DEF LookupChannel, Goto, Return
<1>3. EntriesOwned'
  <2>1. /\ \A q \in Requests \ {r} :
              pc'[q] = pc[q] /\ coll'[q] = coll[q] /\ result'[q] = result[q]
        /\ r \in pending => coll'[r] \in {"first", "init"}
    <3>1. CASE r \in pending
      BY <1>0, <3>1 DEF TypeOK, LookupChannel
    <3>2. CASE r \notin pending
      BY <1>0, <3>2 DEF TypeOK, LookupChannel, Return
    <3>3. QED
      BY <3>1, <3>2
  <2>2. handler' = handler /\ pending' = pending
    BY <1>2 DEF chanVars
  <2>3. QED
    BY <2>1, <2>2, OwnedKept DEF Owned
<1>4. QED
  BY <1>0, <1>1, <1>2, <1>3, MoveKeeps DEF Started, PCs

\* The wait for the metadata of a chunked response ends without it.
LEMMA MetadataFailsPreserves ==
    ASSUME IndInv, NEW r \in Requests, MetadataFails(r)
    PROVE  IndInv'
<1> USE DEF IndInv, MetadataFails, Return
<1>1. /\ pc' = [pc EXCEPT ![r] = "done"]
      /\ UNCHANGED <<chanVars, coll, handler, muxHeld, panic>>
  OBVIOUS
<1>2. TypeOK'
  <2>1. /\ signals' \in [Requests -> SUBSET {"meta", "err"}]
        /\ result' \in [Requests -> Results]
    <3>1. CASE signals' = signals
      BY <3>1 DEF TypeOK, Results
    <3>2. CASE signals' = [signals EXCEPT ![r] = @ \ {"err"}]
      BY <3>2 DEF TypeOK, Results
    <3>3. QED
      BY <3>1, <3>2
  <2>2. QED
    BY <1>1, <2>1 DEF TypeOK, PCs, chanVars, clientVars, streamVars
<1>3. ChannelLifecycle'
  <2> HIDE DEF MetadataFails
  <2>1. \A q \in Requests : Started(q)' <=> Started(q)
    BY <1>1 DEF TypeOK, Started, MetadataFails
  <2>2. QED
    BY <1>1, <2>1 DEF ChannelLifecycle, chanVars
<1>4. SafePathsNeverPanic' /\ DispatcherInv'
  BY <1>1 DEF TypeOK, SafePathsNeverPanic, DispatcherInv, Started, chanVars
<1>5. AnswersAreFinal'
  BY <1>1 DEF TypeOK, AnswersAreFinal, Started, chanVars
<1>6. EntriesOwned'
  <2>1. pc[r] = "meta" /\ coll' = coll /\ handler' = handler /\ pending' = pending
    BY DEF chanVars
  <2>2. \A q \in Requests \ {r} : pc'[q] = pc[q] /\ result'[q] = result[q]
    BY DEF TypeOK
  <2> HIDE DEF MetadataFails
  <2>3. r \in pending => Owned(r)'
    BY <2>1 DEF EntriesOwned, Owned, BeingFailed
  <2>4. QED
    BY <2>1, <2>2, <2>3, OwnedKept
<1>7. QED
  BY <1>2, <1>3, <1>4, <1>5, <1>6

\* The dispatcher verifies the entry of a chunk under the lock.
LEMMA LockChunkPreserves ==
    ASSUME IndInv, panic = None, LockChunk
    PROVE  IndInv'
<1>1. /\ handler.st = "chunk" /\ handler.req \in Requests
      /\ handler.kind \in Kinds /\ handler.kind \in Chunks
      /\ handler \in [st : HandlerStates, req : Requests \cup {None},
                      kind : Kinds \cup {None}]
      /\ UNCHANGED <<chanVars, reqVars, collVars, clientVars, streamVars, panic>>
  BY DEF IndInv, LockChunk, TypeOK, DispatcherInv
<1>2. /\ handler' \in [st : HandlerStates, req : Requests \cup {None},
                       kind : Kinds \cup {None}]
      /\ \/ /\ handler.req \in pending /\ muxHeld' = TRUE
            /\ handler'.st = "chunksend" /\ handler'.req = handler.req
            /\ handler'.kind = handler.kind
         \/ handler'.st = "recv" /\ muxHeld' = muxHeld
  <2>1. CASE handler.req \in pending
    <3>1. handler' = [handler EXCEPT !.st = "chunksend"] /\ muxHeld' = TRUE
      BY <2>1 DEF LockChunk
    <3>2. QED
      BY <1>1, <2>1, <3>1 DEF HandlerStates
  <2>2. CASE handler.req \notin pending
    <3>1. handler' = Idle /\ muxHeld' = muxHeld
      BY <2>2 DEF LockChunk
    <3>2. QED
      BY <3>1 DEF Idle, HandlerStates
  <2>3. QED
    BY <2>1, <2>2
<1>3. TypeOK'
  BY <1>1, <1>2 DEF IndInv, TypeOK, chanVars, reqVars, collVars, clientVars,
                    streamVars
<1>4. ChannelLifecycle' /\ SafePathsNeverPanic'
  BY <1>1 DEF IndInv, ChannelLifecycle, SafePathsNeverPanic, Started, chanVars,
              reqVars, None
<1>5. DispatcherInv'
  BY <1>1, <1>2 DEF IndInv, DispatcherInv, Started, chanVars, reqVars
<1>6. AnswersAreFinal'
  BY <1>1, <1>2 DEF IndInv, AnswersAreFinal, Started, chanVars, reqVars
<1>7. EntriesOwned'
  BY <1>1, <1>2 DEF IndInv, EntriesOwned, Owned, BeingFailed, chanVars, reqVars, collVars
<1>8. QED
  BY <1>3, <1>4, <1>5, <1>6, <1>7 DEF IndInv

\* The dispatcher delivers or drops a chunk.
LEMMA DeliverChunkPreserves ==
    ASSUME IndInv, panic = None, DeliverChunk
    PROVE  IndInv'
<1> DEFINE r == handler.req
<1> USE DEF IndInv
<1>1. /\ TypeOK /\ r \in Requests /\ handler.kind \in Kinds
      /\ handler.kind \in Chunks
      /\ r \in pending /\ r \notin closed /\ handler.st = "chunksend"
  BY DEF DeliverChunk, TypeOK, DispatcherInv, ChannelLifecycle
<1>3. /\ buf' = IF Len(buf[r]) < Cap(r)
               THEN [buf EXCEPT ![r] = Append(@, handler.kind)] ELSE buf
      /\ handler' = Idle /\ muxHeld' = FALSE
      /\ UNCHANGED <<pending, closed, panic, reqVars, collVars, clientVars, streamVars>>
  BY <1>1 DEF DeliverChunk
<1>4. /\ buf' \in [Requests -> Seq(Kinds)]
      /\ \A q \in Requests : \A i \in 1..Len(buf'[q]) :
            \/ i \in 1..Len(buf[q]) /\ buf'[q][i] = buf[q][i]
            \/ q = r /\ buf'[q][i] = handler.kind
  <2>1. buf' = IF Len(buf[r]) < Cap(r)
               THEN [buf EXCEPT ![r] = Append(@, handler.kind)] ELSE buf
    BY <1>3
  <2>2. TypeOK /\ r \in Requests /\ handler.kind \in Kinds
    BY <1>1
  <2> HIDE DEF IndInv
  <2>3. PICK q \in Requests, k \in Kinds : q = r /\ k = handler.kind
    BY <2>2
  <2>4. buf' = IF Len(buf[q]) < Cap(q)
               THEN [buf EXCEPT ![q] = Append(@, k)] ELSE buf
    BY <2>1, <2>3
  <2>5. QED
    BY <2>2, <2>3, <2>4, BufAfterDelivery
<1>5. handler'.st = "recv" /\ Idle \in [st : HandlerStates,
                      req : Requests \cup {None}, kind : Kinds \cup {None}]
  BY <1>3 DEF Idle, HandlerStates
<1>6. TypeOK'
  BY <1>3, <1>4, <1>5 DEF TypeOK, reqVars, collVars, clientVars, streamVars
<1>7. ChannelLifecycle' /\ SafePathsNeverPanic' /\ DispatcherInv'
  BY <1>3, <1>5
     DEF ChannelLifecycle, SafePathsNeverPanic, DispatcherInv, Started, reqVars
<1>8. AnswersAreFinal'
  BY <1>1, <1>3, <1>4 DEF AnswersAreFinal, DispatcherInv, Started, reqVars, Chunks
<1>9. EntriesOwned'
  BY <1>1, <1>3 DEF EntriesOwned, Owned, BeingFailed, reqVars, collVars
<1>10. QED
  BY <1>6, <1>7, <1>8, <1>9

\* The dispatcher delivers or drops an error message, or panics.
LEMMA DeliverErrorPreserves ==
    ASSUME IndInv, panic = None, DeliverError
    PROVE  IndInv'
<1> DEFINE r == handler.req
<1> USE DEF IndInv
<1>1. /\ r \in Requests /\ handler.kind \in Kinds /\ handler.st = "error"
      /\ handler.kind = "err"
      /\ UNCHANGED <<pending, closed, muxHeld, reqVars, collVars, clientVars, streamVars>>
  BY DEF DeliverError, TypeOK, DispatcherInv
<1>2. CASE r \in closed
  BY <1>1, <1>2
     DEF DeliverError, TypeOK, ChannelLifecycle, SafePathsNeverPanic, None,
         DispatcherInv, AnswersAreFinal, EntriesOwned, Owned, Started, BeingFailed,
         reqVars, collVars, clientVars, streamVars
<1>3. CASE r \notin closed
  <2>1. /\ buf' = IF Len(buf[r]) < Cap(r)
                 THEN [buf EXCEPT ![r] = Append(@, handler.kind)] ELSE buf
        /\ handler' = [handler EXCEPT !.st = "errclean"] /\ panic' = panic
    BY <1>3 DEF DeliverError
  <2>2. /\ buf' \in [Requests -> Seq(Kinds)]
        /\ \A q \in Requests : \A i \in 1..Len(buf'[q]) :
              \/ i \in 1..Len(buf[q]) /\ buf'[q][i] = buf[q][i]
              \/ q = r /\ buf'[q][i] = handler.kind
    BY <1>1, <2>1, BufAfterDelivery
  <2>3. /\ handler'.st = "errclean" /\ handler'.req = r
        /\ handler'.kind = handler.kind
    BY <2>1 DEF TypeOK
  <2>4. TypeOK'
    <3>1. handler' \in [st : HandlerStates, req : Requests \cup {None},
                        kind : Kinds \cup {None}]
      BY <2>1 DEF TypeOK, HandlerStates
    <3>2. QED
      BY <1>1, <2>1, <2>2, <2>3, <3>1
         DEF TypeOK, reqVars, collVars, clientVars, streamVars
  <2>5. ChannelLifecycle' /\ SafePathsNeverPanic' /\ DispatcherInv'
    BY <1>1, <2>1, <2>3
       DEF ChannelLifecycle, SafePathsNeverPanic, DispatcherInv, Started,
           reqVars, None
  <2>6. AnswersAreFinal'
    BY <1>1, <2>2, <2>3 DEF AnswersAreFinal, DispatcherInv, Started, reqVars
  <2>7. EntriesOwned'
    BY <1>1, <2>3 DEF EntriesOwned, Owned, BeingFailed, reqVars, collVars
  <2>8. QED
    BY <2>4, <2>5, <2>6, <2>7
<1> HIDE DEF IndInv
<1>4. QED
  BY <1>2, <1>3

\* The dispatcher removes the entry of a failed request, or panics.
LEMMA CleanupAfterErrorPreserves ==
    ASSUME IndInv, panic = None, CleanupAfterError
    PROVE  IndInv'
<1> DEFINE r == handler.req
<1> USE DEF IndInv
<1>1. /\ r \in Requests /\ handler.st = "errclean" /\ pending' = pending \ {r}
      /\ UNCHANGED <<buf, muxHeld, reqVars, collVars, clientVars, streamVars>>
      /\ Started(r)
  BY DEF CleanupAfterError, TypeOK, DispatcherInv
<1>2. CASE r \in closed
  BY <1>1, <1>2
     DEF CleanupAfterError, TypeOK, ChannelLifecycle, SafePathsNeverPanic,
         DispatcherInv, AnswersAreFinal, EntriesOwned, Owned, Started, BeingFailed,
         None, reqVars, collVars, clientVars, streamVars
<1>3. CASE r \notin closed
  <2>1. closed' = closed \cup {r} /\ handler' = Idle /\ panic' = panic
    BY <1>3 DEF CleanupAfterError
  <2>2. handler'.st = "recv" /\ Idle \in [st : HandlerStates,
                        req : Requests \cup {None}, kind : Kinds \cup {None}]
    BY <2>1 DEF Idle, HandlerStates
  <2>3. TypeOK'
    BY <1>1, <2>1, <2>2 DEF TypeOK, reqVars, collVars, clientVars, streamVars
  <2>4. ChannelLifecycle'
    BY <1>1, <2>1 DEF ChannelLifecycle, Started, reqVars
  <2>5. SafePathsNeverPanic' /\ DispatcherInv'
    BY <1>1, <2>1, <2>2 DEF SafePathsNeverPanic, DispatcherInv
  <2>6. AnswersAreFinal'
    BY <1>1, <2>1 DEF AnswersAreFinal, Started, reqVars
  <2>7. EntriesOwned'
    BY <1>1, <2>1 DEF EntriesOwned, Owned, BeingFailed, reqVars, collVars
  <2>8. QED
    BY <2>3, <2>4, <2>5, <2>6, <2>7
<1> HIDE DEF IndInv
<1>4. QED
  BY <1>2, <1>3

\* Every step of a proxying goroutine preserves the invariant.
LEMMA RequesterPreserves ==
    ASSUME IndInv, panic = None, NEW r \in Requests, Requester(r)
    PROVE  IndInv'
<1> USE RequestsDisjoint, BoundsAssumption
    DEF IndInv, TypeOK, ChannelLifecycle, SafePathsNeverPanic, DispatcherInv,
        AnswersAreFinal, EntriesOwned, Owned, Started, BeingFailed, None, PCs,
        Results, HandlerStates, CollectorStates, Kinds, Chunks, Requests,
        chanVars, reqVars, collVars, clientVars, streamVars
<1>1. CASE FindStream(r)
  BY <1>1 DEF FindStream, Goto
<1>2. CASE Reject(r)
  BY <1>2 DEF Reject, Goto
<1>3. CASE Register(r)
  BY <1>3 DEF Register, Goto
<1>4. CASE SendRegular(r)
  <2>1. TypeOK'
    BY <1>4 DEF SendRegular, Goto
  <2>2. EntriesOwned' /\ Started(r)
    BY <1>4 DEF SendRegular, Goto
  <2>3. QED
    BY <1>4, <2>1, <2>2, MoveKeeps DEF SendRegular, Goto
<1>5. CASE SendRegularFails(r)
  BY <1>5 DEF SendRegularFails
<1>6. CASE SendDownload(r)
  BY <1>6 DEF SendDownload, Goto
<1>7. CASE SendUploadStart(r)
  <2>1. TypeOK'
    BY <1>7 DEF SendUploadStart, Goto
  <2>2. EntriesOwned' /\ Started(r)
    BY <1>7 DEF SendUploadStart, Goto
  <2>3. QED
    BY <1>7, <2>1, <2>2, MoveKeeps DEF SendUploadStart, Goto
<1>8. CASE SendUploadEnd(r)
  <2>1. TypeOK'
    BY <1>8 DEF SendUploadEnd, Goto
  <2>2. EntriesOwned' /\ Started(r)
    BY <1>8 DEF SendUploadEnd, Goto
  <2>3. QED
    BY <1>8, <2>1, <2>2, MoveKeeps DEF SendUploadEnd, Goto
<1>9. CASE LargeSendFails(r)
  BY <1>9 DEF LargeSendFails, Return, Large
<1>10. CASE RequestTimeout(r)
  BY <1>10 DEF RequestTimeout
<1>11. CASE Disconnected(r)
  BY <1>11 DEF Disconnected
<1>12. CASE SafeClose(r)
  BY <1>12 DEF SafeClose
<1>13. CASE StreamingResponse(r)
  BY <1>13 DEF StreamingResponse, Return
<1>14. CASE BodyClosed(r)
  BY <1>14 DEF BodyClosed
<1> HIDE DEF IndInv, TypeOK, ChannelLifecycle, SafePathsNeverPanic,
        DispatcherInv, AnswersAreFinal, EntriesOwned, Owned, Started, BeingFailed,
        chanVars, reqVars, collVars, clientVars, streamVars, Requests, Kinds
<1>15. QED
  BY <1>1, <1>2, <1>3, <1>4, <1>5, <1>6, <1>7, <1>8, <1>9,
     ReceiveAnswerPreserves, <1>10, <1>11, <1>12, LookupChannelPreserves,
     <1>13, MetadataFailsPreserves, <1>14
     DEF Requester

\* Every step of a collecting goroutine preserves the invariant.
LEMMA CollectorPreserves ==
    ASSUME IndInv, panic = None, NEW r \in Requests, Collector(r)
    PROVE  IndInv'
<1> USE RequestsDisjoint, BoundsAssumption
    DEF IndInv, TypeOK, ChannelLifecycle, SafePathsNeverPanic, DispatcherInv,
        AnswersAreFinal, EntriesOwned, Owned, Started, BeingFailed, None, PCs,
        Results, HandlerStates, CollectorStates, Kinds, Chunks, Requests,
        chanVars, reqVars, collVars, clientVars, streamVars
<1>1. CASE CollectInitial(r)
  BY <1>1 DEF CollectInitial, Collect
<1>2. CASE CollectMessage(r)
  BY <1>2 DEF CollectMessage, Collect
<1>3. CASE CollectorGivesUp(r)
  BY <1>3 DEF CollectorGivesUp
<1>4. CASE CollectorExit(r)
  BY <1>4 DEF CollectorExit
<1> HIDE DEF IndInv, TypeOK, ChannelLifecycle, SafePathsNeverPanic,
        DispatcherInv, AnswersAreFinal, EntriesOwned, Owned, Started, BeingFailed,
        chanVars, reqVars, collVars, clientVars, streamVars, Requests, Kinds
<1>5. QED
  BY <1>1, <1>2, <1>3, <1>4
     DEF Collector

\* Every step of handleClientMessages preserves the invariant.
LEMMA DispatcherPreserves ==
    ASSUME IndInv, panic = None, Dispatcher
    PROVE  IndInv'
<1> USE RequestsDisjoint, BoundsAssumption
    DEF IndInv, TypeOK, ChannelLifecycle, SafePathsNeverPanic, DispatcherInv,
        AnswersAreFinal, EntriesOwned, Owned, Started, BeingFailed, None, PCs,
        Results, HandlerStates, CollectorStates, Kinds, Chunks, Requests,
        chanVars, reqVars, collVars, clientVars, streamVars
<1>1. ASSUME NEW r \in Requests, NEW k \in Kinds, Receive(r, k)
      PROVE  IndInv'
  BY <1>1 DEF Receive, MayFollow
<1>2. CASE ReceiveFails
  <2>1. PICK h : h = [handler EXCEPT !.st = "gone"]
    OBVIOUS
  <2>2. handler.st = "recv" /\ handler' = h
        /\ UNCHANGED <<chanVars, reqVars, collVars, clientVars, muxHeld, streamVars, panic>>
    BY <1>2, <2>1 DEF ReceiveFails
  <2>3. h.st = "gone" /\ h.req = handler.req /\ h.kind = handler.kind
        /\ h \in [st : HandlerStates, req : Requests \cup {None}, kind : Kinds \cup {None}]
    BY <2>1
  <2>4. TypeOK'
    BY <2>2, <2>3
  <2>5. QED
    BY <2>2, <2>3, <2>4
<1>3. CASE LockRegular
  <2>1. PICK h : h = [handler EXCEPT !.st = "regsend"]
    OBVIOUS
  <2>2. handler.st = "regular" /\ handler' = h /\ muxHeld' = TRUE
        /\ UNCHANGED <<chanVars, reqVars, collVars, clientVars, streamVars, panic>>
    BY <1>3, <2>1 DEF LockRegular
  <2>3. h.st = "regsend" /\ h.req = handler.req /\ h.kind = handler.kind
        /\ h \in [st : HandlerStates, req : Requests \cup {None}, kind : Kinds \cup {None}]
    BY <2>1
  <2>4. TypeOK'
    BY <2>2, <2>3
  <2>5. QED
    BY <2>2, <2>3, <2>4
<1> HIDE DEF IndInv, TypeOK, ChannelLifecycle, SafePathsNeverPanic,
        DispatcherInv, AnswersAreFinal, EntriesOwned, Owned, Started, BeingFailed,
        chanVars, reqVars, collVars, clientVars, streamVars, Requests, Kinds
<1>4. QED
  BY <1>1, <1>2, <1>3, DeliverRegularPreserves, LockChunkPreserves,
     DeliverChunkPreserves, DeliverErrorPreserves,
     CleanupAfterErrorPreserves
     DEF Dispatcher

\* Every step of EstablishTunnel preserves the invariant.
LEMMA StreamPreserves ==
    ASSUME IndInv, panic = None, Stream
    PROVE  IndInv'
<1> USE RequestsDisjoint, BoundsAssumption
    DEF IndInv, TypeOK, ChannelLifecycle, SafePathsNeverPanic, DispatcherInv,
        AnswersAreFinal, EntriesOwned, Owned, Started, BeingFailed, None, PCs,
        Results, HandlerStates, CollectorStates, Kinds, Chunks, Requests,
        chanVars, reqVars, collVars, clientVars, streamVars
<1>1. CASE ContextCancelled
  BY <1>1 DEF ContextCancelled
<1>2. CASE MonitorReturns
  BY <1>2 DEF MonitorReturns
<1>3. CASE CleanupStream
  BY <1>3 DEF CleanupStream
<1> HIDE DEF IndInv, TypeOK, ChannelLifecycle, SafePathsNeverPanic,
        DispatcherInv, AnswersAreFinal, EntriesOwned, Owned, Started, BeingFailed,
        chanVars, reqVars, collVars, clientVars, streamVars, Requests, Kinds
<1>4. QED
  BY <1>1, <1>2, <1>3
     DEF Stream

\* IndInv is inductive.
LEMMA NextInv == IndInv /\ [Next]_vars => IndInv'
<1> SUFFICES ASSUME IndInv, [Next]_vars PROVE IndInv'
  OBVIOUS
<1>1. CASE UNCHANGED vars
  BY <1>1 DEF vars, chanVars, reqVars, collVars, clientVars, streamVars, IndInv,
              TypeOK, ChannelLifecycle, SafePathsNeverPanic, DispatcherInv,
              AnswersAreFinal, EntriesOwned, Owned, Started, BeingFailed
<1>2. CASE Next
  BY <1>2, RequesterPreserves, CollectorPreserves, DispatcherPreserves,
     StreamPreserves DEF Next, Step
<1>3. QED
  BY <1>1, <1>2

\* The request table of grpc_service_helpers.go and grpc_chunked_streaming.go
\* satisfies its inductive invariant in every reachable state.
THEOREM Inductive == Spec => []IndInv
BY InitInv, NextInv, PTL DEF Spec

\* The state of a stream's request table is always well formed.
THEOREM TypeCorrect == Spec => []TypeOK
<1>1. IndInv => TypeOK
  BY DEF IndInv
<1>2. QED
  BY <1>1, Inductive, PTL

\* Timeout, disconnection, send failure, chunk delivery, collector exit and
\* stream cleanup never panic: a panic comes from the two deliveries that do not
\* look at the entry again.
THEOREM SafePaths == Spec => []SafePathsNeverPanic
<1>1. IndInv => SafePathsNeverPanic
  BY DEF IndInv
<1>2. QED
  BY <1>1, Inductive, PTL

\* A response channel is registered in pendingRequests exactly until it is closed,
\* whoever closes it, and a finished request leaves nothing there, unless it is a
\* large one that could not be sent.
THEOREM TableIsKept == Spec => []TableKept
<1>1. IndInv => EntriesGivenBack
  BY DEF IndInv, EntriesOwned, Owned, EntriesGivenBack, None
<1>2. IndInv => TableKept
  BY <1>1 DEF IndInv, TableKept
<1>3. QED
  BY <1>2, Inductive, PTL

\* What is left of a call and of its collector, by where they are.
LEMMA LeftTable ==
    /\ CallLeft("idle") = 6 /\ CallLeft("found") = 5 /\ CallLeft("rejected") = 0
    /\ CallLeft("registered") = 4 /\ CallLeft("uploading") = 3 /\ CallLeft("waiting") = 3
    /\ CallLeft("lookup") = 2 /\ CallLeft("cleanup") = 1 /\ CallLeft("meta") = 1
    /\ CallLeft("done") = 0
    /\ CollectorLeft("init") = 4 /\ CollectorLeft("first") = 3 /\ CollectorLeft("more") = 2
    /\ CollectorLeft("exit") = 1 /\ CollectorLeft("gone") = 0 /\ CollectorLeft(None) = 0
BY DEF CallLeft, CollectorLeft, None

LEMMA LeftBounded ==
    /\ \A p \in PCs : CallLeft(p) \in 0..6
    /\ \A c \in CollectorStates : CollectorLeft(c) \in 0..4
BY LeftTable DEF PCs, CollectorStates

\* A call that moves on, and may start its collector, has less left, whatever its
\* collector had left.
LEMMA CallMoves ==
    ASSUME TypeOK, TypeOK', NEW r \in Requests, CallLeft(pc'[r]) < CallLeft(pc[r])
    PROVE  WorkLeft(r)' < WorkLeft(r)
<1>1. /\ CallLeft(pc[r]) \in 0..6 /\ CallLeft(pc'[r]) \in 0..6
      /\ CollectorLeft(coll[r]) \in 0..4 /\ CollectorLeft(coll'[r]) \in 0..4
  <2>1. /\ pc[r] \in PCs /\ pc'[r] \in PCs
        /\ coll[r] \in CollectorStates /\ coll'[r] \in CollectorStates
    BY DEF TypeOK
  <2>2. QED
    BY <2>1, LeftBounded
<1>2. QED
  BY <1>1 DEF WorkLeft

\* So has a collector that moves on while its call stays where it is.
LEMMA CollectorMoves ==
    ASSUME TypeOK, TypeOK', NEW r \in Requests, pc'[r] = pc[r]
    PROVE  /\ CollectorLeft(coll'[r]) < CollectorLeft(coll[r]) => WorkLeft(r)' < WorkLeft(r)
           /\ CollectorLeft(coll'[r]) <= CollectorLeft(coll[r]) => WorkLeft(r)' <= WorkLeft(r)
<1>1. /\ CallLeft(pc[r]) \in 0..6
      /\ CollectorLeft(coll[r]) \in 0..4 /\ CollectorLeft(coll'[r]) \in 0..4
  <2>1. pc[r] \in PCs /\ coll[r] \in CollectorStates /\ coll'[r] \in CollectorStates
    BY DEF TypeOK
  <2>2. QED
    BY <2>1, LeftBounded
<1>2. QED
  BY <1>1 DEF WorkLeft

\* The steps of a call: all but the closing of a body that was streamed.
LEMMA RequesterAdvances ==
    ASSUME TypeOK, TypeOK', NEW r \in Requests, Requester(r)
    PROVE  /\ CallLeft(pc'[r]) < CallLeft(pc[r]) \/ BodyClosed(r)
           /\ \A q \in Requests \ {r} : pc'[q] = pc[q] /\ coll'[q] = coll[q]
<1>0. pc \in [Requests -> PCs] /\ coll \in [Requests -> CollectorStates]
  BY DEF TypeOK
<1>1. CASE FindStream(r) \/ Reject(r) \/ Register(r)
  BY <1>0, <1>1, LeftTable DEF FindStream, Reject, Register, Goto, collVars
<1>2. CASE SendRegular(r) \/ SendRegularFails(r) \/ SendDownload(r)
  BY <1>0, <1>2, LeftTable DEF SendRegular, SendRegularFails, SendDownload, Goto, collVars
<1>3. CASE SendUploadStart(r) \/ SendUploadEnd(r)
  BY <1>0, <1>3, LeftTable DEF SendUploadStart, SendUploadEnd, Goto, collVars
<1>4. CASE LargeSendFails(r)
  BY <1>0, <1>4, LeftTable DEF LargeSendFails, Return, collVars
<1>5. CASE ReceiveAnswer(r)
  <2>1. pc[r] = "waiting" /\ coll' = coll
    BY <1>5 DEF ReceiveAnswer, collVars
  <2>2. pc' = [pc EXCEPT ![r] = "lookup"] \/ pc' = [pc EXCEPT ![r] = "done"]
    BY <1>5 DEF ReceiveAnswer, Goto, Return
  <2>3. QED
    BY <1>0, <2>1, <2>2, LeftTable
<1>6. CASE RequestTimeout(r) \/ Disconnected(r) \/ SafeClose(r)
  BY <1>0, <1>6, LeftTable DEF RequestTimeout, Disconnected, SafeClose, collVars
<1>7. CASE LookupChannel(r)
  <2>1. pc[r] = "lookup" /\ \E c : coll' = [coll EXCEPT ![r] = c] \/ coll' = coll
    BY <1>7 DEF LookupChannel
  <2>2. pc' = [pc EXCEPT ![r] = "meta"] \/ pc' = [pc EXCEPT ![r] = "done"]
    BY <1>7 DEF LookupChannel, Goto, Return
  <2>3. QED
    BY <1>0, <2>1, <2>2, LeftTable
<1>8. CASE StreamingResponse(r) \/ MetadataFails(r)
  BY <1>0, <1>8, LeftTable DEF StreamingResponse, MetadataFails, Return
<1>9. CASE BodyClosed(r)
  BY <1>9 DEF BodyClosed, collVars
<1>10. QED
  BY <1>1, <1>2, <1>3, <1>4, <1>5, <1>6, <1>7, <1>8, <1>9 DEF Requester

\* The steps of a collector: a further chunk leaves it where it is.
LEMMA CollectorAdvances ==
    ASSUME TypeOK, TypeOK', NEW r \in Requests, Collector(r)
    PROVE  /\ pc' = pc
           /\ CollectorLeft(coll'[r]) <= CollectorLeft(coll[r])
           /\ \A q \in Requests \ {r} : coll'[q] = coll[q]
<1>0. coll \in [Requests -> CollectorStates]
  BY DEF TypeOK
<1>1. ASSUME NEW m, Collect(r, m)
      PROVE  coll' = [coll EXCEPT ![r] = "more"] \/ coll' = [coll EXCEPT ![r] = "exit"]
  BY <1>1 DEF Collect
<1>2. CASE CollectInitial(r)
  <2>1. pc' = pc /\ coll[r] = "init" /\ Collect(r, initial[r])
    BY <1>2 DEF CollectInitial
  <2>2. QED
    BY <1>0, <1>1, <2>1, LeftTable
<1>3. CASE CollectMessage(r)
  <2>1. pc' = pc /\ coll[r] \in {"first", "more"} /\ Collect(r, Head(buf[r]))
    BY <1>3 DEF CollectMessage, reqVars
  <2>2. QED
    BY <1>0, <1>1, <1>3, <2>1, LeftTable
<1>4. CASE CollectorGivesUp(r)
  BY <1>0, <1>4, LeftTable DEF CollectorGivesUp, reqVars
<1>5. CASE CollectorExit(r)
  BY <1>0, <1>5, LeftTable DEF CollectorExit, reqVars
<1>6. QED
  BY <1>2, <1>3, <1>4, <1>5 DEF Collector

\* No step of anybody adds to what is left of a request.
LEMMA NeverBack ==
    ASSUME TypeOK, TypeOK', [Next]_vars, NEW q \in Requests
    PROVE  WorkLeft(q)' <= WorkLeft(q)
<1>1. CASE UNCHANGED <<pc, coll>>
  <2>1. CollectorLeft(coll[q]) \in 0..4
    BY LeftBounded DEF TypeOK
  <2>2. QED
    BY <1>1, <2>1, CollectorMoves
<1>2. ASSUME NEW r \in Requests, Requester(r) PROVE WorkLeft(q)' <= WorkLeft(q)
  <2>1. CASE q # r
    <3>1. pc'[q] = pc[q] /\ coll'[q] = coll[q]
      BY <1>2, <2>1, RequesterAdvances
    <3>2. CollectorLeft(coll[q]) \in 0..4
      BY LeftBounded DEF TypeOK
    <3>3. CollectorLeft(coll'[q]) <= CollectorLeft(coll[q])
      BY <3>1, <3>2
    <3>4. QED
      BY <3>1, <3>3, CollectorMoves
  <2>2. CASE q = r
    <3>1. CASE BodyClosed(r)
      BY <1>1, <3>1 DEF BodyClosed, collVars
    <3>2. CASE CallLeft(pc'[r]) < CallLeft(pc[r])
      <4>1. WorkLeft(q)' < WorkLeft(q)
        BY <2>2, <3>2, CallMoves
      <4>2. WorkLeft(q) \in Nat /\ WorkLeft(q)' \in Nat
        <5>1. /\ pc[q] \in PCs /\ pc'[q] \in PCs
              /\ coll[q] \in CollectorStates /\ coll'[q] \in CollectorStates
          BY DEF TypeOK
        <5>2. /\ CallLeft(pc[q]) \in 0..6 /\ CallLeft(pc'[q]) \in 0..6
              /\ CollectorLeft(coll[q]) \in 0..4 /\ CollectorLeft(coll'[q]) \in 0..4
          BY <5>1, LeftBounded
        <5>3. QED
          BY <5>2 DEF WorkLeft
      <4>3. QED
        BY <4>1, <4>2
    <3>3. QED
      BY <1>2, <3>1, <3>2, RequesterAdvances
  <2>3. QED
    BY <2>1, <2>2
<1>3. ASSUME NEW r \in Requests, Collector(r) PROVE WorkLeft(q)' <= WorkLeft(q)
  <2>1. CollectorLeft(coll'[q]) <= CollectorLeft(coll[q])
    <3>1. CASE q = r
      BY <1>3, <3>1, CollectorAdvances
    <3>2. CASE q # r
      <4>1. coll'[q] = coll[q]
        BY <1>3, <3>2, CollectorAdvances
      <4>2. CollectorLeft(coll[q]) \in 0..4
        BY LeftBounded DEF TypeOK
      <4>3. QED
        BY <4>1, <4>2
    <3>3. QED
      BY <3>1, <3>2
  <2>2. QED
    BY <1>3, <2>1, CollectorAdvances, CollectorMoves
<1>4. CASE Dispatcher \/ Stream \/ UNCHANGED vars
  <2>1. UNCHANGED <<pc, coll>>
    BY <1>4
       DEF Dispatcher, Receive, ReceiveFails, LockRegular, DeliverRegular, LockChunk,
           DeliverChunk, DeliverError, CleanupAfterError, Stream, ContextCancelled,
           MonitorReturns, CleanupStream, vars, reqVars, collVars
  <2>2. QED
    BY <1>1, <2>1
<1>5. QED
  BY <1>2, <1>3, <1>4 DEF Next, Step

\* Whatever the client, the dispatcher and the other requests do, no call that
\* proxies a request and no collector is ever sent back, and each step that the
\* scheduler owes them (the safe close, the timers, a send that fails once the
\* context is done, the collector's cleanup) brings them nearer to their end: at most
\* 30 such steps settle a request.
THEOREM CallsOnlyAdvance == Spec => OnlyForward
<1>1. ASSUME TypeOK, TypeOK', [Next]_vars
      PROVE  [\A r \in Requests :
                 /\ WorkLeft(r)' <= WorkLeft(r)
                 /\ CallGoesOn(r) \/ CollectorGoesOn(r) => WorkLeft(r)' < WorkLeft(r)]_vars
  <2>1. ASSUME NEW r \in Requests, CallGoesOn(r) PROVE WorkLeft(r)' < WorkLeft(r)
    <3>1. Requester(r)
      BY <2>1 DEF CallGoesOn, Requester
    <3>2. CASE BodyClosed(r)
      <4>1. pc[r] = "done" /\ pc' = pc
        BY <3>2 DEF BodyClosed
      <4>2. QED
        BY <2>1, <4>1
           DEF CallGoesOn, SafeClose, LookupChannel, RequestTimeout, MetadataFails
    <3>3. QED
      BY <1>1, <3>1, <3>2, RequesterAdvances, CallMoves
  <2>2. ASSUME NEW r \in Requests, CollectorGoesOn(r) PROVE WorkLeft(r)' < WorkLeft(r)
    <3>0. coll \in [Requests -> CollectorStates]
      BY <1>1 DEF TypeOK
    <3>1. pc' = pc /\ CollectorLeft(coll'[r]) < CollectorLeft(coll[r])
      <4>1. CASE CollectInitial(r)
        <5>1. /\ pc' = pc /\ coll[r] = "init"
              /\ coll' = [coll EXCEPT ![r] = "more"] \/ coll' = [coll EXCEPT ![r] = "exit"]
          BY <4>1 DEF CollectInitial, Collect
        <5>2. QED
          BY <3>0, <5>1, LeftTable
      <4>2. CASE CollectorGivesUp(r)
        BY <3>0, <4>2, LeftTable DEF CollectorGivesUp, reqVars
      <4>3. CASE CollectorExit(r)
        BY <3>0, <4>3, LeftTable DEF CollectorExit, reqVars
      <4>4. QED
        BY <2>2, <4>1, <4>2, <4>3 DEF CollectorGoesOn
    <3>2. QED
      BY <1>1, <3>1, CollectorMoves
  <2>3. QED
    BY <1>1, <2>1, <2>2, NeverBack
<1>2. IndInv => TypeOK
  BY DEF IndInv
<1>3. QED
  BY <1>1, <1>2, Inductive, PTL DEF Spec, OnlyForward

-----------------------------------------------------------------------------
(* The table keeps the promise of RequestChannel.                          *)

\* A call that takes a step without reading its channel: what may become an
\* answer stays where it is.
LEMMA HeardInCall ==
    ASSUME TypeOK, AnswersHeard, NEW r \in Requests, NEW l \in PCs,
           pc' = [pc EXCEPT ![r] = l],
           UNCHANGED <<buf, initial, msgs, handler>>,
           Started(r) => l \notin {"idle", "found", "rejected"},
           client' = client \/ (client' = [client EXCEPT ![r] = "asked"]
                                  /\ l \notin {"idle", "found", "rejected"}),
           \A q \in Requests : coll'[q] = "init" => coll[q] = "init" \/ initial[q] # None,
           \A q \in Requests : signals'[q] \subseteq signals[q],
           \A q \in Requests : q # r => result'[q] = result[q],
           l = "cleanup" => result'[r] \in {"sendfail", "timeout", "disconnected"}
    PROVE  AnswersHeard'
<1>0. /\ pc \in [Requests -> PCs] /\ client \in [Requests -> {"idle", "asked", "streaming", "done"}]
  BY DEF TypeOK
<1>1. ASSUME NEW q \in Requests
      PROVE  /\ client'[q] # "idle" => Started(q)'
             /\ msgs'[q] > 0 => client'[q] # "idle"
  <2>1. CASE q = r
    BY <1>0, <2>1 DEF AnswersHeard, Started
  <2>2. CASE q # r
    BY <1>0, <2>2 DEF AnswersHeard, Started
  <2>3. QED
    BY <2>1, <2>2
<1>2. ASSUME NEW q \in Requests
      PROVE  /\ buf'[q] # <<>> => msgs'[q] > 0
             /\ initial'[q] # None \/ coll'[q] = "init" => msgs'[q] > 0
             /\ "meta" \in signals'[q] => msgs'[q] > 0
  BY DEF AnswersHeard
<1>3. ASSUME NEW q \in Requests
      PROVE  pc'[q] = "cleanup" => result'[q] \in {"sendfail", "timeout", "disconnected"}
  BY <1>0 DEF AnswersHeard
<1>4. handler'.st \notin {"recv", "gone"} => msgs'[handler'.req] > 0
  BY DEF AnswersHeard
<1>5. QED
  BY <1>1, <1>2, <1>3, <1>4 DEF AnswersHeard

\* The steps of a call.
LEMMA HeardRequester ==
    ASSUME TypeOK, AnswersHeard, NEW r \in Requests, Requester(r)
    PROVE  AnswersHeard'
<1>0. /\ pc \in [Requests -> PCs] /\ result \in [Requests -> Results]
      /\ coll \in [Requests -> CollectorStates] /\ signals \in [Requests -> SUBSET {"meta", "err"}]
      /\ initial \in [Requests -> Chunks \cup {None}] /\ buf \in [Requests -> Seq(Kinds)]
  BY DEF TypeOK
<1>1. CASE FindStream(r) \/ Reject(r) \/ Register(r)
  <2>1. PICK l \in {"found", "rejected", "registered"} :
            pc' = [pc EXCEPT ![r] = l] /\ (Started(r) => l = "registered")
    BY <1>1 DEF FindStream, Reject, Register, Goto, Started
  <2>2. UNCHANGED <<buf, initial, msgs, handler, client, coll, signals, result>>
    BY <1>1 DEF FindStream, Reject, Register, chanVars, collVars, clientVars
  <2>3. QED
    BY <1>0, <2>1, <2>2, HeardInCall DEF PCs
<1>2. CASE SendRegular(r) \/ SendUploadStart(r) \/ SendUploadEnd(r)
  <2>1. PICK l \in {"waiting", "uploading", "lookup"} : pc' = [pc EXCEPT ![r] = l]
    BY <1>2 DEF SendRegular, SendUploadStart, SendUploadEnd, Goto
  <2>2. /\ UNCHANGED <<buf, initial, msgs, handler, coll, signals, result>>
        /\ client' = client \/ client' = [client EXCEPT ![r] = "asked"]
    BY <1>2 DEF SendRegular, SendUploadStart, SendUploadEnd, chanVars, collVars, clientVars
  <2>3. QED
    BY <1>0, <2>1, <2>2, HeardInCall DEF PCs
<1>3. CASE SendDownload(r)
  <2>1. /\ pc' = [pc EXCEPT ![r] = "meta"] /\ coll' = [coll EXCEPT ![r] = "first"]
        /\ UNCHANGED <<buf, initial, msgs, handler, signals, result>>
        /\ client' = [client EXCEPT ![r] = "asked"]
    BY <1>3 DEF SendDownload, Goto, chanVars
  <2>2. QED
    BY <1>0, <2>1, HeardInCall DEF PCs
<1>4. CASE SendRegularFails(r) \/ RequestTimeout(r) \/ Disconnected(r)
  <2>1. /\ pc' = [pc EXCEPT ![r] = "cleanup"]
        /\ \E v \in {"sendfail", "timeout", "disconnected"} : result' = [result EXCEPT ![r] = v]
        /\ UNCHANGED <<buf, initial, msgs, handler, client, coll, signals>>
    BY <1>4 DEF SendRegularFails, RequestTimeout, Disconnected, chanVars, collVars, clientVars
  <2>2. QED
    BY <1>0, <2>1, HeardInCall DEF PCs
<1>5. CASE LargeSendFails(r) \/ SafeClose(r)
  <2>1. /\ pc' = [pc EXCEPT ![r] = "done"]
        /\ result' = result \/ result' = [result EXCEPT ![r] = "sendfail"]
        /\ UNCHANGED <<buf, initial, msgs, handler, client, coll, signals>>
    BY <1>5 DEF LargeSendFails, SafeClose, Return, chanVars, collVars, clientVars
  <2>2. QED
    BY <1>0, <2>1, HeardInCall DEF PCs
<1>6. CASE LookupChannel(r)
  <2>1. PICK l \in {"meta", "done"} : pc' = [pc EXCEPT ![r] = l]
    BY <1>6 DEF LookupChannel, Goto, Return
  <2>2. /\ UNCHANGED <<buf, initial, msgs, handler, client, signals>>
        /\ result' = result \/ result' = [result EXCEPT ![r] = "nochannel"]
        /\ \/ coll' = coll
           \/ coll' = [coll EXCEPT ![r] = IF initial[r] = None THEN "first" ELSE "init"]
    BY <1>6 DEF LookupChannel, Return, chanVars, clientVars
  <2>3. \A q \in Requests : coll'[q] = "init" => coll[q] = "init" \/ initial[q] # None
    BY <1>0, <2>2
  <2>4. QED
    BY <1>0, <2>1, <2>2, <2>3, HeardInCall DEF PCs
<1>7. CASE StreamingResponse(r) \/ MetadataFails(r)
  <2>1. /\ pc' = [pc EXCEPT ![r] = "done"]
        /\ UNCHANGED <<buf, initial, msgs, handler, client, coll>>
        /\ \E v : result' = [result EXCEPT ![r] = v]
        /\ signals' = signals \/ \E s : signals' = [signals EXCEPT ![r] = @ \ {s}]
    BY <1>7 DEF StreamingResponse, MetadataFails, Return, chanVars, clientVars
  <2>2. \A q \in Requests : signals'[q] \subseteq signals[q]
    BY <1>0, <2>1
  <2>3. /\ \A q \in Requests : coll'[q] = "init" => coll[q] = "init" \/ initial[q] # None
        /\ \A q \in Requests : q # r => result'[q] = result[q]
    BY <1>0, <2>1
  <2>4. "done" \in PCs
    BY DEF PCs
  <2>5. QED
    BY <2>1, <2>2, <2>3, <2>4, HeardInCall
<1>8. CASE ReceiveAnswer(r)
  <2>1. PICK l \in {"lookup", "done"} : pc' = [pc EXCEPT ![r] = l]
    BY <1>8 DEF ReceiveAnswer, Goto, Return
  <2>2. /\ UNCHANGED <<msgs, handler, client, coll, signals>>
        /\ \A q \in Requests : q # r => result'[q] = result[q] /\ initial'[q] = initial[q] /\ buf'[q] = buf[q]
        /\ initial'[r] # None \/ buf'[r] # <<>> => initial[r] # None \/ buf[r] # <<>>
    BY <1>0, <1>8 DEF ReceiveAnswer, Goto, Return, collVars, clientVars
  <2>3. ASSUME NEW q \in Requests
        PROVE  /\ client'[q] # "idle" => Started(q)'
               /\ msgs'[q] > 0 => client'[q] # "idle"
               /\ pc'[q] = "cleanup" => result'[q] \in {"sendfail", "timeout", "disconnected"}
    BY <1>0, <2>1, <2>2 DEF AnswersHeard, Started
  <2>4. ASSUME NEW q \in Requests
        PROVE  /\ buf'[q] # <<>> => msgs'[q] > 0
               /\ initial'[q] # None \/ coll'[q] = "init" => msgs'[q] > 0
               /\ "meta" \in signals'[q] => msgs'[q] > 0
    BY <2>2 DEF AnswersHeard
  <2>5. QED
    BY <2>2, <2>3, <2>4 DEF AnswersHeard
<1>9. CASE BodyClosed(r)
  <2>1. UNCHANGED <<pc, result, buf, initial, msgs, handler, client, coll, signals>>
    BY <1>9 DEF BodyClosed, chanVars, collVars, clientVars
  <2>2. QED
    BY <2>1 DEF AnswersHeard, Started
<1>10. QED
  BY <1>1, <1>2, <1>3, <1>4, <1>5, <1>6, <1>7, <1>8, <1>9 DEF Requester

\* The steps of a collector: what it announces is what it was given.
LEMMA HeardCollector ==
    ASSUME TypeOK, AnswersHeard, NEW r \in Requests, Collector(r)
    PROVE  AnswersHeard'
<1>0. /\ coll \in [Requests -> CollectorStates] /\ signals \in [Requests -> SUBSET {"meta", "err"}]
      /\ initial \in [Requests -> Chunks \cup {None}] /\ buf \in [Requests -> Seq(Kinds)]
  BY DEF TypeOK
<1>1. /\ UNCHANGED <<pc, result, client, msgs, handler>>
      /\ \A q \in Requests : /\ coll'[q] = "init" => coll[q] = "init"
                             /\ initial'[q] # None => initial[q] # None
                             /\ buf'[q] # <<>> => buf[q] # <<>>
                             /\ "meta" \in signals'[q] =>
                                   "meta" \in signals[q] \/ buf[q] # <<>> \/ coll[q] = "init"
  <2>1. CASE CollectInitial(r)
    BY <1>0, <2>1 DEF CollectInitial, Collect, chanVars, clientVars
  <2>2. CASE CollectMessage(r)
    BY <1>0, <2>2 DEF CollectMessage, Collect, reqVars, clientVars
  <2>3. CASE CollectorGivesUp(r)
    BY <1>0, <2>3 DEF CollectorGivesUp, chanVars, reqVars, clientVars
  <2>4. CASE CollectorExit(r)
    BY <1>0, <2>4 DEF CollectorExit, chanVars, reqVars, clientVars
  <2>5. QED
    BY <2>1, <2>2, <2>3, <2>4 DEF Collector
<1>2. QED
  BY <1>1 DEF AnswersHeard, Started

\* The steps of the dispatcher: what it puts into a channel the client has sent.
LEMMA HeardDispatcher ==
    ASSUME IndInv, AnswersHeard, Dispatcher
    PROVE  AnswersHeard'
<1>0. /\ client \in [Requests -> {"idle", "asked", "streaming", "done"}]
      /\ msgs \in [Requests -> Nat] /\ buf \in [Requests -> Seq(Kinds)]
      /\ handler.st \notin {"recv", "gone"} => handler.req \in Requests
      /\ handler \in [st : HandlerStates, req : Requests \cup {None}, kind : Kinds \cup {None}]
  BY DEF IndInv, TypeOK
<1>1. UNCHANGED <<pc, result, initial, coll, signals>>
  BY DEF Dispatcher, Receive, ReceiveFails, LockRegular, DeliverRegular, LockChunk, DeliverChunk,
         DeliverError, CleanupAfterError, reqVars, collVars
<1>2. ASSUME NEW r \in Requests, NEW k \in Kinds, Receive(r, k) PROVE AnswersHeard'
  <2>1. /\ client[r] # "idle" /\ client'[r] # "idle" /\ buf' = buf
        /\ msgs'[r] > 0
        /\ \A q \in Requests \ {r} : client'[q] = client[q] /\ msgs'[q] = msgs[q]
    BY <1>0, <1>2 DEF Receive, MayFollow, chanVars
  <2>2. handler' = handler \/ handler'.req = r
    BY <1>2 DEF Receive
  <2>3. handler'.st \notin {"recv", "gone"} => msgs'[handler'.req] > 0
    <3>1. handler.st = "recv"
      BY <1>2 DEF Receive
    <3>2. QED
      BY <2>1, <2>2, <3>1
  <2>4. ASSUME NEW q \in Requests
        PROVE  /\ client'[q] # "idle" => Started(q)
               /\ msgs[q] > 0 => msgs'[q] > 0
               /\ msgs'[q] > 0 => client'[q] # "idle"
    BY <2>1 DEF AnswersHeard
  <2>5. QED
    BY <1>1, <2>1, <2>3, <2>4 DEF AnswersHeard, Started
<1>3. CASE \/ ReceiveFails \/ LockRegular \/ DeliverRegular \/ LockChunk
           \/ DeliverChunk \/ DeliverError \/ CleanupAfterError
  <2>1. UNCHANGED <<client, msgs>>
    BY <1>3 DEF ReceiveFails, LockRegular, DeliverRegular, LockChunk, DeliverChunk,
                DeliverError, CleanupAfterError, clientVars
  <2>2. handler'.st \in {"recv", "gone"} \/ (handler'.req = handler.req /\ handler.st \notin {"recv", "gone"})
    BY <1>0, <1>3 DEF ReceiveFails, LockRegular, DeliverRegular, LockChunk, DeliverChunk,
                DeliverError, CleanupAfterError, Idle
  <2>3. \/ buf' = buf
        \/ /\ handler.st \notin {"recv", "gone"}
           /\ buf' = [buf EXCEPT ![handler.req] = Append(@, handler.kind)]
    BY <1>3 DEF ReceiveFails, LockRegular, DeliverRegular, LockChunk, DeliverChunk,
                DeliverError, CleanupAfterError, chanVars
  <2>4. \A q \in Requests : buf'[q] # <<>> =>
            buf[q] # <<>> \/ (handler.st \notin {"recv", "gone"} /\ q = handler.req)
    BY <1>0, <2>3
  <2>5. handler'.st \notin {"recv", "gone"} => msgs[handler'.req] > 0
    BY <2>2 DEF AnswersHeard
  <2>6. ASSUME NEW q \in Requests, buf'[q] # <<>> PROVE msgs[q] > 0
    BY <2>4, <2>6 DEF AnswersHeard
  <2>7. QED
    BY <1>1, <2>1, <2>5, <2>6 DEF AnswersHeard, Started
<1>4. QED
  BY <1>2, <1>3 DEF Dispatcher

LEMMA HeardNext == IndInv /\ AnswersHeard /\ [Next]_vars => AnswersHeard'
<1> SUFFICES ASSUME IndInv, AnswersHeard, [Next]_vars PROVE AnswersHeard'
  OBVIOUS
<1>1. CASE Stream \/ UNCHANGED vars
  <2>1. UNCHANGED <<pc, result, buf, initial, msgs, handler, client, coll, signals>>
    BY <1>1 DEF Stream, ContextCancelled, MonitorReturns, CleanupStream, vars, chanVars,
                reqVars, collVars, clientVars
  <2>2. QED
    BY <2>1 DEF AnswersHeard, Started
<1>2. QED
  BY <1>1, HeardRequester, HeardCollector, HeardDispatcher DEF Next, Step, IndInv

\* How the caller sees a step of its call.
LEMMA CallSeen ==
    ASSUME TypeOK, NEW r \in Requests, NEW l, pc' = [pc EXCEPT ![r] = l],
           \A q \in Requests : q # r => result'[q] = result[q]
    PROVE  [q \in Requests |-> CallOf(q)'] = [[q \in Requests |-> CallOf(q)] EXCEPT ![r] = CallOf(r)']
<1>1. pc \in [Requests -> PCs]
  BY DEF TypeOK
<1>2. ASSUME NEW q \in Requests, q # r PROVE CallOf(q)' = CallOf(q)
  BY <1>1, <1>2 DEF CallOf
<1>3. QED
  BY <1>2

\* Where the client has been heard, the caller sees an open call or its result.
LEMMA HeardIsOpen ==
    ASSUME TypeOK, AnswersHeard, NEW r \in Requests, client[r] # "idle"
    PROVE  CallOf(r) \notin {"new", "rejected"}
<1>1. Started(r) /\ pc[r] \in PCs /\ result[r] \in Results
  BY DEF AnswersHeard, TypeOK
<1>2. QED
  BY <1>1 DEF Started, CallOf, Results, None

\* The caller sees a step of its call as the entering, as nothing, or as the one
\* return of a failure, or of an answer the client has given.
LEMMA RequesterSeen ==
    ASSUME TypeOK, AnswersHeard, NEW r \in Requests, Requester(r)
    PROVE  /\ UNCHANGED msgs
           /\ \/ UNCHANGED [q \in Requests |-> CallOf(q)]
              \/ \E v \in {"open", "rejected"} : Channel!Enter(r, v)
              \/ \E v \in Channel!Failures \cup Channel!Answers : Channel!Settle(r, v)
<1>0. /\ pc \in [Requests -> PCs] /\ result \in [Requests -> Results]
  BY DEF TypeOK
<1>a. msgs' = msgs
  BY DEF Requester, FindStream, Reject, Register, SendRegular, SendRegularFails, SendDownload,
         SendUploadStart, SendUploadEnd, LargeSendFails, ReceiveAnswer, RequestTimeout,
         Disconnected, SafeClose, LookupChannel, StreamingResponse, MetadataFails, BodyClosed,
         clientVars
<1>b. ASSUME NEW l, pc' = [pc EXCEPT ![r] = l],
             \A q \in Requests : q # r => result'[q] = result[q], CallOf(r)' = CallOf(r)
      PROVE  UNCHANGED [q \in Requests |-> CallOf(q)]
  <2>1. [q \in Requests |-> CallOf(q)'] = [[q \in Requests |-> CallOf(q)] EXCEPT ![r] = CallOf(r)]
    BY <1>b, CallSeen
  <2>2. QED
    BY <2>1
<1>c. ASSUME NEW v \in Results, CallOf(r) = "open",
             pc' = [pc EXCEPT ![r] = "done"], result'[r] = v,
             \A q \in Requests : q # r => result'[q] = result[q],
             v \in Channel!Failures \/ (v \in Channel!Answers /\ msgs[r] > 0)
      PROVE  \E w \in Channel!Failures \cup Channel!Answers : Channel!Settle(r, w)
  <2>1. CallOf(r)' = v
    BY <1>0, <1>c DEF CallOf
  <2>2. [q \in Requests |-> CallOf(q)'] = [[q \in Requests |-> CallOf(q)] EXCEPT ![r] = v]
    BY <1>c, <2>1, CallSeen
  <2>3. Channel!Settle(r, v)
    BY <1>a, <1>c, <2>2 DEF Channel!Settle
  <2>4. QED
    BY <1>c, <2>3
<1>1. CASE FindStream(r)
  <2>1. pc[r] = "idle" /\ pc' = [pc EXCEPT ![r] = "found"] /\ result' = result
    BY <1>1 DEF FindStream, Goto
  <2>2. CallOf(r)' = CallOf(r)
    BY <1>0, <2>1 DEF CallOf
  <2>3. QED
    BY <1>a, <1>b, <2>1, <2>2
<1>2. ASSUME NEW l, NEW v \in {"open", "rejected"}, pc[r] = "found",
             pc' = [pc EXCEPT ![r] = l], result' = result,
             (l = "rejected" /\ v = "rejected") \/ (l = "registered" /\ v = "open")
      PROVE  Channel!Enter(r, v)
  <2>1. CallOf(r) = "new" /\ CallOf(r)' = v
    BY <1>0, <1>2 DEF CallOf
  <2>2. [q \in Requests |-> CallOf(q)'] = [[q \in Requests |-> CallOf(q)] EXCEPT ![r] = v]
    BY <1>2, <2>1, CallSeen
  <2>3. QED
    BY <1>a, <2>1, <2>2 DEF Channel!Enter
<1>3. CASE Reject(r)
  <2>1. Channel!Enter(r, "rejected")
    BY <1>2, <1>3 DEF Reject, Goto
  <2>2. QED
    BY <1>a, <2>1
<1>4. CASE Register(r)
  <2>1. Channel!Enter(r, "open")
    BY <1>2, <1>4 DEF Register, Goto
  <2>2. QED
    BY <1>a, <2>1
<1>5. CASE \/ SendRegular(r) \/ SendRegularFails(r) \/ SendDownload(r) \/ SendUploadStart(r)
           \/ SendUploadEnd(r) \/ RequestTimeout(r) \/ Disconnected(r)
  <2>1. /\ pc[r] \in {"registered", "uploading", "waiting"}
        /\ \E l \in {"waiting", "cleanup", "meta", "uploading", "lookup"} : pc' = [pc EXCEPT ![r] = l]
        /\ result' = result \/ \E v : result' = [result EXCEPT ![r] = v]
    BY <1>5 DEF SendRegular, SendRegularFails, SendDownload, SendUploadStart, SendUploadEnd,
                RequestTimeout, Disconnected, Goto
  <2>2. CallOf(r)' = CallOf(r)
    BY <1>0, <2>1 DEF CallOf
  <2>3. QED
    BY <1>0, <1>a, <1>b, <2>1, <2>2
<1>6. CASE LargeSendFails(r)
  <2>1. /\ pc[r] \in {"registered", "uploading"} /\ pc' = [pc EXCEPT ![r] = "done"]
        /\ result' = [result EXCEPT ![r] = "sendfail"]
    BY <1>6 DEF LargeSendFails, Return
  <2>2. CallOf(r) = "open"
    BY <2>1 DEF CallOf
  <2>3. QED
    BY <1>0, <1>a, <1>c, <2>1, <2>2 DEF Channel!Failures, Results
<1>7. CASE SafeClose(r)
  <2>1. pc[r] = "cleanup" /\ pc' = [pc EXCEPT ![r] = "done"] /\ result' = result
    BY <1>7 DEF SafeClose
  <2>2. CallOf(r) = "open" /\ result[r] \in {"sendfail", "timeout", "disconnected"}
    BY <2>1 DEF CallOf, AnswersHeard
  <2>3. QED
    BY <1>0, <1>a, <1>c, <2>1, <2>2 DEF Channel!Failures
<1>8. CASE LookupChannel(r)
  <2>1. pc[r] = "lookup" /\ CallOf(r) = "open"
    BY <1>8 DEF LookupChannel, CallOf
  <2>2. CASE pc' = [pc EXCEPT ![r] = "meta"] /\ result' = result
    <3>1. CallOf(r)' = CallOf(r)
      BY <1>0, <2>1, <2>2 DEF CallOf
    <3>2. QED
      BY <1>a, <1>b, <2>2, <3>1
  <2>3. CASE pc' = [pc EXCEPT ![r] = "done"] /\ result' = [result EXCEPT ![r] = "nochannel"]
    BY <1>0, <1>a, <1>c, <2>1, <2>3 DEF Channel!Failures, Results
  <2>4. QED
    BY <1>8, <2>2, <2>3 DEF LookupChannel, Goto, Return
<1>9. CASE ReceiveAnswer(r)
  <2>1. pc[r] = "waiting" /\ CallOf(r) = "open"
    BY <1>9 DEF ReceiveAnswer, CallOf
  <2>2. CASE pc' = [pc EXCEPT ![r] = "lookup"] /\ result' = result
    <3>1. CallOf(r)' = CallOf(r)
      BY <1>0, <2>1, <2>2 DEF CallOf
    <3>2. QED
      BY <1>a, <1>b, <2>2, <3>1
  <2>3. CASE pc' = [pc EXCEPT ![r] = "done"] /\ result' = [result EXCEPT ![r] = "error"]
    BY <1>0, <1>a, <1>c, <2>1, <2>3 DEF Channel!Failures, Results
  <2>4. CASE /\ pc' = [pc EXCEPT ![r] = "done"] /\ result' = [result EXCEPT ![r] = "response"]
             /\ buf[r] # <<>>
    <3>1. msgs[r] > 0
      BY <2>4 DEF AnswersHeard
    <3>2. QED
      BY <1>0, <1>a, <1>c, <2>1, <2>4, <3>1 DEF Channel!Answers, Results
  <2>5. QED
    BY <1>9, <2>2, <2>3, <2>4 DEF ReceiveAnswer, Goto, Return
<1>10. CASE StreamingResponse(r)
  <2>1. /\ pc[r] = "meta" /\ "meta" \in signals[r] /\ pc' = [pc EXCEPT ![r] = "done"]
        /\ result' = [result EXCEPT ![r] = "stream"]
    BY <1>10 DEF StreamingResponse, Return
  <2>2. CallOf(r) = "open" /\ msgs[r] > 0
    BY <2>1 DEF CallOf, AnswersHeard
  <2>3. QED
    BY <1>0, <1>a, <1>c, <2>1, <2>2 DEF Channel!Answers, Results
<1>11. CASE MetadataFails(r)
  <2>1. PICK v \in {"error", "timeout"} : pc' = [pc EXCEPT ![r] = "done"] /\ result' = [result EXCEPT ![r] = v]
    BY <1>11 DEF MetadataFails, Return
  <2>2. CallOf(r) = "open"
    BY <1>11 DEF MetadataFails, CallOf
  <2>3. QED
    BY <1>0, <1>a, <1>c, <2>1, <2>2 DEF Channel!Failures, Results
<1>12. CASE BodyClosed(r)
  BY <1>a, <1>12 DEF BodyClosed, CallOf
<1>13. QED
  BY <1>1, <1>3, <1>4, <1>5, <1>6, <1>7, <1>8, <1>9, <1>10, <1>11, <1>12 DEF Requester

\* Whatever is delivered late, closed early or timed out, on any number of requests:
\* a proxied call returns at most once, and an answer only to a request that was let
\* through and that the client has answered.
THEOREM TableIsChannel == Spec => OneAnswer
<1>1. Init => AnswersHeard
  BY DEF Init, AnswersHeard, Idle, None
<1>2. Init => Channel!ChannelInit
  BY DEF Init, Channel!ChannelInit, CallOf
<1>3. IndInv /\ AnswersHeard /\ [Next]_vars => [Channel!ChannelNext]_Channel!channelVars
  <2> SUFFICES ASSUME IndInv, AnswersHeard, [Next]_vars
               PROVE  [Channel!ChannelNext]_Channel!channelVars
    OBVIOUS
  <2>0. TypeOK
    BY DEF IndInv
  <2>1. ASSUME NEW r \in Requests, Requester(r) PROVE [Channel!ChannelNext]_Channel!channelVars
    BY <2>0, <2>1, RequesterSeen DEF Channel!ChannelNext, Channel!channelVars
  <2>2. ASSUME NEW r \in Requests, NEW k \in Kinds, Receive(r, k) PROVE Channel!ChannelNext
    <3>1. client[r] # "idle" /\ UNCHANGED <<pc, result>>
      BY <2>2 DEF Receive, MayFollow, reqVars
    <3>2. CallOf(r) \notin {"new", "rejected"}
      BY <2>0, <3>1, HeardIsOpen
    <3>3. msgs \in [Requests -> Nat] /\ msgs' = [msgs EXCEPT ![r] = @ + 1]
      BY <2>0, <2>2 DEF Receive, TypeOK
    <3>4. {q \in Requests : msgs'[q] > 0} = {q \in Requests : msgs[q] > 0} \cup {r}
      BY <3>3
    <3>5. Channel!Answer(r)
      BY <3>1, <3>2, <3>4 DEF Channel!Answer, CallOf
    <3>6. QED
      BY <3>5 DEF Channel!ChannelNext
  <2>3. CASE UNCHANGED <<pc, result, msgs>>
    BY <2>3 DEF CallOf, Channel!channelVars
  <2>4. ASSUME NEW r \in Requests, Collector(r) PROVE UNCHANGED <<pc, result, msgs>>
    BY <2>4 DEF Collector, CollectInitial, CollectMessage, CollectorGivesUp, CollectorExit,
                reqVars, clientVars
  <2>5. CASE \/ ReceiveFails \/ LockRegular \/ DeliverRegular \/ LockChunk \/ DeliverChunk
             \/ DeliverError \/ CleanupAfterError \/ Stream \/ UNCHANGED vars
    <3>1. UNCHANGED <<pc, result, msgs>>
      BY <2>5 DEF ReceiveFails, LockRegular, DeliverRegular, LockChunk, DeliverChunk, DeliverError,
                  CleanupAfterError, Stream, ContextCancelled, MonitorReturns, CleanupStream,
                  vars, reqVars, clientVars
    <3>2. QED
      BY <2>3, <3>1
  <2>6. QED
    BY <2>1, <2>2, <2>3, <2>4, <2>5 DEF Next, Step, Dispatcher
<1>4. QED
  BY <1>1, <1>2, <1>3, HeardNext, Inductive, PTL DEF Spec, OneAnswer, Channel!ChannelSpec

-----------------------------------------------------------------------------
(* The streams.                                                            *)

\* The initial state satisfies the inductive invariant.
LEMMA RegistryCoreInit == RegistryInit => RegistryCore
BY AbsentIsNobody
   DEF RegistryInit, RegistryCore, RegistryTypeOK, EstStates, HandlersHaveDomains,
       RegisteredIsHeld, AddressOwned, ControlsHaveTunnels,
       AttachedHaveDomains, ControlSameDomain

\* Every step of an EstablishTunnel handler preserves the invariant.
LEMMA TunnelPreserves ==
    ASSUME RegistryCore, NEW s \in Streams, Tunnel(s)
    PROVE  RegistryCore'
<1> USE AbsentIsNobody
    DEF RegistryCore, RegistryTypeOK, EstStates, HandlersHaveDomains, RegisteredIsHeld,
        AddressOwned, ControlsHaveTunnels, AttachedHaveDomains,
        ControlSameDomain, Holding, dataVars, ipVars, controlVars
<1>1. ASSUME NEW d \in Domains, Authenticate(s, d) PROVE RegistryCore'
  BY <1>1 DEF Authenticate, EstGoto
<1>2. CASE Refuse(s)
  BY <1>2 DEF Refuse, EstGoto
<1>3. CASE RecordClientIP(s)
  BY <1>3 DEF RecordClientIP, EstGoto
<1>4. CASE RecordClientIPFails(s)
  BY <1>4 DEF RecordClientIPFails, EstGoto
<1>5. CASE RegisterStream(s)
  BY <1>5 DEF RegisterStream, EstGoto
<1>6. CASE StartStream(s)
  BY <1>6 DEF StartStream, EstGoto
<1>7. CASE HandshakeSendFails(s)
  BY <1>7 DEF HandshakeSendFails, EstGoto
<1>8. CASE StreamBreaks(s)
  BY <1>8 DEF StreamBreaks
<1>9. CASE ReaderEnds(s)
  BY <1>9 DEF ReaderEnds
<1>10. CASE MonitorSeesCancel(s)
  BY <1>10 DEF MonitorSeesCancel, EstGoto
<1>11. CASE HealthCheckFails(s)
  BY <1>11 DEF HealthCheckFails, EstGoto
<1>12. CASE Unregister(s)
  BY <1>12 DEF Unregister, EstGoto
<1>13. CASE ClearClientIP(s)
  BY <1>13 DEF ClearClientIP, EstGoto
<1>14. CASE ClearClientIPFails(s)
  BY <1>14 DEF ClearClientIPFails, EstGoto
<1> HIDE DEF RegistryCore, RegistryTypeOK, EstStates, HandlersHaveDomains,
        RegisteredIsHeld,
        AddressOwned, ControlsHaveTunnels, AttachedHaveDomains,
        ControlSameDomain, Holding, dataVars, ipVars, controlVars
<1>15. QED
  BY <1>1, <1>2, <1>3, <1>4, <1>5, <1>6, <1>7, <1>8, <1>9, <1>10, <1>11,
     <1>12, <1>13, <1>14
     DEF Tunnel

\* Every step of a ControlChannel handler preserves the invariant.
LEMMA ControlPreserves ==
    ASSUME RegistryCore, NEW c \in Controls, Control(c)
    PROVE  RegistryCore'
<1> USE AbsentIsNobody
    DEF RegistryCore, RegistryTypeOK, EstStates, HandlersHaveDomains, RegisteredIsHeld,
        AddressOwned, ControlsHaveTunnels, AttachedHaveDomains,
        ControlSameDomain, Holding, dataVars, ipVars, controlVars
<1>1. ASSUME NEW d \in Domains, FindTunnel(c, d) PROVE RegistryCore'
  BY <1>1 DEF FindTunnel, CGoto
<1>2. CASE RefuseControl(c)
  BY <1>2 DEF RefuseControl, CGoto
<1>3. CASE AttachControl(c)
  BY <1>3 DEF AttachControl, CGoto
<1>4. CASE ConfirmControl(c)
  BY <1>4 DEF ConfirmControl, CGoto
<1>5. CASE ConfirmFails(c)
  BY <1>5 DEF ConfirmFails, CGoto
<1>6. CASE CloseControl(c)
  BY <1>6 DEF CloseControl, CGoto
<1> HIDE DEF RegistryCore, RegistryTypeOK, EstStates, HandlersHaveDomains,
        RegisteredIsHeld,
        AddressOwned, ControlsHaveTunnels, AttachedHaveDomains,
        ControlSameDomain, Holding, dataVars, ipVars, controlVars
<1>7. QED
  BY <1>1, <1>2, <1>3, <1>4, <1>5, <1>6
     DEF Control

\* RegistryCore is inductive.
LEMMA RegistryCoreNext == RegistryCore /\ [RegistryNext]_registryVars => RegistryCore'
<1> SUFFICES ASSUME RegistryCore, [RegistryNext]_registryVars PROVE RegistryCore'
  OBVIOUS
<1>1. CASE UNCHANGED registryVars
  BY <1>1
     DEF registryVars, RegistryCore, RegistryTypeOK, EstStates, HandlersHaveDomains, RegisteredIsHeld,
        AddressOwned, ControlsHaveTunnels, AttachedHaveDomains,
        ControlSameDomain, Holding, dataVars, ipVars, controlVars
<1>2. ASSUME NEW d \in Domains, RecordTCPClientIP(d) PROVE RegistryCore'
  BY <1>2
     DEF RecordTCPClientIP, RegistryCore, RegistryTypeOK, EstStates, HandlersHaveDomains,
        RegisteredIsHeld, AddressOwned, ControlsHaveTunnels, AttachedHaveDomains,
        ControlSameDomain, Holding, dataVars, controlVars
<1>3. CASE RegistryNext
  BY <1>2, <1>3, TunnelPreserves, ControlPreserves DEF RegistryNext
<1>4. QED
  BY <1>1, <1>3

\* Another stream of the domain that was registered once stays so, or has left.
Past(t) == Holding(t) \/ est[t] \in {"removed", "gone"}

\* A step leaves a stream where it was only if no other stream of its domain
\* registers or unregisters.
LEMMA DisplacedNext ==
    RegistryCore /\ OnlyOwnDomainDisplaces /\ [RegistryNext]_registryVars => OnlyOwnDomainDisplaces'
<1> SUFFICES ASSUME RegistryCore, OnlyOwnDomainDisplaces, [RegistryNext]_registryVars,
                    NEW s \in Streams, Holding(s)', registry'[dom'[s]] # s
             PROVE  \E t \in Streams \ {s} : dom'[t] = dom'[s] /\ Past(t)'
  BY DEF OnlyOwnDomainDisplaces, Past
<1>1. RegistryTypeOK /\ HandlersHaveDomains
  BY DEF RegistryCore
<1>2. Holding(s) /\ registry[dom[s]] # s => \E t \in Streams \ {s} : dom[t] = dom[s] /\ Past(t)
  BY DEF OnlyOwnDomainDisplaces, Past
<1>3. ASSUME Holding(s), dom' = dom, registry[dom[s]] # s,
             \A t \in Streams : Past(t) => Past(t)'
      PROVE  \E t \in Streams \ {s} : dom'[t] = dom'[s] /\ Past(t)'
  BY <1>2, <1>3
<1>4. CASE UNCHANGED <<est, dom, registry>>
  BY <1>3, <1>4 DEF Holding, Past
<1>5. ASSUME NEW r \in Streams, Tunnel(r), ~UNCHANGED <<est, dom, registry>>
      PROVE  \E t \in Streams \ {s} : dom'[t] = dom'[s] /\ Past(t)'
  <2>1. ASSUME NEW d \in Domains, Authenticate(r, d)
        PROVE  \E t \in Streams \ {s} : dom'[t] = dom'[s] /\ Past(t)'
    <3>1. /\ est' = [est EXCEPT ![r] = "authenticated"] /\ est[r] = "idle"
          /\ dom' = [dom EXCEPT ![r] = d] /\ registry' = registry
      BY <2>1 DEF Authenticate, EstGoto
    <3>2. s # r /\ dom'[s] = dom[s] /\ Holding(s)
      BY <1>1, <3>1 DEF RegistryTypeOK, Holding
    <3>3. PICK t \in Streams \ {s} : dom[t] = dom[s] /\ Past(t)
      BY <1>2, <3>1, <3>2
    <3>4. t # r
      BY <3>1, <3>3 DEF Past, Holding
    <3>5. dom'[t] = dom[t] /\ est'[t] = est[t]
      BY <1>1, <3>1, <3>4 DEF RegistryTypeOK
    <3>6. QED
      BY <3>2, <3>3, <3>5 DEF Past, Holding
  <2>2. ASSUME NEW l \in EstStates, est' = [est EXCEPT ![r] = l], dom' = dom, registry' = registry,
               Past(r) => l \in {"registered", "running", "leaving", "removed", "gone"},
               l \in {"registered", "running", "leaving"} => Holding(r)
        PROVE  \E t \in Streams \ {s} : dom'[t] = dom'[s] /\ Past(t)'
    <3>1. \A t \in Streams : Past(t) => Past(t)'
      BY <1>1, <2>2 DEF RegistryTypeOK, Past, Holding
    <3>2. Holding(s)
      BY <1>1, <2>2 DEF RegistryTypeOK, Holding
    <3>3. QED
      BY <1>3, <2>2, <3>1, <3>2
  <2>3. CASE RegisterStream(r) \/ Unregister(r)
    <3>1. /\ dom[r] \in Domains /\ dom' = dom
          /\ \E l \in {"registered", "removed"}, x \in {r, Absent} :
                /\ est' = [est EXCEPT ![r] = l] /\ registry' = [registry EXCEPT ![dom[r]] = x]
                /\ (l = "registered") <=> (x = r)
      BY <1>1, <2>3, AbsentIsNobody DEF RegisterStream, Unregister, EstGoto, HandlersHaveDomains
    <3>2. \A t \in Streams : Past(t) => Past(t)'
      BY <1>1, <3>1 DEF RegistryTypeOK, Past, Holding
    <3>3. Past(r)'
      BY <1>1, <3>1 DEF RegistryTypeOK, Past, Holding
    <3>4. s # r
      BY <1>1, <3>1 DEF RegistryTypeOK, Holding
    <3>5. Holding(s) /\ dom'[s] = dom[s]
      BY <1>1, <3>1, <3>4 DEF RegistryTypeOK, Holding
    <3>6. CASE dom[r] = dom[s]
      BY <3>1, <3>3, <3>4, <3>6
    <3>7. CASE dom[r] # dom[s]
      <4>1. dom[s] \in Domains
        BY <1>1, <3>5 DEF HandlersHaveDomains, Holding
      <4>2. registry'[dom[s]] = registry[dom[s]]
        BY <1>1, <3>1, <3>7, <4>1 DEF RegistryTypeOK
      <4>3. QED
        BY <1>3, <3>1, <3>2, <3>5, <4>2
    <3>8. QED
      BY <3>6, <3>7
  <2>4. CASE Refuse(r) \/ RecordClientIP(r) \/ RecordClientIPFails(r)
    BY <2>2, <2>4 DEF Refuse, RecordClientIP, RecordClientIPFails, EstGoto, EstStates, Past, Holding
  <2>5. CASE StartStream(r) \/ HandshakeSendFails(r) \/ MonitorSeesCancel(r) \/ HealthCheckFails(r)
    BY <2>2, <2>5 DEF StartStream, HandshakeSendFails, MonitorSeesCancel, HealthCheckFails, EstGoto,
                      EstStates, Past, Holding
  <2>6. CASE ClearClientIP(r) \/ ClearClientIPFails(r)
    BY <2>2, <2>6 DEF ClearClientIP, ClearClientIPFails, EstGoto, EstStates, Past, Holding
  <2>7. QED
    BY <1>5, <2>1, <2>3, <2>4, <2>5, <2>6 DEF Tunnel, StreamBreaks, ReaderEnds
<1>6. ASSUME NEW c \in Controls, Control(c)
      PROVE  UNCHANGED <<est, dom, registry>>
  BY <1>6 DEF Control, FindTunnel, RefuseControl, AttachControl, ConfirmControl, ConfirmFails,
              CloseControl, dataVars
<1>7. ASSUME NEW d \in Domains, RecordTCPClientIP(d)
      PROVE  UNCHANGED <<est, dom, registry>>
  BY <1>7 DEF RecordTCPClientIP, dataVars
<1>8. QED
  BY <1>4, <1>5, <1>6, <1>7 DEF RegistryNext, registryVars, dataVars

\* The registry of grpc_service.go satisfies its inductive invariant in every
\* reachable state; and a stream is displaced only by one of its own domain.
THEOREM RegistryInductive == RegistrySpec => []RegistryInv
<1>1. RegistryInit => OnlyOwnDomainDisplaces
  BY DEF RegistryInit, OnlyOwnDomainDisplaces, Holding
<1>2. QED
  BY <1>1, RegistryCoreInit, RegistryCoreNext, DisplacedNext, PTL DEF RegistrySpec, RegistryInv

\* However handlers of a domain overlap and fail, tunnelStreams holds only
\* streams whose handler still has its deferred delete ahead of it.
THEOREM RegisteredHeld == RegistrySpec => []RegisteredIsHeld
<1>1. RegistryInv => RegisteredIsHeld
  BY DEF RegistryInv, RegistryCore
<1>2. QED
  BY <1>1, RegistryInductive, PTL

\* Once all EstablishTunnel handlers of a domain have left, the row has kept the
\* address of none of them, although they record and clear it in any order and beside
\* the handshakes of TCP tunnels, which write it and never clear it.
THEOREM AddressGone == RegistrySpec => []AddressCleared
<1>1. RegistryInv => AddressCleared
  BY DEF RegistryInv, RegistryCore, AddressOwned, AddressCleared
<1>2. QED
  BY <1>1, RegistryInductive, PTL

\* A control stream serves only data streams of the domain its handshake named.
THEOREM ControlStaysInDomain == RegistrySpec => []ControlSameDomain
<1>1. RegistryInv => ControlSameDomain
  BY DEF RegistryInv, RegistryCore
<1>2. QED
  BY <1>1, RegistryInductive, PTL
=============================================================================
