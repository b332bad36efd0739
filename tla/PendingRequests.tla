--------------------------- MODULE PendingRequests ---------------------------
(***************************************************************************)
(* The request/response table of ONE gRPC tunnel stream on the server      *)
(* (TunnelStream.pendingRequests): the goroutines that proxy an HTTP       *)
(* request over the stream, the goroutine that dispatches what the client  *)
(* sends back, the goroutines that collect chunked responses, and the      *)
(* cleanup that runs when the stream ends.                                 *)
(*                                                                         *)
(* A Go channel is the buffer buf[r] and the flag r \in closed.  A send on *)
(* a closed channel and a second close both panic; a panic in a goroutine  *)
(* without a recover ends the server process, so nothing happens after it. *)
(***************************************************************************)
EXTENDS Naturals, Sequences

CONSTANTS
    Regular,    \* requests proxied by sendRequestAndWaitResponse
    Download,   \* requests proxied by collectChunkedResponse
    Upload,     \* requests proxied by handleLargeFileUploadWithStreaming
    CapRegular, \* capacity of a regular response channel (1 in the code)
    CapLarge,   \* capacity of a large-file response channel (250 in the code)
    MaxMsgs     \* bound: messages the client sends for one request

ASSUME RequestsDisjoint ==
    /\ Regular \cap Download = {}
    /\ Regular \cap Upload = {}
    /\ Download \cap Upload = {}

ASSUME BoundsAssumption ==
    /\ CapRegular \in Nat \ {0}
    /\ CapLarge \in Nat \ {0}
    /\ MaxMsgs \in Nat

Requests == Regular \cup Download \cup Upload

Large == Download \cup Upload

Cap(r) == IF r \in Regular THEN CapRegular ELSE CapLarge

\* What the client sends for a request: a complete HTTP response, a chunk, the
\* chunk whose id ends in _final, or an error message.
Kinds == {"resp", "chunk", "final", "err"}

Chunks == {"chunk", "final"}

VARIABLES
    pending,    \* keys of pendingRequests; the entry of r is r's own channel
    closed,     \* channels that have been closed
    buf,        \* channel contents
    pc,         \* where the proxying goroutine of r is
    result,     \* what it returned
    initial,    \* the initialChunk handed to collectChunkedResponseNoSend
    coll,       \* where the collecting goroutine of r is
    signals,    \* contents of the collector's metadataCh and errorCh
    pipeClosed, \* requests whose pipe reader was closed
    client,     \* per request: is the client idle, streaming, or done with it
    msgs,       \* number of messages the client sent for it
    handler,    \* handleClientMessages: what it is doing, for which request
    muxHeld,    \* the dispatcher holds requestsMux across a blocking send
    stream,     \* EstablishTunnel: running, leaving, or cleaned up
    ctxDone,    \* the stream's context is cancelled
    panic       \* which goroutine panicked

chanVars == <<pending, closed, buf>>
reqVars == <<pc, result, initial, pipeClosed>>
collVars == <<coll, signals>>
clientVars == <<client, msgs>>
streamVars == <<stream, ctxDone>>
vars == <<chanVars, reqVars, collVars, clientVars, handler, muxHeld,
          streamVars, panic>>

None == "none"

PCs == {"idle", "found", "rejected", "registered", "uploading", "waiting", "cleanup",
        "lookup", "meta", "done"}

Results == {None, "response", "stream", "error", "timeout",
            "sendfail", "disconnected", "nochannel"}

HandlerStates == {"recv", "regular", "regsend", "chunk", "chunksend",
                  "error", "errclean", "gone"}

\* A collector first processes the chunk it was handed (init), waits for the
\* first message (first) and then for further ones (more).
CollectorStates == {None, "init", "first", "more", "exit", "gone"}

TypeOK ==
    /\ pending \in SUBSET Requests
    /\ closed \in SUBSET Requests
    /\ buf \in [Requests -> Seq(Kinds)]
    /\ pc \in [Requests -> PCs]
    /\ result \in [Requests -> Results]
    /\ initial \in [Requests -> Chunks \cup {None}]
    /\ coll \in [Requests -> CollectorStates]
    /\ signals \in [Requests -> SUBSET {"meta", "err"}]
    /\ pipeClosed \in SUBSET Requests
    /\ client \in [Requests -> {"idle", "asked", "streaming", "done"}]
    /\ msgs \in [Requests -> Nat]
    /\ handler \in [st : HandlerStates, req : Requests \cup {None},
                    kind : Kinds \cup {None}]
    /\ handler.st \notin {"recv", "gone"} =>
          handler.req \in Requests /\ handler.kind \in Kinds
    /\ muxHeld \in BOOLEAN
    /\ stream \in {"running", "leaving", "cleaned"}
    /\ ctxDone \in BOOLEAN
    /\ panic \in {None, "owner", "dispatcher"}

Idle == [st |-> "recv", req |-> None, kind |-> None]

Init ==
    /\ pending = {}
    /\ closed = {}
    /\ buf = [r \in Requests |-> <<>>]
    /\ pc = [r \in Requests |-> "idle"]
    /\ result = [r \in Requests |-> None]
    /\ initial = [r \in Requests |-> None]
    /\ coll = [r \in Requests |-> None]
    /\ signals = [r \in Requests |-> {}]
    /\ pipeClosed = {}
    /\ client = [r \in Requests |-> "idle"]
    /\ msgs = [r \in Requests |-> 0]
    /\ handler = Idle
    /\ muxHeld = FALSE
    /\ stream = "running"
    /\ ctxDone = FALSE
    /\ panic = None

-----------------------------------------------------------------------------
(* The proxying goroutine.                                                 *)

Goto(r, l) == pc' = [pc EXCEPT ![r] = l]

Return(r, v) ==
    /\ pc' = [pc EXCEPT ![r] = "done"]
    /\ result' = [result EXCEPT ![r] = v]

\* The stream is found in tunnelStreams and is connected.  The goroutine keeps
\* the pointer: whatever happens to the stream afterwards, it goes on with it.
FindStream(r) ==
    /\ pc[r] = "idle"
    /\ stream = "running"
    /\ handler.st # "gone"
    /\ Goto(r, "found")
    /\ UNCHANGED <<chanVars, result, initial, pipeClosed, collVars, clientVars,
                   handler, muxHeld, streamVars, panic>>

\* The tunnel is disabled, over quota or over its rate limit (ProxyHTTPRequest
\* only), or the request's body cannot be read (httpToGRPC).
Reject(r) ==
    /\ pc[r] = "found"
    /\ r \in Regular \cup Download
    /\ Goto(r, "rejected")
    /\ UNCHANGED <<chanVars, result, initial, pipeClosed, collVars, clientVars,
                   handler, muxHeld, streamVars, panic>>

\* A fresh channel is put into pendingRequests under requestsMux.
Register(r) ==
    /\ pc[r] = "found"
    /\ ~muxHeld
    /\ pending' = pending \cup {r}
    /\ Goto(r, "registered")
    /\ UNCHANGED <<closed, buf, result, initial, pipeClosed, collVars,
                   clientVars, handler, muxHeld, streamVars, panic>>

\* Stream.Send of a regular request succeeded.  A send waits for sendMux and then
\* for the client to read, without a deadline: a call may stay where it sends for
\* ever, and only the end of the stream's context makes Send return (Fairness).
SendRegular(r) ==
    /\ pc[r] = "registered"
    /\ r \in Regular
    /\ ~ctxDone
    /\ client' = [client EXCEPT ![r] = "asked"]
    /\ Goto(r, "waiting")
    /\ UNCHANGED <<chanVars, result, initial, pipeClosed, collVars, msgs,
                   handler, muxHeld, streamVars, panic>>

\* Mutant: a failed send returns at once, like the large-file paths do.
SendRegularFailsLeaks(r) ==
    /\ pc[r] = "registered"
    /\ r \in Regular
    /\ Return(r, "sendfail")
    /\ UNCHANGED <<chanVars, initial, pipeClosed, collVars, clientVars,
                   handler, muxHeld, streamVars, panic>>

\* Stream.Send failed: a regular request goes on to its safe close.
SendRegularFails(r) ==
    /\ pc[r] = "registered"
    /\ r \in Regular
    /\ pc' = [pc EXCEPT ![r] = "cleanup"]
    /\ result' = [result EXCEPT ![r] = "sendfail"]
    /\ UNCHANGED <<chanVars, initial, pipeClosed, collVars, clientVars,
                   handler, muxHeld, streamVars, panic>>

\* Stream.Send of a large download succeeded; its collector is started.
SendDownload(r) ==
    /\ pc[r] = "registered"
    /\ r \in Download
    /\ ~ctxDone
    /\ client' = [client EXCEPT ![r] = "asked"]
    /\ coll' = [coll EXCEPT ![r] = "first"]
    /\ Goto(r, "meta")
    /\ UNCHANGED <<chanVars, result, initial, pipeClosed, signals, msgs,
                   handler, muxHeld, streamVars, panic>>

\* The Start message of an upload was sent; the body follows.
SendUploadStart(r) ==
    /\ pc[r] = "registered"
    /\ r \in Upload
    /\ ~ctxDone
    /\ client' = [client EXCEPT ![r] = "asked"]
    /\ Goto(r, "uploading")
    /\ UNCHANGED <<chanVars, result, initial, pipeClosed, collVars, msgs,
                   handler, muxHeld, streamVars, panic>>

\* All chunks of the body and the End message were sent.
SendUploadEnd(r) ==
    /\ pc[r] = "uploading"
    /\ ~ctxDone
    /\ Goto(r, "lookup")
    /\ UNCHANGED <<chanVars, result, initial, pipeClosed, collVars, clientVars,
                   handler, muxHeld, streamVars, panic>>

\* A send of a large request fails, or the body of an upload cannot be read:
\* the goroutine returns and leaves the entry of pendingRequests behind.
LargeSendFails(r) ==
    /\ r \in Large
    /\ pc[r] \in {"registered", "uploading"}
    /\ Return(r, "sendfail")
    /\ UNCHANGED <<chanVars, initial, pipeClosed, collVars, clientVars,
                   handler, muxHeld, streamVars, panic>>

\* Mutant: the nil message of a closed channel passes for an empty response.
ReceiveAnswerUnchecked(r) ==
    /\ pc[r] = "waiting"
    /\ \/ /\ buf[r] # <<>>
          /\ Return(r, IF Head(buf[r]) = "err" THEN "error" ELSE "response")
          /\ buf' = [buf EXCEPT ![r] = Tail(@)]
       \/ /\ buf[r] = <<>>
          /\ r \in closed
          /\ Return(r, "response")
          /\ UNCHANGED buf
    /\ UNCHANGED <<pending, closed, initial, pipeClosed, collVars, clientVars, handler,
                   muxHeld, streamVars, panic>>

\* sendRequestAndWaitResponse receives from its channel.  A chunk upgrades the
\* request to streaming; a closed channel yields nil, an invalid message.
ReceiveAnswer(r) ==
    /\ pc[r] = "waiting"
    /\ \/ /\ buf[r] # <<>>
          /\ LET m == Head(buf[r]) IN
             IF m \in Chunks
             THEN /\ initial' = [initial EXCEPT ![r] = m]
                  /\ Goto(r, "lookup")
                  /\ UNCHANGED result
             ELSE /\ Return(r, IF m = "resp" THEN "response" ELSE "error")
                  /\ UNCHANGED initial
          /\ buf' = [buf EXCEPT ![r] = Tail(@)]
       \/ /\ buf[r] = <<>>
          /\ r \in closed
          /\ Return(r, "error")
          /\ UNCHANGED <<buf, initial>>
    /\ UNCHANGED <<pending, closed, pipeClosed, collVars, clientVars, handler,
                   muxHeld, streamVars, panic>>

\* Mutant: no timer, the request waits for its answer or the disconnection.
RequestTimeoutMissing(r) == FALSE /\ UNCHANGED vars

\* The RequestTimeout timer fires.
RequestTimeout(r) ==
    /\ pc[r] = "waiting"
    /\ pc' = [pc EXCEPT ![r] = "cleanup"]
    /\ result' = [result EXCEPT ![r] = "timeout"]
    /\ UNCHANGED <<chanVars, initial, pipeClosed, collVars, clientVars,
                   handler, muxHeld, streamVars, panic>>

\* The stream's context is done.
Disconnected(r) ==
    /\ pc[r] = "waiting"
    /\ ctxDone
    /\ pc' = [pc EXCEPT ![r] = "cleanup"]
    /\ result' = [result EXCEPT ![r] = "disconnected"]
    /\ UNCHANGED <<chanVars, initial, pipeClosed, collVars, clientVars,
                   handler, muxHeld, streamVars, panic>>

\* Mutant: the entry is deleted and closed without looking whether it is there.
SafeCloseUnchecked(r) ==
    /\ ~muxHeld
    /\ pc[r] = "cleanup"
    /\ pc' = [pc EXCEPT ![r] = "done"]
    /\ pending' = pending \ {r}
    /\ closed' = closed \cup {r}
    /\ panic' = IF r \in closed THEN "owner" ELSE panic
    /\ UNCHANGED <<buf, result, initial, pipeClosed, collVars, clientVars,
                   handler, muxHeld, streamVars>>

\* Mutant: the channel is closed but its entry is left in the table.
SafeCloseKeepsEntry(r) ==
    /\ ~muxHeld
    /\ pc[r] = "cleanup"
    /\ pc' = [pc EXCEPT ![r] = "done"]
    /\ closed' = IF r \in pending THEN closed \cup {r} ELSE closed
    /\ UNCHANGED <<pending, buf, result, initial, pipeClosed, collVars,
                   clientVars, handler, muxHeld, streamVars, panic>>

\* "safe close (only if we still own the channel)", under requestsMux: delete
\* the entry and close the channel if the entry is still there.
SafeClose(r) ==
    /\ ~muxHeld
    /\ pc[r] = "cleanup"
    /\ pc' = [pc EXCEPT ![r] = "done"]
    /\ IF r \in pending
       THEN /\ pending' = pending \ {r}
            /\ closed' = closed \cup {r}
            /\ panic' = IF r \in closed THEN "owner" ELSE panic
       ELSE UNCHANGED <<pending, closed, panic>>
    /\ UNCHANGED <<buf, result, initial, pipeClosed, collVars, clientVars,
                   handler, muxHeld, streamVars>>

-----------------------------------------------------------------------------
(* collectChunkedResponse and collectChunkedResponseNoSend.                *)

\* collectChunkedResponseNoSend looks its channel up and starts the collector.
LookupChannel(r) ==
    /\ pc[r] = "lookup"
    /\ ~muxHeld
    /\ IF r \in pending
       THEN /\ coll' = [coll EXCEPT
                        ![r] = IF initial[r] = None THEN "first" ELSE "init"]
            /\ Goto(r, "meta")
            /\ UNCHANGED result
       ELSE /\ Return(r, "nochannel")
            /\ UNCHANGED coll
    /\ UNCHANGED <<chanVars, initial, pipeClosed, signals, clientVars, handler,
                   muxHeld, streamVars, panic>>

\* One message m of the response: the first one's metadata is announced, its
\* body is written to the pipe, which fails when the reader was closed, and the
\* final chunk, a complete response and an error end the collection.
Collect(r, m) ==
    /\ signals' = [signals EXCEPT
          ![r] = @ \cup (IF m # "err" /\ coll[r] # "more" THEN {"meta"} ELSE {})
                   \cup (IF m = "err" \/ r \in pipeClosed THEN {"err"} ELSE {})]
    /\ coll' = [coll EXCEPT
          ![r] = IF m = "chunk" /\ r \notin pipeClosed THEN "more" ELSE "exit"]

\* The chunk that upgraded the request is processed before the channel is read.
CollectInitial(r) ==
    /\ coll[r] = "init"
    /\ Collect(r, initial[r])
    /\ initial' = [initial EXCEPT ![r] = None]
    /\ UNCHANGED <<chanVars, pc, result, pipeClosed, clientVars, handler,
                   muxHeld, streamVars, panic>>

CollectMessage(r) ==
    /\ coll[r] \in {"first", "more"}
    /\ buf[r] # <<>>
    /\ Collect(r, Head(buf[r]))
    /\ buf' = [buf EXCEPT ![r] = Tail(@)]
    /\ UNCHANGED <<pending, closed, reqVars, clientVars, handler, muxHeld,
                   streamVars, panic>>

\* Mutant: only the closed channel ends the wait, no timer does.
CollectorGivesUpOnClose(r) ==
    /\ coll[r] \in {"first", "more"}
    /\ r \in closed /\ buf[r] = <<>>
    /\ signals' = [signals EXCEPT ![r] = @ \cup {"err"}]
    /\ coll' = [coll EXCEPT ![r] = "exit"]
    /\ UNCHANGED <<chanVars, reqVars, clientVars, handler, muxHeld, streamVars,
                   panic>>

\* The channel is closed and empty, or the 10-minute timer fires.
CollectorGivesUp(r) ==
    /\ coll[r] \in {"first", "more"}
    /\ signals' = [signals EXCEPT ![r] = @ \cup {"err"}]
    /\ coll' = [coll EXCEPT ![r] = "exit"]
    /\ UNCHANGED <<chanVars, reqVars, clientVars, handler, muxHeld, streamVars,
                   panic>>

\* The collector's deferred cleanup: a close that recovers from a panic.
CollectorExit(r) ==
    /\ coll[r] = "exit"
    /\ ~muxHeld
    /\ coll' = [coll EXCEPT ![r] = "gone"]
    /\ pending' = pending \ {r}
    /\ closed' = IF r \in pending THEN closed \cup {r} ELSE closed
    /\ UNCHANGED <<buf, reqVars, signals, clientVars, handler, muxHeld,
                   streamVars, panic>>

\* The first chunk's metadata arrived: the caller gets a streaming response.
StreamingResponse(r) ==
    /\ pc[r] = "meta"
    /\ "meta" \in signals[r]
    /\ signals' = [signals EXCEPT ![r] = @ \ {"meta"}]
    /\ Return(r, "stream")
    /\ UNCHANGED <<chanVars, initial, pipeClosed, coll, clientVars, handler,
                   muxHeld, streamVars, panic>>

\* The collector reported an error, or no metadata came for 60 seconds.
MetadataFails(r) ==
    /\ pc[r] = "meta"
    /\ \/ /\ "err" \in signals[r]
          /\ signals' = [signals EXCEPT ![r] = @ \ {"err"}]
          /\ Return(r, "error")
       \/ /\ Return(r, "timeout")
          /\ UNCHANGED signals
    /\ pipeClosed' = pipeClosed \cup {r}
    /\ UNCHANGED <<chanVars, initial, coll, clientVars, handler, muxHeld,
                   streamVars, panic>>

\* The HTTP side stops reading the streamed body and closes it.
BodyClosed(r) ==
    /\ pc[r] = "done"
    /\ result[r] = "stream"
    /\ pipeClosed' = pipeClosed \cup {r}
    /\ UNCHANGED <<chanVars, pc, result, initial, collVars, clientVars,
                   handler, muxHeld, streamVars, panic>>

-----------------------------------------------------------------------------
(* The tunnel client, as far as the stream shows it: one complete response, *)
(* or chunks and a final chunk, either cut short by an error.  For an upload*)
(* a failed write of the body adds an error to whatever the response is.   *)

MayFollow(r, k) ==
    \/ client[r] = "asked" /\ k \in Kinds
    \/ client[r] = "streaming" /\ k \in {"chunk", "final", "err"}
    \/ client[r] = "done" /\ k = "err" /\ r \in Upload

\* handleClientMessages receives a message and looks its channel up; a message
\* for an unknown request is dropped.
Receive(r, k) ==
    /\ handler.st = "recv"
    /\ msgs[r] < MaxMsgs
    /\ MayFollow(r, k)
    /\ client' = [client EXCEPT ![r] = IF k = "chunk" THEN "streaming"
                                                      ELSE "done"]
    /\ msgs' = [msgs EXCEPT ![r] = @ + 1]
    /\ handler' = IF r \in pending
                  THEN [st |-> CASE k = "resp" -> "regular"
                                 [] k = "err" -> "error"
                                 [] OTHER -> "chunk",
                        req |-> r, kind |-> k]
                  ELSE handler
    /\ UNCHANGED <<chanVars, reqVars, collVars, muxHeld, streamVars, panic>>

\* Recv fails: connected = false and the dispatcher returns.
ReceiveFails ==
    /\ handler.st = "recv"
    /\ ctxDone
    /\ handler' = [handler EXCEPT !.st = "gone"]
    /\ UNCHANGED <<chanVars, reqVars, collVars, clientVars, muxHeld,
                   streamVars, panic>>

\* handleRegularHTTPResponse, complete response: take requestsMux.
LockRegular ==
    /\ handler.st = "regular"
    /\ muxHeld' = TRUE
    /\ handler' = [handler EXCEPT !.st = "regsend"]
    /\ UNCHANGED <<chanVars, reqVars, collVars, clientVars, streamVars, panic>>

\* Still under the lock: send (or give up after 5 seconds on a full channel),
\* delete the entry, close the channel, unlock.
DeliverRegular ==
    /\ handler.st = "regsend"
    /\ LET r == handler.req IN
       IF r \in closed
       THEN /\ panic' = "dispatcher"
            /\ UNCHANGED <<chanVars, handler, muxHeld>>
       ELSE /\ buf' = IF Len(buf[r]) < Cap(r)
                      THEN [buf EXCEPT ![r] = Append(@, handler.kind)]
                      ELSE buf
            /\ pending' = pending \ {r}
            /\ closed' = closed \cup {r}
            /\ handler' = Idle
            /\ muxHeld' = FALSE
            /\ UNCHANGED panic
    /\ UNCHANGED <<reqVars, collVars, clientVars, streamVars>>

\* handleRegularHTTPResponse, chunk: take the lock and verify that the channel
\* is still registered.
LockChunk ==
    /\ handler.st = "chunk"
    /\ IF handler.req \in pending
       THEN /\ muxHeld' = TRUE
            /\ handler' = [handler EXCEPT !.st = "chunksend"]
       ELSE /\ handler' = Idle
            /\ UNCHANGED muxHeld
    /\ UNCHANGED <<chanVars, reqVars, collVars, clientVars, streamVars, panic>>

\* Send the chunk, or drop it after 5 seconds on a full channel; unlock.
DeliverChunk ==
    /\ handler.st = "chunksend"
    /\ LET r == handler.req IN
       IF r \in closed
       THEN /\ panic' = "dispatcher"
            /\ UNCHANGED <<buf, handler, muxHeld>>
       ELSE /\ buf' = IF Len(buf[r]) < Cap(r)
                      THEN [buf EXCEPT ![r] = Append(@, handler.kind)]
                      ELSE buf
            /\ handler' = Idle
            /\ muxHeld' = FALSE
            /\ UNCHANGED panic
    /\ UNCHANGED <<pending, closed, reqVars, collVars, clientVars, streamVars>>

\* handleErrorMessage sends without the lock, for at most a second.
DeliverError ==
    /\ handler.st = "error"
    /\ LET r == handler.req IN
       IF r \in closed
       THEN /\ panic' = "dispatcher"
            /\ UNCHANGED <<buf, handler>>
       ELSE /\ buf' = IF Len(buf[r]) < Cap(r)
                      THEN [buf EXCEPT ![r] = Append(@, handler.kind)]
                      ELSE buf
            /\ handler' = [handler EXCEPT !.st = "errclean"]
            /\ UNCHANGED panic
    /\ UNCHANGED <<pending, closed, reqVars, collVars, clientVars, muxHeld,
                   streamVars>>

\* ... and then deletes the entry and closes the channel under the lock.
CleanupAfterError ==
    /\ handler.st = "errclean"
    /\ LET r == handler.req IN
       /\ pending' = pending \ {r}
       /\ IF r \in closed
          THEN /\ panic' = "dispatcher"
               /\ UNCHANGED <<closed, handler>>
          ELSE /\ closed' = closed \cup {r}
               /\ handler' = Idle
               /\ UNCHANGED panic
    /\ UNCHANGED <<buf, reqVars, collVars, clientVars, muxHeld, streamVars>>

-----------------------------------------------------------------------------
(* The stream itself: EstablishTunnel and its deferred cleanup.            *)

\* The client disconnects, or gRPC cancels the context after the handler left.
ContextCancelled ==
    /\ ~ctxDone
    /\ ctxDone' = TRUE
    /\ UNCHANGED <<chanVars, reqVars, collVars, clientVars, handler, muxHeld,
                   stream, panic>>

\* monitorTunnelHealth returns: context done, or a health check not sent.  The
\* deferred function removes the stream from tunnelStreams.
MonitorReturns ==
    /\ stream = "running"
    /\ stream' = "leaving"
    /\ UNCHANGED <<chanVars, reqVars, collVars, clientVars, handler, muxHeld,
                   ctxDone, panic>>

\* cleanupTunnelStreamState closes every registered channel (with a recover)
\* and empties the table.
CleanupStream ==
    /\ stream = "leaving"
    /\ ~muxHeld
    /\ stream' = "cleaned"
    /\ closed' = closed \cup pending
    /\ pending' = {}
    /\ UNCHANGED <<buf, reqVars, collVars, clientVars, handler, muxHeld,
                   ctxDone, panic>>

-----------------------------------------------------------------------------
Requester(r) ==
    \/ FindStream(r) \/ Reject(r) \/ Register(r)
    \/ SendRegular(r) \/ SendRegularFails(r) \/ SendDownload(r)
    \/ SendUploadStart(r) \/ SendUploadEnd(r) \/ LargeSendFails(r)
    \/ ReceiveAnswer(r) \/ RequestTimeout(r) \/ Disconnected(r) \/ SafeClose(r)
    \/ LookupChannel(r) \/ StreamingResponse(r) \/ MetadataFails(r)
    \/ BodyClosed(r)

Collector(r) ==
    \/ CollectInitial(r) \/ CollectMessage(r) \/ CollectorGivesUp(r)
    \/ CollectorExit(r)

Dispatcher ==
    \/ \E r \in Requests, k \in Kinds : Receive(r, k)
    \/ ReceiveFails
    \/ LockRegular \/ DeliverRegular \/ LockChunk \/ DeliverChunk
    \/ DeliverError \/ CleanupAfterError

Stream == ContextCancelled \/ MonitorReturns \/ CleanupStream

Step ==
    \/ \E r \in Requests : Requester(r) \/ Collector(r)
    \/ Dispatcher
    \/ Stream

\* A panic is the end of the server process.
Next == panic = None /\ Step

Spec == Init /\ [][Next]_vars

\* The HTTP side has the body of a streamed response and has not closed it.  The
\* collector writes to it through a pipe, without a deadline.
BodyHeld(r) == result[r] = "stream" /\ r \notin pipeClosed

\* What the scheduler and the timers owe a call and its collector: the timers
\* fire, a delivery on a full channel is given up, requestsMux, a Go mutex, starves
\* nobody, and once the stream's context is done a Send returns with its error.
\* Nothing is assumed of the client (it need not read, nor answer), of the
\* connection, of the body of an upload, nor of the reader of a streamed body: a
\* call may block for ever in a Send or in Body.Read, a collector in its pipe.
CallGoesOn(r) ==
    \/ SafeClose(r) \/ LookupChannel(r) \/ RequestTimeout(r) \/ MetadataFails(r)
    \/ ctxDone /\ pc[r] = "registered" /\ (SendRegularFails(r) \/ LargeSendFails(r))

CollectorGoesOn(r) ==
    /\ ~BodyHeld(r)
    /\ CollectInitial(r) \/ CollectorGivesUp(r) \/ CollectorExit(r)

Fairness ==
    /\ \A r \in Requests :
          /\ SF_vars(panic = None /\ CallGoesOn(r))
          /\ SF_vars(panic = None /\ CollectorGoesOn(r))
    /\ WF_vars(panic = None /\ (DeliverRegular \/ DeliverChunk))

FairSpec == Spec /\ Fairness

-----------------------------------------------------------------------------
(* Properties.                                                             *)

\* A request is in the hands of the dispatcher, which delivers its error.
BeingFailed(r) == handler.st \in {"error", "errclean"} /\ handler.req = r

\* A request that has registered its channel.
Started(r) == pc[r] \notin {"idle", "found", "rejected"}

\* A channel is in pendingRequests exactly from its registration until it is
\* closed: whoever finds an entry may close it, and a goroutine waiting on a
\* channel that is no longer registered finds it closed instead of waiting for
\* a message nobody can send any more.
ChannelLifecycle ==
    /\ pending \cap closed = {}
    /\ \A r \in Requests : Started(r) <=> r \in pending \cup closed

\* The closes made without a recover on send failure, timeout and disconnection
\* never meet a closed channel, nor does the delivery of a chunk, which verifies
\* its entry under the lock: only the deliveries of a complete response and of
\* an error, which do not look at the entry again, can panic.
SafePathsNeverPanic ==
    panic # None => /\ panic = "dispatcher"
                    /\ handler.st \in {"regsend", "error", "errclean"}

\* A request that has returned leaves no entry in pendingRequests once its
\* collector is gone and the dispatcher is done with it, whichever of response,
\* error, timeout and disconnection came first.  Only a large request whose send
\* failed leaves one, until the stream ends.
EntriesGivenBack ==
    \A r \in Requests \cap pending :
        (pc[r] = "done" /\ coll[r] \in {None, "gone"} /\ ~BeingFailed(r))
            => r \in Large /\ result[r] = "sendfail"

\* Both: an entry stands for an open channel that somebody will still use or close.
TableKept == ChannelLifecycle /\ EntriesGivenBack

\* Where a call is, as its caller sees it.
CallOf(r) ==
    CASE pc[r] \in {"idle", "found"} -> "new"
      [] pc[r] = "rejected" -> "rejected"
      [] pc[r] = "done" -> result[r]
      [] OTHER -> "open"

\* The table keeps the promise of RequestChannel, whatever is delivered late,
\* closed early or timed out: one result per call, and an answer only to whom the
\* client has answered.
Channel == INSTANCE RequestChannel WITH
    call <- [r \in Requests |-> CallOf(r)],
    answered <- {r \in Requests : msgs[r] > 0}

OneAnswer == Channel!ChannelSpec

\* What makes the invariants above inductive.  The dispatcher holds requestsMux
\* exactly while it delivers a response or a chunk, and handles only requests
\* that were registered, each kind of message in its own way; a chunk is
\* delivered to a registered channel.
DispatcherInv ==
    /\ muxHeld <=> handler.st \in {"regsend", "chunksend"}
    /\ handler.st \notin {"recv", "gone"} => Started(handler.req)
    /\ handler.st = "chunksend" => handler.req \in pending
    /\ handler.st \in {"regular", "regsend"} => handler.kind = "resp"
    /\ handler.st \in {"chunk", "chunksend"} => handler.kind \in Chunks
    /\ handler.st \in {"error", "errclean"} => handler.kind = "err"

\* An answer that ends a request is in its channel only when the entry is gone,
\* or, for an error, is about to go.
AnswersAreFinal ==
    \A r \in Requests : \A i \in 1..Len(buf[r]) :
        /\ Started(r)
        /\ buf[r][i] = "resp" => r \notin pending
        /\ buf[r][i] = "err" =>
              r \notin pending \/ (handler.st = "errclean" /\ handler.req = r)

\* Somebody is responsible for every registered request: its caller, its
\* collector, or the dispatcher; or the caller of a large one could not send it.
Owned(r) ==
    \/ pc[r] \in {"registered", "uploading", "waiting", "cleanup", "lookup"}
    \/ coll[r] \in {"init", "first", "more", "exit"}
    \/ BeingFailed(r)
    \/ pc[r] = "done" /\ r \in Large /\ result[r] = "sendfail"

EntriesOwned == \A r \in Requests \cap pending : Owned(r)

\* The inductive invariant.
IndInv ==
    /\ TypeOK
    /\ ChannelLifecycle
    /\ SafePathsNeverPanic
    /\ DispatcherInv
    /\ AnswersAreFinal
    /\ EntriesOwned

\* What makes OneAnswer hold, besides: whatever can become an answer of a call has
\* come from the client, which was asked for it; and a call decides what it returns
\* before it closes its channel.
AnswersHeard ==
    /\ \A r \in Requests :
          /\ client[r] # "idle" => Started(r)
          /\ msgs[r] > 0 => client[r] # "idle"
          /\ buf[r] # <<>> => msgs[r] > 0
          /\ initial[r] # None \/ coll[r] = "init" => msgs[r] > 0
          /\ "meta" \in signals[r] => msgs[r] > 0
          /\ pc[r] = "cleanup" => result[r] \in {"sendfail", "timeout", "disconnected"}
    /\ handler.st \notin {"recv", "gone"} => msgs[handler.req] > 0

\* A call that waits where the code sets no deadline: in Stream.Send or for sendMux
\* while the stream's context lasts, or in the Body.Read and the sends of an upload.
Sending(r) == pc[r] = "uploading" \/ (pc[r] = "registered" /\ ~ctxDone)

\* Whatever the client does or fails to do, a call that has sent its request
\* returns in the end; one that is still sending returns when the stream's context
\* ends, unless it is reading the body of an upload; and every collecting goroutine
\* whose body nobody holds any more ends and gives its entry back.  All of them need
\* the one requestsMux that the dispatcher keeps during a blocked delivery.
RequestsSettle ==
    <>[](panic # None \/ \A r \in Requests :
                            /\ Started(r) => pc[r] = "done" \/ Sending(r)
                            /\ coll[r] \in {None, "gone"} \/ BodyHeld(r))

\* The steps a call has before it, at most, when it is at p, and those of its
\* collector, when that is at c.  A collector is started by a step of the call.
CallLeft(p) ==
    CASE p = "idle" -> 6
      [] p = "found" -> 5
      [] p = "registered" -> 4
      [] p \in {"uploading", "waiting"} -> 3
      [] p = "lookup" -> 2
      [] p \in {"cleanup", "meta"} -> 1
      [] OTHER -> 0

CollectorLeft(c) ==
    CASE c = "init" -> 4
      [] c = "first" -> 3
      [] c = "more" -> 2
      [] c = "exit" -> 1
      [] OTHER -> 0

WorkLeft(r) == 5 * CallLeft(pc[r]) + CollectorLeft(coll[r])

\* Why RequestsSettle holds: whatever the client, the dispatcher and the other
\* requests do, nothing sends a call or its collector back, and each of the steps
\* they are sure to take brings them nearer to their end.
OnlyForward ==
    [][\A r \in Requests :
          /\ WorkLeft(r)' <= WorkLeft(r)
          /\ CallGoesOn(r) \/ CollectorGoesOn(r) => WorkLeft(r)' < WorkLeft(r)]_vars

\* "Send response to waiting goroutine (protected by mutex)" and the "safe close
\* (only if we still own the channel)": no goroutine panics on a closed channel.
NoPanic == panic = None

\* "Channel cleanup is handled by the goroutine when streaming completes": the
\* same as EntriesGivenBack, without its exception.
LargeNoLeak ==
    \A r \in Large :
        (pc[r] = "done" /\ coll[r] \in {None, "gone"} /\ ~BeingFailed(r))
            => r \notin pending

\* "collectChunkedResponseNoSend streams the response for a request that was
\* already started": it does not report a missing channel while the answer of
\* the client lies in it.
AnswerStreamed ==
    \A r \in Upload : result[r] = "nochannel" => buf[r] = <<>>
=============================================================================
