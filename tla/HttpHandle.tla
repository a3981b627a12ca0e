----------------------------- MODULE HttpHandle -----------------------------
(***************************************************************************)
(* The wasi:http driver of a streaming session (src/wasi_http.rs,          *)
(* `handle_via_transport`): each `handle` call of the guest frames its     *)
(* request onto the session's one outbound channel and waits for the       *)
(* caller's response on the session's one inbound channel.  Calls run as   *)
(* concurrent tasks of the worker; between two awaits a call runs alone.   *)
(*                                                                         *)
(* Request bodies are sequences of batches, numbered per call.             *)
(***************************************************************************)
EXTENDS P3Stream

CONSTANTS
  Handles,       \* the `handle` calls a guest may make
  MaxBatches,    \* bound on the body batches of one request
  ClosesBodyEarly \* TRUE: a guest closes a request body without waiting for
                  \* the call that sends it; FALSE: it awaits the call first

ASSUME HandlesAssumption ==
  /\ MaxBatches \in Nat
  /\ ClosesBodyEarly \in BOOLEAN

VARIABLES
  pc,        \* pc[h]: where call h is
  body,      \* body[h]: batches sent by RequestBodyConsumer, not yet forwarded
  bodyOpen,  \* bodyOpen[h]: the guest's end of the request body is open
  written,   \* history: batches the guest has written to h's body
  trailers,  \* trailers[h]: "none", "pending", "fields" or "nothing"
  inbound,   \* inbound[h]: call h has taken the inbound receiver
  received   \* history: received[h]: inbound frames that reached call h

handleVars == <<pc, body, bodyOpen, written, trailers, inbound, received>>
vars == <<streamVars, handleVars>>

Head_(h)    == [kind |-> "HEAD", of |-> h, n |-> 0]
Body_(h, n) == [kind |-> "BODY", of |-> h, n |-> n]
Trailers_(h) == [kind |-> "TRAILERS", of |-> h, n |-> 0]

InProgress == {"piping", "trailers", "ending", "awaiting"}

Init ==
  /\ StreamInit
  /\ pc = [h \in Handles |-> "idle"]
  /\ body = [h \in Handles |-> <<>>]
  /\ bodyOpen = [h \in Handles |-> FALSE]
  /\ written = [h \in Handles |-> 0]
  /\ trailers = [h \in Handles |-> "none"]
  /\ inbound = [h \in Handles |-> FALSE]
  /\ received = [h \in Handles |-> <<>>]

-----------------------------------------------------------------------------
(* Faulty variants, for sensitivity checks; not part of Next.              *)

\* OUT_END is emitted without waiting for the end of the body.
FaultyPipeEnd(h) ==
  /\ worker = "running" /\ pc[h] = "piping"
  /\ pc' = [pc EXCEPT ![h] = "trailers"]
  /\ UNCHANGED <<streamVars, body, bodyOpen, written, trailers, inbound, received>>

\* The wait for the trailers goes on beside the call once its budget expired: a
\* late value is emitted as a frame, whatever the call has sent in the meantime.
FaultyTrailersResolved(h) ==
  /\ worker = "running" /\ pc[h] \in {"trailers", "ending", "awaiting"}
  /\ trailers[h] # "pending" /\ (pc[h] # "trailers" => trailers[h] = "fields")
  /\ pc' = [pc EXCEPT ![h] = IF @ = "trailers" THEN "ending" ELSE @]
  /\ trailers' = [trailers EXCEPT ![h] = "nothing"]
  /\ Emit(IF trailers[h] = "fields" THEN <<Out(Trailers_(h))>> ELSE <<>>)
  /\ UNCHANGED <<callerVars, rxOpen, inVars, workerVars,
                 body, bodyOpen, written, inbound, received>>

\* The call waits for the trailers future however long it takes.
PatientTrailersExpire(h) ==
  /\ FALSE
  /\ UNCHANGED vars

\* The response is awaited before the outbound stream is ended.
FaultyEndOut(h) ==
  /\ worker = "running" /\ pc[h] = "ending"
  /\ pc' = [pc EXCEPT ![h] = IF inbound[h] THEN "awaiting" ELSE "err"]
  /\ UNCHANGED <<streamVars, body, bodyOpen, written, trailers, inbound, received>>

\* The inbound receiver is shared instead of taken.
FaultyHandle(h, hasBody, hasTrailers) ==
  /\ worker = "running" /\ pc[h] = "idle"
  /\ pc' = [pc EXCEPT ![h] = "piping"]
  /\ bodyOpen' = [bodyOpen EXCEPT ![h] = hasBody]
  /\ trailers' = [trailers EXCEPT ![h] = IF hasTrailers THEN "pending" ELSE "none"]
  /\ inbound' = [inbound EXCEPT ![h] = TRUE]
  /\ inRx' = "taken"
  /\ Emit(<<Out(Head_(h))>>)
  /\ UNCHANGED <<callerVars, rxOpen, inTx, inQ, pushed, workerVars, body, written, received>>

-----------------------------------------------------------------------------
(* The guest's side.                                                       *)

\* The guest calls handle with a valid request: one `with` reads the request,
\* emits the head and takes body, trailers and the inbound receiver.
Handle(h, hasBody, hasTrailers) ==
  /\ worker = "running" /\ pc[h] = "idle"
  /\ pc' = [pc EXCEPT ![h] = "piping"]
  /\ bodyOpen' = [bodyOpen EXCEPT ![h] = hasBody]
  /\ trailers' = [trailers EXCEPT ![h] = IF hasTrailers THEN "pending" ELSE "none"]
  /\ inbound' = [inbound EXCEPT ![h] = (inRx = "host")]
  /\ inRx' = IF inRx = "host" THEN "taken" ELSE inRx
  /\ Emit(<<Out(Head_(h))>>)
  /\ UNCHANGED <<callerVars, rxOpen, inTx, inQ, pushed, workerVars, body, written, received>>

\* Unknown request, invalid method or URI: an error before anything is sent.
HandleRejected(h) ==
  /\ worker = "running" /\ pc[h] = "idle"
  /\ pc' = [pc EXCEPT ![h] = "err"]
  /\ UNCHANGED <<streamVars, body, bodyOpen, written, trailers, inbound, received>>

\* `pipe` fails on the body or on the trailers: the call returns with its head
\* sent but not ended, and drops the receiver if it has it.
PipeFails(h) ==
  /\ worker = "running"
  /\ \/ pc[h] = "idle" /\ Emit(<<Out(Head_(h))>>)
     \/ pc[h] = "trailers" /\ trailers[h] # "none" /\ UNCHANGED events
  /\ pc' = [pc EXCEPT ![h] = "err"]
  /\ IF inbound[h] \/ (pc[h] = "idle" /\ inRx = "host")
       THEN inRx' = "dropped" /\ inQ' = <<>>
       ELSE UNCHANGED <<inRx, inQ>>
  /\ UNCHANGED <<callerVars, rxOpen, inTx, pushed, workerVars,
                 body, bodyOpen, written, trailers, inbound, received>>

\* The guest writes to the body; RequestBodyConsumer forwards the batch.
GuestWrites(h) ==
  /\ worker = "running" /\ bodyOpen[h] /\ written[h] < MaxBatches
  /\ written' = [written EXCEPT ![h] = @ + 1]
  /\ body' = [body EXCEPT ![h] = Append(@, written[h] + 1)]
  /\ UNCHANGED <<streamVars, pc, bodyOpen, trailers, inbound, received>>

\* The guest closes the body (or makes a zero-length write, which the consumer
\* takes for the end): the consumer's sender is dropped.
GuestClosesBody(h) ==
  /\ worker = "running" /\ bodyOpen[h]
  /\ ClosesBodyEarly \/ pc[h] \notin InProgress
  /\ bodyOpen' = [bodyOpen EXCEPT ![h] = FALSE]
  /\ UNCHANGED <<streamVars, pc, body, written, trailers, inbound, received>>

\* The guest resolves its trailers future: non-empty fields, or anything else.
\* A value resolved after the budget expired is never looked at.
GuestResolvesTrailers(h, t) ==
  /\ worker = "running" /\ trailers[h] = "pending"
  /\ trailers' = [trailers EXCEPT ![h] = t]
  /\ UNCHANGED <<streamVars, pc, body, bodyOpen, written, inbound, received>>

\* The guest reads the response body; ResponseBodyProducer forwards one frame.
GuestReadsBody(h) ==
  /\ worker = "running" /\ pc[h] = "ok" /\ inbound[h] /\ inQ # <<>>
  /\ received' = [received EXCEPT ![h] = Append(@, Head(inQ))]
  /\ inQ' = Tail(inQ)
  /\ UNCHANGED <<callerVars, outVars, inTx, inRx, pushed, workerVars,
                 pc, body, bodyOpen, written, trailers, inbound>>

\* The guest drops the response body unread, and the receiver with it.
GuestDropsBody(h) ==
  /\ worker = "running" /\ pc[h] = "ok" /\ inRx = "taken"
  /\ inRx' = "dropped" /\ inQ' = <<>>
  /\ UNCHANGED <<callerVars, outVars, inTx, pushed, workerVars, handleVars>>

\* The guest's run ends, whether or not its calls have: it returns, traps or
\* runs out of fuel.  Unfinished calls are dropped with the store.
GuestEnds(o) ==
  /\ worker = "running"
  /\ DriverReturns(o)
  /\ UNCHANGED handleVars

-----------------------------------------------------------------------------
(* handle_via_transport, from await to await.                              *)

\* (1b) one body batch becomes one BODY frame.
ForwardBody(h) ==
  /\ worker = "running" /\ pc[h] = "piping" /\ body[h] # <<>>
  /\ Emit(<<Out(Body_(h, Head(body[h])))>>)
  /\ body' = [body EXCEPT ![h] = Tail(@)]
  /\ UNCHANGED <<callerVars, rxOpen, inVars, workerVars,
                 pc, bodyOpen, written, trailers, inbound, received>>

\* The body is over: its sender is gone and its queue drained.
PipeEnd(h) ==
  /\ worker = "running" /\ pc[h] = "piping"
  /\ body[h] = <<>> /\ ~bodyOpen[h]
  /\ pc' = [pc EXCEPT ![h] = "trailers"]
  /\ UNCHANGED <<streamVars, body, bodyOpen, written, trailers, inbound, received>>

\* (1c) the trailers future has resolved in time (or there is none).
TrailersResolved(h) ==
  /\ worker = "running" /\ pc[h] = "trailers"
  /\ trailers[h] # "pending"
  /\ pc' = [pc EXCEPT ![h] = "ending"]
  /\ Emit(IF trailers[h] = "fields" THEN <<Out(Trailers_(h))>> ELSE <<>>)
  /\ UNCHANGED <<callerVars, rxOpen, inVars, workerVars,
                 body, bodyOpen, written, trailers, inbound, received>>

\* YIELD_BUDGET ticks pass first: no TRAILERS frame.
TrailersExpire(h) ==
  /\ worker = "running" /\ pc[h] = "trailers"
  /\ trailers[h] = "pending"
  /\ pc' = [pc EXCEPT ![h] = "ending"]
  /\ UNCHANGED <<streamVars, body, bodyOpen, written, trailers, inbound, received>>

\* out.end(); a call that found the inbound receiver already taken fails here.
EndOut(h) ==
  /\ worker = "running" /\ pc[h] = "ending"
  /\ Emit(<<OutEnd>>)
  /\ pc' = [pc EXCEPT ![h] = IF inbound[h] THEN "awaiting" ELSE "err"]
  /\ UNCHANGED <<callerVars, rxOpen, inVars, workerVars,
                 body, bodyOpen, written, trailers, inbound, received>>

\* (2)-(3) the head frame arrives and parses: the response is built on the
\* receiver, which streams the rest.
ReceiveHead(h) ==
  /\ worker = "running" /\ pc[h] = "awaiting" /\ inQ # <<>>
  /\ received' = [received EXCEPT ![h] = Append(@, Head(inQ))]
  /\ inQ' = Tail(inQ)
  /\ pc' = [pc EXCEPT ![h] = "ok"]
  /\ UNCHANGED <<callerVars, outVars, inTx, inRx, pushed, workerVars,
                 body, bodyOpen, written, trailers, inbound>>

\* The head frame does not parse, or the caller closed without one: the call
\* fails and drops the receiver with what is queued in it.
HeadFails(h) ==
  /\ worker = "running" /\ pc[h] = "awaiting"
  /\ inQ # <<>> \/ ~inTx
  /\ pc' = [pc EXCEPT ![h] = "err"]
  /\ inRx' = "dropped" /\ inQ' = <<>>
  /\ UNCHANGED <<callerVars, outVars, inTx, pushed, workerVars,
                 body, bodyOpen, written, trailers, inbound, received>>

-----------------------------------------------------------------------------
Step(h) ==
  \/ ForwardBody(h) \/ PipeEnd(h) \/ TrailersResolved(h) \/ TrailersExpire(h)
  \/ EndOut(h) \/ ReceiveHead(h) \/ HeadFails(h)

Guest(h) ==
  \/ \E b, t \in BOOLEAN : Handle(h, b, t)
  \/ HandleRejected(h) \/ PipeFails(h)
  \/ GuestWrites(h) \/ GuestClosesBody(h)
  \/ \E t \in {"fields", "nothing"} : GuestResolvesTrailers(h, t)
  \/ GuestReadsBody(h) \/ GuestDropsBody(h)

Transport == Caller \/ DriverStarts \/ SendDone \/ WorkerPanic

Next ==
  \/ Transport /\ UNCHANGED handleVars
  \/ worker = "setup" /\ DriverReturns("error") /\ UNCHANGED handleVars
  \/ \E h \in Handles : Guest(h) \/ Step(h)
  \/ \E o \in {"output", "error"} : GuestEnds(o)

Spec == Init /\ [][Next]_vars

\* A guest whose calls have all returned runs on its fuel to its end.
GuestFinishes ==
  /\ \A h \in Handles : pc[h] \notin InProgress
  /\ \E o \in {"output", "error"} : GuestEnds(o)

\* The OS runs both threads and the executor every runnable task; a guest task
\* that can close its body does so.  The caller owes nothing but to take a
\* poll's return and to carry a free through.
Fairness ==
  /\ WF_vars(PollReturn /\ UNCHANGED handleVars)
  /\ WF_vars(FreeDisconnect /\ UNCHANGED handleVars)
  /\ WF_vars(FreeJoin /\ UNCHANGED handleVars)
  /\ WF_vars(DriverStarts /\ UNCHANGED handleVars)
  /\ WF_vars(SendDone /\ UNCHANGED handleVars)
  /\ \A h \in Handles : WF_vars(Step(h)) /\ WF_vars(GuestClosesBody(h))
  /\ WF_vars(GuestFinishes)
FairSpec == Spec /\ Fairness

-----------------------------------------------------------------------------
(* wasi_http_frames.rs: the reference parser.                              *)

Kinds == {"HEAD", "BODY", "TRAILERS"}

\* The error parse_request_frames returns at frame i, or "ok".
FrameError(fs, i) ==
  CASE fs[i].kind \notin Kinds -> "UnknownKind"
    [] fs[i].kind \in Kinds /\ \E j \in 1..(i - 1) : fs[j].kind = "TRAILERS" -> "AfterTrailers"
    [] OTHER -> IF i = 1 THEN IF fs[i].kind = "HEAD" THEN "ok" ELSE "MissingHead"
                ELSE IF fs[i].kind = "HEAD" THEN "DuplicateHead" ELSE "ok"

\* The first error decides; no frame at all is an error of its own.
ParseRequestFrames(fs) ==
  IF fs = <<>> THEN "Empty"
  ELSE LET bad == {i \in DOMAIN fs : FrameError(fs, i) # "ok"}
       IN  IF bad = {} THEN "ok"
           ELSE FrameError(fs, CHOOSE i \in bad : \A j \in bad : i <= j)

-----------------------------------------------------------------------------
(* Properties.                                                             *)

RequestFrames ==
  [kind : {"HEAD", "TRAILERS"}, of : Handles, n : {0}]
    \cup [kind : {"BODY"}, of : Handles, n : 1..MaxBatches]

\* Every variable stays in its range.
TypeOK ==
  /\ StreamTypeOK(RequestFrames)
  /\ pc \in [Handles -> {"idle", "ok", "err"} \cup InProgress]
  /\ body \in [Handles -> Seq(1..MaxBatches)]
  /\ bodyOpen \in [Handles -> BOOLEAN]
  /\ written \in [Handles -> 0..MaxBatches]
  /\ trailers \in [Handles -> {"none", "pending", "fields", "nothing"}]
  /\ inbound \in [Handles -> BOOLEAN]
  /\ received \in [Handles -> Seq(1..MaxPush)]

Ended == \E i \in DOMAIN drained : drained[i].kind = "end"

\* When the caller is told OUT_END, the frames it has drained until then are one
\* request the reference parser accepts, and no outbound event follows: the
\* documented session = HEAD BODY* TRAILERS? OUT_END.
SessionGrammar ==
  \A e \in DOMAIN drained : drained[e].kind = "end" =>
    /\ \A i \in 1..(e - 1) : drained[i].kind = "out"
    /\ ParseRequestFrames([i \in 1..(e - 1) |-> drained[i].frame]) = "ok"
    /\ \A j \in DOMAIN drained : j > e => drained[j].kind = "done"

BatchAt(es, i, h, n) == es[i] = Out(Body_(h, n))

\* The request body the caller reassembles is what the guest wrote: every batch
\* is there once and after those before it and, once OUT_END is there, the last.
BodyIntact ==
  \A h \in Handles :
    /\ \A i \in DOMAIN drained, n \in 1..MaxBatches : BatchAt(drained, i, h, n) =>
         /\ n <= written[h]
         /\ \A m \in 1..(n - 1) : \E j \in 1..(i - 1) : BatchAt(drained, j, h, m)
         /\ \A j \in DOMAIN drained : BatchAt(drained, j, h, n) => i = j
    /\ Ended /\ Handles = {h} =>
         \A n \in 1..written[h] : \E i \in DOMAIN drained : BatchAt(drained, i, h, n)

\* Inbound frames reach one call only, in the order the caller pushed them,
\* with none skipped, whether they were pushed before or after that call began.
ResponseInOrder ==
  \A h \in Handles :
    /\ received[h] # <<>> => \A g \in Handles \ {h} : received[g] = <<>>
    /\ \A i \in DOMAIN received[h] : received[h][i] = i

\* If caller and worker wait on each other, a call is waiting for a response
\* the caller has been asked for: it has seen an OUT_END, and no other call
\* waits, or has waited, for the response it is going to push.
CallerWasAsked ==
  \A h \in Handles :
    caller = "polling" /\ events = <<>> /\ worker = "running" /\ pc[h] = "awaiting"
      => Ended /\ \A g \in Handles \ {h} : pc[g] \notin {"awaiting", "ok"}

\* hwr_p3s_free closes inbound, disconnects and joins: from every state the
\* worker ends and the free returns.
FreeTerminates == (caller = "closing") ~> (caller = "freed")

\* Every call that has sent its head comes back to the guest (or its run ends)
\* once the caller has closed the inbound stream.
HandleCompletes ==
  \A h \in Handles :
    (~inTx /\ pc[h] \in InProgress) ~> (pc[h] \in {"ok", "err"} \/ worker # "running")
=============================================================================
