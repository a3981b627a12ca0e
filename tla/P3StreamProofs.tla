--------------------------- MODULE P3StreamProofs ---------------------------
(***************************************************************************)
(* What the transport of a streaming session guarantees whichever driver   *)
(* runs on it: lemmas about P3Stream for the proofs about Inference and    *)
(* HttpHandle.                                                             *)
(***************************************************************************)
EXTENDS P3Stream, TLAPS

\* Receiving moves an event from one sequence to the other.
LEMMA ReceiveKeepsOrder ==
  ASSUME NEW S, NEW s \in Seq(S), NEW t \in Seq(S), t # <<>>
  PROVE  /\ Head(t) \in S /\ Tail(t) \in Seq(S)
         /\ Append(s, Head(t)) \in Seq(S)
         /\ Append(s, Head(t)) \o Tail(t) = s \o t
  OBVIOUS

\* Taking the oldest element of a queue.
LEMMA OldestFirst ==
  ASSUME NEW S, NEW q \in Seq(S), q # <<>>
  PROVE  /\ Head(q) = q[1] /\ Head(q) \in S /\ Tail(q) \in Seq(S)
         /\ Len(q) \in Nat \ {0} /\ Len(Tail(q)) = Len(q) - 1
         /\ \A i \in 1..Len(q) - 1 : Tail(q)[i] = q[i + 1]
  <1>1. Len(q) \in Nat \ {0}
    OBVIOUS
  <1>2. Tail(q) \in Seq(S) /\ Len(Tail(q)) = Len(q) - 1
    OBVIOUS
  <1>3. Head(q) = q[1] /\ Head(q) \in S
    OBVIOUS
  <1>4. \A i \in 1..Len(q) - 1 : Tail(q)[i] = q[i + 1]
    OBVIOUS
  <1> QED BY <1>1, <1>2, <1>3, <1>4

\* Sending extends what was sent before.
LEMMA SendExtends ==
  ASSUME NEW S, NEW s \in Seq(S), NEW t \in Seq(S), NEW u \in Seq(S)
  PROVE  /\ t \o u \in Seq(S)
         /\ s \o (t \o u) = (s \o t) \o u
         /\ Len((s \o t) \o u) = Len(s \o t) + Len(u)
         /\ \A i \in 1 .. Len(s \o t) : ((s \o t) \o u)[i] = (s \o t)[i]
         /\ \A i \in 1 .. Len(u) : ((s \o t) \o u)[Len(s \o t) + i] = u[i]
  OBVIOUS

\* The kinds of events are told apart by their tag.
LEMMA EventKinds ==
  /\ \A f : Out(f).kind = "out" /\ Out(f).frame = f
  /\ OutEnd.kind = "end"
  /\ \A o : Done(o).kind = "done" /\ Done(o).res = o
  BY DEF Out, OutEnd, Done

\* A session starts with every variable in its range.
LEMMA StreamInitType ==
  ASSUME NEW F, StreamInit
  PROVE  StreamTypeOK(F)
  <1>1. \A S : <<>> \in Seq(S)
    OBVIOUS
  <1>2. events \in Seq(Events(F)) /\ drained \in Seq(Events(F)) /\ inQ \in Seq(1..MaxPush)
    BY <1>1 DEF StreamInit
  <1>3. pushed \in 0..MaxPush
    BY MaxPushAssumption DEF StreamInit
  <1> QED BY <1>2, <1>3 DEF StreamInit, StreamTypeOK, Freeing, Outcomes

\* The C calls keep the types of the session.
LEMMA CallerType ==
  ASSUME NEW F, StreamTypeOK(F), Caller
  PROVE  StreamTypeOK(F)'
  <1> USE DEF StreamTypeOK, callerVars, outVars, inVars, workerVars, Freeing
  <1>1. CASE Start \/ StartFails
    BY <1>1 DEF Start, StartFails
  <1>2. CASE PollFinished \/ PollBlock
    BY <1>2 DEF PollFinished, PollBlock
  <1>3. CASE PollEvent
    <2>1. Head(events) \in Events(F) /\ Tail(events) \in Seq(Events(F))
          /\ Append(drained, Head(events)) \in Seq(Events(F))
      BY <1>3, ReceiveKeepsOrder DEF PollEvent
    <2>2. Head(events).kind = "done" => Head(events).res \in Outcomes
      BY <2>1, EventKinds DEF Events
    <2>3. finished' \in BOOLEAN /\ result' \in Outcomes
      BY <1>3, <2>2 DEF PollEvent
    <2>4. status' \in {"NONE", "OUT", "OUT_END", "DONE", "ERROR"}
      BY <1>3 DEF PollEvent
    <2> QED BY <1>3, <2>1, <2>3, <2>4 DEF PollEvent
  <1>4. CASE PollVanished
    BY <1>4 DEF PollVanished
  <1>5. CASE Push
    <2>1. pushed' \in 0..MaxPush /\ pushed + 1 \in 1..MaxPush
      BY <1>5, MaxPushAssumption DEF Push
    <2>2. inQ' \in Seq(1..MaxPush)
      BY <1>5, <2>1 DEF Push
    <2> QED BY <1>5, <2>1, <2>2 DEF Push
  <1>6. CASE PushEnd \/ FreeClose \/ FreeJoin
    BY <1>6 DEF PushEnd, FreeClose, FreeJoin
  <1>7. CASE FreeDisconnect
    <2>1. \A S : <<>> \in Seq(S)
      OBVIOUS
    <2>2. events' \in Seq(Events(F))
      BY <1>7, <2>1 DEF FreeDisconnect
    <2> QED BY <1>7, <2>2 DEF FreeDisconnect
  <1> QED BY <1>1, <1>2, <1>3, <1>4, <1>5, <1>6, <1>7 DEF Caller, PollReturn

\* So do the beginning and the end of the worker.
LEMMA WorkerType ==
  ASSUME NEW F, StreamTypeOK(F),
         \/ DriverStarts \/ SendDone \/ WorkerPanic
         \/ \E o \in {"output", "error"} : DriverReturns(o)
  PROVE  StreamTypeOK(F)'
  <1> USE DEF StreamTypeOK, callerVars, outVars, inVars, workerVars
  <1>1. CASE DriverStarts
    BY <1>1 DEF DriverStarts
  <1>2. CASE SendDone
    <2>1. Done(outcome) \in Events(F)
      BY DEF Events
    <2>2. events' \in Seq(Events(F))
      BY <1>2, <2>1 DEF SendDone, Emit
    <2> QED BY <1>2, <2>2 DEF SendDone
  <1>3. CASE WorkerPanic
    BY <1>3 DEF WorkerPanic
  <1>4. ASSUME NEW o \in {"output", "error"}, DriverReturns(o) PROVE StreamTypeOK(F)'
    BY <1>4 DEF DriverReturns, Outcomes
  <1> QED BY <1>1, <1>2, <1>3, <1>4

\* Until the free has replaced the receiver, no C call loses or reorders what
\* the worker has sent: a poll only moves it.
LEMMA CallerKeepsSent ==
  ASSUME NEW F, StreamTypeOK(F), Caller
  PROVE  /\ rxOpen' => rxOpen /\ Sent' = Sent
         /\ Sent' = Sent \/ (events' = <<>> /\ drained' = drained)
  <1> USE DEF StreamTypeOK, callerVars, outVars, inVars, workerVars, Sent
  <1>1. CASE PollEvent
    <2>1. Append(drained, Head(events)) \o Tail(events) = drained \o events
      BY <1>1, ReceiveKeepsOrder DEF PollEvent
    <2>2. drained' = Append(drained, Head(events)) /\ events' = Tail(events) /\ rxOpen' = rxOpen
      BY <1>1 DEF PollEvent
    <2> QED BY <2>1, <2>2
  <1>2. CASE FreeDisconnect
    BY <1>2 DEF FreeDisconnect
  <1>3. CASE \/ Start \/ StartFails \/ PollFinished \/ PollBlock \/ PollVanished
             \/ Push \/ PushEnd \/ FreeClose \/ FreeJoin
    <2>1. drained' = drained /\ events' = events /\ rxOpen' = rxOpen
      BY <1>3 DEF Start, StartFails, PollFinished, PollBlock, PollVanished,
                  Push, PushEnd, FreeClose, FreeJoin
    <2> QED BY <2>1
  <1> QED BY <1>1, <1>2, <1>3 DEF Caller, PollReturn

\* No C call takes the receiver or anything out of it, and only a push puts a
\* frame in: the next one, and only into a receiver that somebody holds.
LEMMA CallerInbound ==
  ASSUME Caller
  PROVE  /\ inRx' = inRx /\ (inTx' => inTx)
         /\ \/ inQ' = inQ /\ pushed' = pushed
            \/ /\ inQ' = Append(inQ, pushed + 1) /\ pushed' = pushed + 1
               /\ inTx /\ inRx # "dropped"
         /\ caller # "none" => worker' = worker
         /\ worker' = worker \/ worker' = "setup"
  BY DEF Caller, PollReturn, Start, StartFails, PollFinished, PollBlock, PollEvent, PollVanished,
         Push, PushEnd, FreeClose, FreeDisconnect, FreeJoin,
         callerVars, outVars, inVars, workerVars

\* Sending es, on a channel that is still open, appends es to what was sent.
LEMMA EmitExtends ==
  ASSUME NEW F, StreamTypeOK(F), NEW es \in Seq(Events(F)), Emit(es), drained' = drained
  PROVE  /\ events' \in Seq(Events(F))
         /\ Sent \in Seq(Events(F))
         /\ rxOpen => Sent' = Sent \o es
  <1>1. events \in Seq(Events(F)) /\ drained \in Seq(Events(F))
    BY DEF StreamTypeOK
  <1>2. events' = IF rxOpen THEN events \o es ELSE events
    BY DEF Emit
  <1>3. events \o es \in Seq(Events(F)) /\ drained \o (events \o es) = (drained \o events) \o es
    BY <1>1, SendExtends
  <1>4. drained \o events \in Seq(Events(F))
    BY <1>1
  <1> QED BY <1>1, <1>2, <1>3, <1>4 DEF Sent
=============================================================================
