-------------------------- MODULE InferenceProofs --------------------------
(***************************************************************************)
(* Proofs about Inference, for every number of pushes and of `complete`    *)
(* calls.                                                                  *)
(***************************************************************************)
EXTENDS Inference, P3StreamProofs

Frames == 1..MaxCompletes
-----------------------------------------------------------------------------
(* The inductive invariant.                                                *)

\* A thread is spawned once.
BirthInv == caller = "none" => worker = "unborn"

\* The receiver holds the tokens that follow those the guest has read, up to the
\* last one pushed; without a receiver nothing is queued.
QueueInv ==
  /\ \A i \in 1..Len(tokens) : tokens[i] = i
  /\ inRx # "dropped" => /\ Len(tokens) + Len(inQ) = pushed
                         /\ \A i \in 1..Len(inQ) : inQ[i] = Len(tokens) + i
  /\ inRx = "dropped" => inQ = <<>>

\* No guest has a stream before it runs; the stream of a running guest is the one
\* that took the receiver, and it ends only after the last push.
TakenInv ==
  /\ worker \in {"unborn", "setup"} => stream = "none"
  /\ worker = "running" /\ stream \in {"open", "ended"} => inRx = "taken"
  /\ inRx = "host" => stream = "none"
  /\ stream = "ended" => ~inTx /\ Len(tokens) = pushed

\* Head and end of every `complete`, and after them at most a Done, which is
\* the last thing a worker sends.
SentInv ==
  rxOpen =>
    /\ worker # "exited" => Len(Sent) = 2 * completes
    /\ \/ Len(Sent) = 2 * completes
       \/ Len(Sent) = 2 * completes + 1 /\ Sent[Len(Sent)].kind = "done"
    /\ \A n \in 1..completes : Sent[2*n - 1] = Out(n) /\ Sent[2*n] = OutEnd

IInv == TypeOK /\ BirthInv /\ QueueInv /\ TakenInv /\ SentInv
-----------------------------------------------------------------------------
\* The worker is about to be created; nothing has been pushed or sent.
LEMMA InitInv == Init => IInv
  <1> SUFFICES ASSUME Init PROVE IInv
    OBVIOUS
  <1>1. TypeOK
    <2>1. StreamTypeOK(Frames)
      BY StreamInitType DEF Init
    <2>2. completes \in 0..MaxCompletes /\ tokens \in Seq(1..MaxPush)
      BY MaxCompletesAssumption DEF Init
    <2> QED BY <2>1, <2>2 DEF Init, TypeOK, Frames
  <1>2. BirthInv /\ TakenInv
    BY DEF Init, StreamInit, BirthInv, TakenInv
  <1>3. QueueInv
    BY DEF Init, StreamInit, QueueInv
  <1>4. SentInv
    <2>1. Sent = <<>>
      BY DEF Init, StreamInit, Sent
    <2> QED BY <2>1 DEF Init, SentInv
  <1> QED BY <1>1, <1>2, <1>3, <1>4 DEF IInv

\* The C calls: pushes extend the queue in order, polls move what was sent.
LEMMA CallerInv ==
  ASSUME IInv, Caller, UNCHANGED tokenVars
  PROVE  IInv'
  <1> USE DEF IInv, TypeOK, tokenVars
  <1>1. TypeOK'
    BY CallerType
  <1>2. BirthInv'
    BY DEF BirthInv, Caller, PollReturn, Start, StartFails, PollFinished, PollBlock, PollEvent,
           PollVanished, Push, PushEnd, FreeClose, FreeDisconnect, FreeJoin,
           callerVars, workerVars
  <1>3. QueueInv'
    <2>1. pushed \in Nat /\ inQ \in Seq(1..MaxPush) /\ tokens \in Seq(1..MaxPush)
      BY DEF StreamTypeOK
    <2>2. CASE inQ' = inQ /\ pushed' = pushed
      BY <2>2, CallerInbound DEF QueueInv
    <2>3. CASE inQ' = Append(inQ, pushed + 1) /\ pushed' = pushed + 1 /\ inTx /\ inRx # "dropped"
      <3>1. Len(inQ') = Len(inQ) + 1 /\ inQ'[Len(inQ) + 1] = pushed + 1
            /\ \A i \in 1..Len(inQ) : inQ'[i] = inQ[i]
        BY <2>1, <2>3
      <3>2. Len(tokens) \in Nat /\ Len(inQ) \in Nat
        BY <2>1
      <3>0. Len(tokens) + Len(inQ) = pushed /\ \A i \in 1..Len(inQ) : inQ[i] = Len(tokens) + i
        BY <2>3 DEF QueueInv
      <3>3. ASSUME NEW i \in 1..Len(inQ') PROVE inQ'[i] = Len(tokens) + i
        <4>1. i \in 1..Len(inQ) \/ i = Len(inQ) + 1
          BY <3>1, <3>2
        <4>2. CASE i \in 1..Len(inQ)
          BY <4>2, <3>0, <3>1
        <4>3. CASE i = Len(inQ) + 1
          BY <4>3, <3>0, <3>1, <3>2
        <4> QED BY <4>1, <4>2, <4>3
      <3> QED BY <2>1, <2>3, <3>1, <3>2, <3>3, CallerInbound DEF QueueInv
    <2> QED BY <2>2, <2>3, CallerInbound
  <1>4. TakenInv'
    <2>1. worker' = worker \/ worker = "unborn"
      BY CallerInbound DEF BirthInv
    <2> QED BY <2>1, CallerInbound DEF TakenInv
  <1>5. SentInv'
    <2>1. rxOpen' => rxOpen /\ Sent' = Sent
      BY CallerKeepsSent
    <2>2. worker' # "exited" => worker # "exited"
      BY CallerInbound DEF BirthInv
    <2> QED BY <2>1, <2>2 DEF SentInv
  <1> QED BY <1>1, <1>2, <1>3, <1>4, <1>5

\* The end of a run drops the receiver and what is queued in it; only SendDone
\* sends anything.
LEMMA WorkerInv ==
  ASSUME IInv, UNCHANGED tokenVars,
         \/ DriverStarts \/ SendDone \/ WorkerPanic
         \/ \E o \in {"output", "error"} : worker \in {"setup", "running"} /\ DriverReturns(o)
  PROVE  IInv'
  <1> USE DEF IInv, TypeOK, tokenVars, callerVars, outVars, inVars, workerVars
  <1>1. TypeOK'
    BY WorkerType
  <1>2. BirthInv'
    BY DEF BirthInv, DriverStarts, SendDone, WorkerPanic, DriverReturns
  <1>3. QueueInv'
    BY DEF QueueInv, DriverStarts, SendDone, WorkerPanic, DriverReturns
  <1>4. TakenInv'
    BY DEF TakenInv, DriverStarts, SendDone, WorkerPanic, DriverReturns
  <1>5. SentInv'
    <2>1. CASE SendDone
      <3> DEFINE es == <<Done(outcome)>>
      <3>1. es \in Seq(Events(Frames))
        BY DEF StreamTypeOK, Events
      <3>2. Sent \in Seq(Events(Frames)) /\ (rxOpen => Sent' = Sent \o es)
        BY <2>1, <3>1, EmitExtends DEF SendDone, Frames
      <3>3. Len(Sent \o es) = Len(Sent) + 1 /\ (Sent \o es)[Len(Sent) + 1] = Done(outcome)
            /\ \A i \in 1..Len(Sent) : (Sent \o es)[i] = Sent[i]
        BY <3>1, <3>2
      <3>4. rxOpen' = rxOpen /\ worker = "finishing"
        BY <2>1 DEF SendDone
      <3>5. rxOpen => Len(Sent) = 2 * completes
        BY <3>4 DEF SentInv
      <3>6. rxOpen => \A n \in 1..completes : Sent'[2*n - 1] = Sent[2*n - 1] /\ Sent'[2*n] = Sent[2*n]
        BY <3>2, <3>3, <3>5
      <3>7. worker' = "exited"
        BY <2>1 DEF SendDone
      <3>8. rxOpen => Len(Sent') = 2 * completes + 1 /\ Sent'[2 * completes + 1].kind = "done"
        BY <3>2, <3>3, <3>5, EventKinds
      <3> QED BY <3>4, <3>6, <3>7, <3>8 DEF SentInv
    <2>2. CASE \/ DriverStarts \/ WorkerPanic
               \/ \E o \in {"output", "error"} : worker \in {"setup", "running"} /\ DriverReturns(o)
      BY <2>2 DEF SentInv, Sent, DriverStarts, WorkerPanic, DriverReturns
    <2> QED BY <2>1, <2>2
  <1> QED BY <1>1, <1>2, <1>3, <1>4, <1>5

\* Head and end leave together, before the receiver is looked at.
LEMMA CompleteInv ==
  ASSUME IInv, Complete
  PROVE  IInv'
  <1> USE DEF IInv, TypeOK, callerVars, workerVars, Complete
  <1> DEFINE es == <<Out(completes + 1), OutEnd>>
  <1>1. completes \in Nat /\ completes' = completes + 1 /\ completes + 1 \in 1..MaxCompletes
    BY MaxCompletesAssumption
  <1>2. es \in Seq(Events(Frames))
    <2>1. Out(completes + 1) \in Events(Frames) /\ OutEnd \in Events(Frames)
      BY <1>1 DEF Events, Frames
    <2> QED BY <2>1
  <1>3. /\ events' \in Seq(Events(Frames)) /\ Sent \in Seq(Events(Frames))
        /\ rxOpen => Sent' = Sent \o es
    BY <1>2, EmitExtends DEF Frames
  <1>4. TypeOK'
    <2>1. \A S : <<>> \in Seq(S)
      OBVIOUS
    <2>2. inQ' \in Seq(1..MaxPush) /\ inRx' \in {"host", "taken", "dropped"}
      BY <2>1 DEF StreamTypeOK
    <2>3. StreamTypeOK(Frames)'
      BY <1>3, <2>2 DEF StreamTypeOK, Frames
    <2>4. completes' \in 0..MaxCompletes
      BY <1>1
    <2> QED BY <2>3, <2>4 DEF Frames
  <1>5. BirthInv'
    BY DEF BirthInv
  <1>6. QueueInv'
    <2>1. CASE inQ' = inQ /\ (inRx' = "dropped" <=> inRx = "dropped")
      BY <2>1 DEF QueueInv
    <2>2. CASE inQ' = <<>> /\ inRx' = "dropped"
      BY <2>2 DEF QueueInv
    <2> QED BY <2>1, <2>2
  <1>7. TakenInv'
    BY DEF TakenInv
  <1>8. SentInv'
    <2> SUFFICES ASSUME rxOpen PROVE SentInv'
      BY DEF SentInv
    <2>1. Len(Sent) = 2 * completes
      BY DEF SentInv
    <2>2. /\ Len(Sent \o es) = Len(Sent) + 2
          /\ (Sent \o es)[Len(Sent) + 1] = Out(completes + 1)
          /\ (Sent \o es)[Len(Sent) + 2] = OutEnd
          /\ \A i \in 1..Len(Sent) : (Sent \o es)[i] = Sent[i]
      BY <1>2, <1>3
    <2>3. Len(Sent') = 2 * completes'
      BY <1>1, <1>3, <2>1, <2>2
    <2>4. ASSUME NEW n \in 1..completes' PROVE Sent'[2*n - 1] = Out(n) /\ Sent'[2*n] = OutEnd
      <3>1. CASE n \in 1..completes
        <4>1. Sent[2*n - 1] = Out(n) /\ Sent[2*n] = OutEnd
          BY <3>1 DEF SentInv
        <4>2. 2*n - 1 \in 1..Len(Sent) /\ 2*n \in 1..Len(Sent)
          BY <1>1, <2>1, <3>1
        <4> QED BY <1>3, <2>2, <4>1, <4>2
      <3>2. CASE n = completes + 1
        <4>1. 2*n - 1 = Len(Sent) + 1 /\ 2*n = Len(Sent) + 2
          BY <1>1, <2>1, <3>2
        <4> QED BY <1>3, <2>2, <3>2, <4>1
      <3> QED BY <1>1, <3>1, <3>2
    <2> QED BY <2>3, <2>4 DEF SentInv
  <1> QED BY <1>4, <1>5, <1>6, <1>7, <1>8

\* What the guest does with its stream: it reads the oldest token, is told of
\* the end when nothing is left, or drops the receiver.
LEMMA StreamInv ==
  ASSUME IInv, ReadToken \/ StreamEnds \/ GuestDropsStream
  PROVE  IInv'
  <1> USE DEF IInv, TypeOK, callerVars, outVars, inVars, workerVars, streamVars
  <1>1. SentInv' /\ BirthInv'
    <2>1. /\ caller' = caller /\ worker' = worker /\ drained' = drained /\ events' = events
          /\ rxOpen' = rxOpen /\ completes' = completes
      BY DEF ReadToken, StreamEnds, GuestDropsStream
    <2>2. Sent' = Sent
      BY <2>1 DEF Sent
    <2> QED BY <2>1, <2>2 DEF SentInv, BirthInv
  <1>2. pushed \in Nat /\ inQ \in Seq(1..MaxPush) /\ tokens \in Seq(1..MaxPush)
    BY DEF StreamTypeOK
  <1>3. CASE ReadToken
    <2>1. /\ Head(inQ) = inQ[1] /\ Head(inQ) \in 1..MaxPush /\ Tail(inQ) \in Seq(1..MaxPush)
          /\ Len(inQ) \in Nat \ {0} /\ Len(tokens) \in Nat
          /\ Len(Tail(inQ)) = Len(inQ) - 1
          /\ \A i \in 1..Len(inQ) - 1 : Tail(inQ)[i] = inQ[i + 1]
      <3>1. inQ # <<>>
        BY <1>3 DEF ReadToken
      <3>2. Len(tokens) \in Nat
        BY <1>2
      <3>3. /\ Head(inQ) = inQ[1] /\ Head(inQ) \in 1..MaxPush /\ Tail(inQ) \in Seq(1..MaxPush)
            /\ Len(inQ) \in Nat \ {0} /\ Len(Tail(inQ)) = Len(inQ) - 1
            /\ \A i \in 1..Len(inQ) - 1 : Tail(inQ)[i] = inQ[i + 1]
        BY <1>2, <3>1, OldestFirst, Zenon
      <3> QED BY <3>2, <3>3
    <2>2. /\ tokens' \in Seq(1..MaxPush) /\ Len(tokens') = Len(tokens) + 1
          /\ tokens'[Len(tokens) + 1] = inQ[1]
          /\ \A i \in 1..Len(tokens) : tokens'[i] = tokens[i]
      BY <1>2, <1>3, <2>1 DEF ReadToken
    <2>3. inRx = "taken" /\ inRx' = "taken" /\ stream' = "open" /\ worker' = "running"
      BY <1>3 DEF ReadToken, TakenInv
    <2>4. /\ Len(tokens) + Len(inQ) = pushed
          /\ \A i \in 1..Len(inQ) : inQ[i] = Len(tokens) + i
          /\ \A i \in 1..Len(tokens) : tokens[i] = i
      BY <2>3 DEF QueueInv
    <2>5. TypeOK'
      BY <1>3, <2>1, <2>2 DEF ReadToken, StreamTypeOK
    <2>6. ASSUME NEW i \in 1..Len(tokens') PROVE tokens'[i] = i
      <3>1. i \in 1..Len(tokens) \/ i = Len(tokens) + 1
        BY <2>1, <2>2
      <3>2. inQ[1] = Len(tokens) + 1
        BY <2>1, <2>4
      <3> QED BY <2>2, <2>4, <3>1, <3>2
    <2>7. inQ' = Tail(inQ) /\ pushed' = pushed
      BY <1>3 DEF ReadToken
    <2>8. Len(tokens') + Len(inQ') = pushed'
      <3>1. Len(inQ') = Len(inQ) - 1
        BY <2>1, <2>7
      <3> QED BY <2>1, <2>2, <2>4, <2>7, <3>1
    <2>9. ASSUME NEW i \in 1..Len(inQ') PROVE inQ'[i] = Len(tokens') + i
      <3>1. i \in 1..Len(inQ) - 1 /\ i + 1 \in 1..Len(inQ)
        BY <2>1, <2>7
      <3>2. inQ'[i] = inQ[i + 1] /\ inQ[i + 1] = Len(tokens) + (i + 1)
        BY <2>1, <2>4, <2>7, <3>1
      <3> QED BY <2>1, <2>2, <3>1, <3>2
    <2>10. QueueInv'
      BY <2>3, <2>6, <2>8, <2>9 DEF QueueInv
    <2>11. TakenInv'
      BY <2>3 DEF TakenInv
    <2> QED BY <1>1, <2>5, <2>10, <2>11
  <1>4. CASE StreamEnds
    <2>1. inRx = "taken" /\ inQ = <<>>
      BY <1>4 DEF StreamEnds, TakenInv
    <2>2. Len(tokens) = pushed
      BY <1>2, <2>1 DEF QueueInv
    <2>3. TypeOK'
      BY <1>4 DEF StreamEnds, StreamTypeOK
    <2>4. QueueInv'
      BY <1>4 DEF StreamEnds, QueueInv
    <2>5. TakenInv'
      BY <1>4, <2>1, <2>2 DEF StreamEnds, TakenInv
    <2> QED BY <1>1, <2>3, <2>4, <2>5
  <1>5. CASE GuestDropsStream
    <2>1. TypeOK'
      <3>1. \A S : <<>> \in Seq(S)
        OBVIOUS
      <3> QED BY <1>5, <3>1 DEF GuestDropsStream, StreamTypeOK
    <2>2. QueueInv'
      BY <1>5 DEF GuestDropsStream, QueueInv
    <2>3. TakenInv'
      BY <1>5 DEF GuestDropsStream, TakenInv
    <2> QED BY <1>1, <2>1, <2>2, <2>3
  <1> QED BY <1>3, <1>4, <1>5

\* Every step keeps the invariant.
LEMMA NextInv ==
  ASSUME IInv, [Next]_vars
  PROVE  IInv'
  <1>1. CASE Caller /\ UNCHANGED tokenVars
    BY <1>1, CallerInv
  <1>2. CASE (DriverStarts \/ SendDone \/ WorkerPanic) /\ UNCHANGED tokenVars
    BY <1>2, WorkerInv
  <1>3. CASE worker = "setup" /\ DriverReturns("error") /\ UNCHANGED tokenVars
    BY <1>3, WorkerInv
  <1>4. CASE Complete
    BY <1>4, CompleteInv
  <1>5. CASE ReadToken \/ StreamEnds \/ GuestDropsStream
    BY <1>5, StreamInv
  <1>6. CASE \E o \in {"output", "error"} : GuestEnds(o)
    BY <1>6, WorkerInv DEF GuestEnds
  <1>7. CASE UNCHANGED vars
    <2> USE <1>7 DEF vars, streamVars, callerVars, outVars, inVars, workerVars, tokenVars, IInv
    <2>1. TypeOK'
      BY DEF TypeOK, StreamTypeOK
    <2>2. BirthInv' /\ QueueInv' /\ TakenInv'
      BY DEF BirthInv, QueueInv, TakenInv
    <2>3. Sent' = Sent
      BY DEF Sent
    <2>4. SentInv'
      BY <2>3 DEF SentInv
    <2> QED BY <2>1, <2>2, <2>4
  <1> QED BY <1>1, <1>2, <1>3, <1>4, <1>5, <1>6, <1>7 DEF Next, Transport

\* The invariant holds in every reachable state.
THEOREM Invariance == Spec => []IInv
  BY InitInv, NextInv, PTL DEF Spec
-----------------------------------------------------------------------------
\* Every variable of a streaming inference session stays in its range.
THEOREM TypeCorrect == Spec => []TypeOK
  BY Invariance, PTL DEF IInv

\* hwr_p3s_push to poll_produce: for every number of pushes the guest reads the
\* frames in the order they were pushed, none skipped, and a stream that ended
\* has delivered them all.
THEOREM OrderOfTokens == Spec => []TokensInOrder
  <1>1. IInv => TokensInOrder
    <2> SUFFICES ASSUME IInv PROVE TokensInOrder
      OBVIOUS
    <2>1. tokens \in Seq(1..MaxPush) /\ \A i \in 1..Len(tokens) : tokens[i] = i
      BY DEF IInv, TypeOK, QueueInv
    <2>2. tokens = [i \in 1..Len(tokens) |-> tokens[i]]
      BY <2>1
    <2>3. tokens = [i \in 1..Len(tokens) |-> i]
      BY <2>1, <2>2
    <2> QED BY <2>3 DEF IInv, TakenInv, TokensInOrder
  <1> QED BY <1>1, Invariance, PTL

\* Inference::complete: for every number of calls, served or not, head and
\* OUT_END reach the caller's channel in pairs, and nothing but a Done follows.
THEOREM EveryHeadIsEnded == Spec => []HeadsAreEnded
  <1>1. IInv => HeadsAreEnded
    BY DEF IInv, SentInv, HeadsAreEnded
  <1> QED BY <1>1, Invariance, PTL
=============================================================================
