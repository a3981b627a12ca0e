----------------------------- MODULE Inference -----------------------------
(***************************************************************************)
(* The inference driver of a streaming session (src/inference.rs):         *)
(* `complete` sends its request head and OUT_END in one go and returns a   *)
(* token stream over the session's inbound channel, one frame per token.   *)
(***************************************************************************)
EXTENDS P3Stream

CONSTANT MaxCompletes   \* bound on the `complete` calls of a run

ASSUME MaxCompletesAssumption == MaxCompletes \in Nat

VARIABLES
  completes,  \* `complete` calls made so far
  stream,     \* the guest's token stream: "none", "open", "ended" or "closed"
  tokens      \* history: the tokens the guest has read

tokenVars == <<completes, stream, tokens>>
vars == <<streamVars, tokenVars>>

Init ==
  /\ StreamInit
  /\ completes = 0 /\ stream = "none" /\ tokens = <<>>

-----------------------------------------------------------------------------
(* Faulty variants, for sensitivity checks; not part of Next.              *)

\* A call that cannot be served is noticed before OUT_END is sent.
FaultyComplete ==
  /\ worker = "running" /\ completes < MaxCompletes
  /\ completes' = completes + 1
  /\ IF inRx = "host"
       THEN inRx' = "taken" /\ stream' = "open" /\ Emit(<<Out(completes + 1), OutEnd>>)
       ELSE UNCHANGED <<inRx, stream>> /\ Emit(<<Out(completes + 1)>>)
  /\ UNCHANGED <<callerVars, rxOpen, inTx, inQ, pushed, workerVars, tokens>>

\* The end of the stream is taken for "no frame yet".
FaultyStreamEnds ==
  /\ FALSE
  /\ UNCHANGED vars

\* The youngest frame is delivered first.
FaultyReadToken ==
  /\ worker = "running" /\ stream = "open" /\ inQ # <<>>
  /\ tokens' = Append(tokens, inQ[Len(inQ)])
  /\ inQ' = SubSeq(inQ, 1, Len(inQ) - 1)
  /\ UNCHANGED <<callerVars, outVars, inTx, inRx, pushed, workerVars, completes, stream>>

-----------------------------------------------------------------------------
\* Head and end are emitted before the receiver is looked at: a second call is
\* shown to the caller as well, and then fails.  A call that has the receiver
\* and cannot mint the stream drops it.
Complete ==
  /\ worker = "running" /\ completes < MaxCompletes
  /\ completes' = completes + 1
  /\ Emit(<<Out(completes + 1), OutEnd>>)
  /\ \/ inRx = "host" /\ inRx' = "taken" /\ stream' = "open" /\ UNCHANGED inQ
     \/ inRx = "host" /\ inRx' = "dropped" /\ inQ' = <<>> /\ UNCHANGED stream
     \/ inRx # "host" /\ UNCHANGED <<inRx, inQ, stream>>
  /\ UNCHANGED <<callerVars, rxOpen, inTx, pushed, workerVars, tokens>>

\* TokenProducer::poll_produce: a frame is there, or the channel is closed.
ReadToken ==
  /\ worker = "running" /\ stream = "open" /\ inQ # <<>>
  /\ tokens' = Append(tokens, Head(inQ))
  /\ inQ' = Tail(inQ)
  /\ UNCHANGED <<callerVars, outVars, inTx, inRx, pushed, workerVars, completes, stream>>

StreamEnds ==
  /\ worker = "running" /\ stream = "open" /\ inQ = <<>> /\ ~inTx
  /\ stream' = "ended"
  /\ UNCHANGED <<streamVars, completes, tokens>>

\* The guest drops the stream, the producer and its receiver.
GuestDropsStream ==
  /\ worker = "running" /\ stream \in {"open", "ended"} /\ inRx = "taken"
  /\ stream' = "closed"
  /\ inRx' = "dropped" /\ inQ' = <<>>
  /\ UNCHANGED <<callerVars, outVars, inTx, pushed, workerVars, completes, tokens>>

GuestEnds(o) ==
  /\ worker = "running"
  /\ DriverReturns(o)
  /\ UNCHANGED tokenVars

Transport == Caller \/ DriverStarts \/ SendDone \/ WorkerPanic

Next ==
  \/ Transport /\ UNCHANGED tokenVars
  \/ worker = "setup" /\ DriverReturns("error") /\ UNCHANGED tokenVars
  \/ Complete \/ ReadToken \/ StreamEnds \/ GuestDropsStream
  \/ \E o \in {"output", "error"} : GuestEnds(o)

Spec == Init /\ [][Next]_vars

\* A guest that is not parked on a read runs on its fuel to its end.
GuestFinishes == stream # "open" /\ \E o \in {"output", "error"} : GuestEnds(o)

\* The OS runs both threads.  A guest that holds an open stream either is
\* parked on a read, which a frame or the end wakes, or executes on its fuel
\* until it reads, drops the stream or ends.
Fairness ==
  /\ WF_vars(PollReturn /\ UNCHANGED tokenVars)
  /\ WF_vars(FreeDisconnect /\ UNCHANGED tokenVars)
  /\ WF_vars(FreeJoin /\ UNCHANGED tokenVars)
  /\ WF_vars(DriverStarts /\ UNCHANGED tokenVars)
  /\ WF_vars(SendDone /\ UNCHANGED tokenVars)
  /\ WF_vars(ReadToken \/ StreamEnds)
  /\ WF_vars(GuestFinishes)
FairSpec == Spec /\ Fairness

-----------------------------------------------------------------------------
(* Properties.                                                             *)

\* Every variable stays in its range.
TypeOK ==
  /\ StreamTypeOK(1..MaxCompletes)
  /\ completes \in 0..MaxCompletes
  /\ stream \in {"none", "open", "ended", "closed"}
  /\ tokens \in Seq(1..MaxPush)

\* The guest reads the caller's token frames in the order they were pushed,
\* none skipped, frames pushed before `complete` included; a stream that ended
\* has delivered every one of them.
TokensInOrder ==
  /\ tokens = [i \in 1..Len(tokens) |-> i]
  /\ stream = "ended" => Len(tokens) = pushed

\* Whatever the number of calls, and whether or not they can be served, every
\* request has its OUT_END on its way to the caller: heads and ends alternate,
\* and the last head is ended too.
HeadsAreEnded ==
  rxOpen =>
    /\ \/ Len(Sent) = 2 * completes
       \/ Len(Sent) = 2 * completes + 1 /\ Sent[Len(Sent)].kind = "done"
    /\ \A n \in 1..completes : Sent[2*n - 1] = Out(n) /\ Sent[2*n] = OutEnd

\* hwr_p3s_free of an inference session returns from every state: closing the
\* inbound channel ends the one thing a guest can be parked on.
FreeTerminates == (caller = "closing") ~> (caller = "freed")

\* hwr_p3s_push_end reaches the guest: an open token stream ends.
EndReachesGuest == (~inTx /\ stream = "open") ~> (stream # "open" \/ worker # "running")
=============================================================================
