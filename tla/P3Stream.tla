------------------------------ MODULE P3Stream ------------------------------
(***************************************************************************)
(* The P3 v2 streaming session (src/lib.rs, `HwrP3Stream`): outbound       *)
(* frames flow worker -> caller through an event channel, inbound frames   *)
(* caller -> worker through an unbounded mpsc channel the caller closes.   *)
(*                                                                         *)
(* This module is the transport: the caller's C calls, the channels, and   *)
(* the worker's beginning and end.  The driver that runs in between is the *)
(* wasi:http host (HttpHandle) or the inference host (Inference), which    *)
(* extend this module.                                                     *)
(***************************************************************************)
EXTENDS Integers, Sequences

CONSTANT MaxPush        \* bound on the inbound frames a caller pushes

ASSUME MaxPushAssumption == MaxPush \in Nat

VARIABLES
  caller,    \* what the caller's thread is doing
  finished, result, status,   \* HwrP3Stream.finished, .result; last poll's value
  drained,   \* history: the outbound events the polls have returned
  events,    \* P3sEvent values sent and not yet received
  rxOpen,    \* FALSE once Drop has replaced the receiver
  inTx,      \* in_tx: TRUE while the caller can push
  inQ,       \* inbound frames sent and not yet received (frame numbers)
  inRx,      \* the receiver: "host", "taken" by a driver call, or "dropped"
  pushed,    \* history: how many frames the caller has pushed into the channel
  worker,    \* what the worker thread is doing
  outcome    \* what the driver returned, once it has

callerVars == <<caller, finished, result, status, drained>>
outVars    == <<events, rxOpen>>
inVars     == <<inTx, inQ, inRx, pushed>>
workerVars == <<worker, outcome>>
streamVars == <<callerVars, outVars, inVars, workerVars>>

Freeing == {"closing", "joining", "freed"}

Out(f)  == [kind |-> "out", frame |-> f]
OutEnd  == [kind |-> "end"]
Done(o) == [kind |-> "done", res |-> o]

StreamInit ==
  /\ caller = "none" /\ finished = FALSE /\ result = "empty" /\ status = "NONE"
  /\ drained = <<>>
  /\ events = <<>> /\ rxOpen = TRUE
  /\ inTx = TRUE /\ inQ = <<>> /\ inRx = "host" /\ pushed = 0
  /\ worker = "unborn" /\ outcome = "empty"

\* P3sOut::chunk / end, several in a row: a send on a closed channel is ignored.
Emit(es) == events' = IF rxOpen THEN events \o es ELSE events

-----------------------------------------------------------------------------
(* Faulty variants, for sensitivity checks; not part of any Next.          *)

\* Closing the inbound stream is left to the field drop, after the join.
FaultyFreeClose ==
  /\ caller = "idle"
  /\ caller' = "closing"
  /\ UNCHANGED <<finished, result, status, drained, outVars, inVars, workerVars>>

-----------------------------------------------------------------------------
(* The caller: the C ABI.                                                  *)

\* hwr_p3s_start_*: an engine and a component, then the worker is spawned.
Start ==
  /\ caller = "none"
  /\ caller' = "idle" /\ worker' = "setup"
  /\ UNCHANGED <<finished, result, status, drained, outVars, inVars, outcome>>

StartFails ==
  /\ caller = "none"
  /\ caller' = "refused"
  /\ UNCHANGED <<finished, result, status, drained, outVars, inVars, workerVars>>

PollFinished ==
  /\ caller = "idle" /\ finished
  /\ status' = "DONE"
  /\ UNCHANGED <<caller, finished, result, drained, outVars, inVars, workerVars>>

PollBlock ==
  /\ caller = "idle" /\ ~finished
  /\ caller' = "polling"
  /\ UNCHANGED <<finished, result, status, drained, outVars, inVars, workerVars>>

\* recv() returns the oldest event; Done finishes the session.
PollEvent ==
  /\ caller = "polling" /\ events # <<>>
  /\ LET e == Head(events) IN
     /\ events' = Tail(events)
     /\ drained' = Append(drained, e)
     /\ caller' = "idle"
     /\ finished' = (e.kind = "done")
     /\ result' = IF e.kind = "done" THEN e.res ELSE result
     /\ status' = CASE e.kind = "out" -> "OUT"
                    [] e.kind = "end" -> "OUT_END"
                    [] OTHER -> IF e.res = "output" THEN "DONE" ELSE "ERROR"
  /\ UNCHANGED <<rxOpen, inVars, workerVars>>

\* recv() fails: the worker vanished without a Done.
PollVanished ==
  /\ caller = "polling" /\ events = <<>> /\ worker = "exited"
  /\ finished' = TRUE /\ status' = "ERROR" /\ caller' = "idle"
  /\ UNCHANGED <<result, drained, outVars, inVars, workerVars>>

\* hwr_p3s_push: after push_end, or once the driver has dropped its receiver,
\* the frame is lost without a word (then nothing changes).
Push ==
  /\ caller = "idle" /\ pushed < MaxPush
  /\ inTx /\ inRx # "dropped"
  /\ pushed' = pushed + 1
  /\ inQ' = Append(inQ, pushed + 1)
  /\ UNCHANGED <<callerVars, outVars, inTx, inRx, workerVars>>

PushEnd ==
  /\ caller = "idle" /\ inTx
  /\ inTx' = FALSE
  /\ UNCHANGED <<callerVars, outVars, inQ, inRx, pushed, workerVars>>

\* hwr_p3s_free, drop(): close inbound, replace rx, join.
FreeClose ==
  /\ caller = "idle"
  /\ caller' = "closing"
  /\ inTx' = FALSE
  /\ UNCHANGED <<finished, result, status, drained, outVars, inQ, inRx, pushed, workerVars>>

FreeDisconnect ==
  /\ caller = "closing"
  /\ caller' = "joining"
  /\ rxOpen' = FALSE /\ events' = <<>>
  /\ UNCHANGED <<finished, result, status, drained, inVars, workerVars>>

FreeJoin ==
  /\ caller = "joining" /\ worker = "exited"
  /\ caller' = "freed"
  /\ UNCHANGED <<finished, result, status, drained, outVars, inVars, workerVars>>

PollReturn == PollEvent \/ PollVanished

Caller ==
  \/ Start \/ StartFails \/ PollFinished \/ PollBlock \/ PollReturn
  \/ Push \/ PushEnd \/ FreeClose \/ FreeDisconnect \/ FreeJoin

-----------------------------------------------------------------------------
(* The worker's beginning and end.                                         *)

\* Linker, host, Store, limiter, set_fuel: the guest can run.
DriverStarts ==
  /\ worker = "setup"
  /\ worker' = "running"
  /\ UNCHANGED <<callerVars, outVars, inVars, outcome>>

\* The driver returns: the store and the host are dropped, and with them
\* whoever held the inbound receiver and everything queued in it.
DriverReturns(o) ==
  /\ worker' = "finishing" /\ outcome' = o
  /\ inRx' = "dropped" /\ inQ' = <<>>
  /\ UNCHANGED <<callerVars, outVars, inTx, pushed>>

SendDone ==
  /\ worker = "finishing"
  /\ worker' = "exited"
  /\ Emit(<<Done(outcome)>>)
  /\ UNCHANGED <<callerVars, rxOpen, inVars, outcome>>

\* A panic unwinds the driver and the thread, without a Done.
WorkerPanic ==
  /\ worker \in {"setup", "running"}
  /\ worker' = "exited"
  /\ inRx' = "dropped" /\ inQ' = <<>>
  /\ UNCHANGED <<callerVars, outVars, inTx, pushed, outcome>>

-----------------------------------------------------------------------------
\* The events a driver with these frames may send.
Outcomes  == {"empty", "output", "error"}
Events(F) == {Out(f) : f \in F} \cup {OutEnd} \cup {Done(o) : o \in Outcomes}

\* Everything that has been sent to the caller, in the order it was sent; until
\* the receiver is replaced, nothing of it is lost.
Sent == drained \o events

\* The ranges of the transport's variables, for a driver with frames F.
StreamTypeOK(F) ==
  /\ caller \in {"none", "refused", "idle", "polling"} \cup Freeing
  /\ finished \in BOOLEAN /\ rxOpen \in BOOLEAN /\ inTx \in BOOLEAN
  /\ result \in Outcomes /\ outcome \in Outcomes
  /\ status \in {"NONE", "OUT", "OUT_END", "DONE", "ERROR"}
  /\ events \in Seq(Events(F)) /\ drained \in Seq(Events(F))
  /\ pushed \in 0..MaxPush
  /\ inQ \in Seq(1..MaxPush)
  /\ inRx \in {"host", "taken", "dropped"}
  /\ worker \in {"unborn", "setup", "running", "finishing", "exited"}
=============================================================================
