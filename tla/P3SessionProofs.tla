-------------------------- MODULE P3SessionProofs --------------------------
(***************************************************************************)
(* Proofs about P3Session, for every set of answers and every fuel budget. *)
(***************************************************************************)
EXTENDS P3Session, TLAPS

-----------------------------------------------------------------------------
(* The inductive invariant.                                                *)

\* Calls are numbered in the order they are made, and every call costs fuel.
CallsInv ==
  /\ worker \in {"unborn", "setup"} => calls = 0
  /\ worker \notin {"unborn", "setup"} => calls + fuel <= MaxFuel
  /\ worker = "awaiting" => calls \in CallIds
  /\ \A k \in CallIds : oneshot[k] = "unused" <=> k > calls

\* The session's own fields: a pending request has its responder beside it.
SessionInv ==
  /\ worker = "unborn" <=> caller \in {"none", "refused"}
  /\ rxOpen <=> caller \notin {"joining", "freed"}
  /\ caller \notin Freeing => pendingRequest = pendingRespond
  /\ caller \in Freeing => pendingRespond = NoCall
  /\ pendingRespond # NoCall => /\ worker = "awaiting"
                                /\ pendingRespond = calls
                                /\ oneshot[calls] = "open"
                                /\ events = <<>>
  /\ finished => worker = "exited" /\ events = <<>>

\* The channel is empty, or holds the call the worker is waiting for, or the
\* Done of a worker that has exited.
ChannelInv ==
  /\ \/ events = <<>>
     \/ /\ events = <<HostCall(calls)>>
        /\ worker = "awaiting" /\ oneshot[calls] = "open"
     \/ /\ events = <<Done(outcome)>>
        /\ worker = "exited" /\ outcome \in Outcomes
  /\ worker = "finishing" => outcome \in Outcomes
  /\ events # <<>> => rxOpen

\* A live responder belongs to the call in flight and is held somewhere.
ResponderInv ==
  \A k \in CallIds : oneshot[k] = "open" =>
    /\ k = calls
    /\ worker = "awaiting"
    /\ pendingRespond = k \/ events = <<HostCall(k)>>

\* What passes through the oneshots.
AnswerInv ==
  /\ \A k \in CallIds : oneshot[k] = "answered" => given[k] \in Answers /\ slot[k] = given[k]
  /\ \A k \in CallIds : got[k] \in Answers => got[k] = given[k] /\ oneshot[k] = "answered"
  /\ \A k \in CallIds : got[k] = Gone => oneshot[k] = "cancelled"
  /\ \A k \in CallIds : got[k] = NoAnswer <=> (k > calls \/ (k = calls /\ worker = "awaiting"))
  /\ \A k \in CallIds : oneshot[k] = "cancelled" => caller \in Freeing

Inv ==
  /\ TypeOK
  /\ CallsInv
  /\ SessionInv
  /\ ChannelInv
  /\ ResponderInv
  /\ AnswerInv


-----------------------------------------------------------------------------
\* Facts about one-element channels the provers would otherwise search for.
LEMMA SingletonChannel ==
  ASSUME NEW e
  PROVE  /\ <<e>> # <<>>
         /\ Head(<<e>>) = e
         /\ Tail(<<e>>) = <<>>
         /\ Append(<<>>, e) = <<e>>
  OBVIOUS

\* The two constructors of P3Event are distinct and injective.
LEMMA EventKinds ==
  /\ \A k : HostCall(k).kind = "call" /\ HostCall(k).id = k
  /\ \A o : Done(o).kind = "done" /\ Done(o).res = o
  /\ \A j, k : HostCall(j) = HostCall(k) => j = k
  /\ \A k, o : HostCall(k) # Done(o)
  BY DEF HostCall, Done

\* In a reachable state "call k is in the channel" means it is all the channel holds.
LEMMA BufferedCall ==
  ASSUME Inv
  PROVE  \A k \in CallIds : Buffered(k) <=> events = <<HostCall(k)>>
  <1>1. CASE events = <<>>
    BY <1>1, SingletonChannel DEF Buffered
  <1>2. ASSUME NEW e, events = <<e>> PROVE \A k : Buffered(k) <=> e = HostCall(k)
    BY <1>2 DEF Buffered
  <1>3. \A e, f : <<e>> = <<f>> <=> e = f
    OBVIOUS
  <1> QED BY <1>1, <1>2, <1>3 DEF Inv, ChannelInv

\* The fresh state, before any hwr_p3_start*, satisfies Inv.
LEMMA InitInv == Init => Inv
  <1> SUFFICES ASSUME Init PROVE Inv
    OBVIOUS
  <1> USE DEF Init
  <1>1. TypeOK
    <2>1. events \in Seq(Events)
      OBVIOUS
    <2>2. /\ oneshot \in [CallIds -> {"unused", "open", "answered", "cancelled"}]
          /\ slot \in [CallIds -> Answers \cup {NoAnswer}]
          /\ given \in [CallIds -> Answers \cup {NoAnswer}]
          /\ got \in [CallIds -> Answers \cup {NoAnswer, Gone}]
      OBVIOUS
    <2>3. fuel \in 0..MaxFuel /\ calls \in 0..MaxFuel /\ fuelOverride \in 0..MaxFuel
      BY FuelAssumption
    <2>4. finished \in BOOLEAN /\ rxOpen \in BOOLEAN
      OBVIOUS
    <2> QED BY <2>1, <2>2, <2>3, <2>4 DEF TypeOK, CallerStates, WorkerStates, Modes, Empty
  <1>2. CallsInv
    BY DEF CallsInv, CallIds
  <1>3. SessionInv
    BY DEF SessionInv, Freeing
  <1>4. ChannelInv
    BY DEF ChannelInv
  <1>5. ResponderInv
    BY DEF ResponderInv
  <1>6. AnswerInv
    BY AnswersAssumption DEF AnswerInv, CallIds
  <1> QED BY <1>1, <1>2, <1>3, <1>4, <1>5, <1>6 DEF Inv


\* hwr_p3_start* creates the worker and nothing else: all fields are fresh.
LEMMA StartInv ==
  ASSUME Inv, Start
  PROVE  Inv'
  <1> USE DEF Inv, Start, chanVars, histVars
  <1>1. TypeOK'
    BY DEF TypeOK, CallerStates, WorkerStates
  <1>2. CallsInv'
    BY DEF CallsInv, SessionInv
  <1>3. SessionInv'
    BY DEF SessionInv, Freeing
  <1>4. ChannelInv'
    BY DEF ChannelInv, SessionInv
  <1>5. ResponderInv'
    BY DEF ResponderInv, SessionInv
  <1>6. AnswerInv'
    BY DEF AnswerInv, SessionInv, Freeing
  <1> QED BY <1>1, <1>2, <1>3, <1>4, <1>5, <1>6 DEF Inv

\* A refused start leaves no worker and no session behind.
LEMMA StartFailsInv ==
  ASSUME Inv, StartFails
  PROVE  Inv'
  <1> USE DEF Inv, StartFails, chanVars, workerVars, histVars
  <1>1. TypeOK'
    BY DEF TypeOK, CallerStates
  <1>2. CallsInv'
    BY DEF CallsInv
  <1>3. SessionInv'
    BY DEF SessionInv, Freeing
  <1>4. ChannelInv'
    BY DEF ChannelInv
  <1>5. ResponderInv'
    BY DEF ResponderInv
  <1>6. AnswerInv'
    BY DEF AnswerInv, Freeing
  <1> QED BY <1>1, <1>2, <1>3, <1>4, <1>5, <1>6 DEF Inv

\* poll on a finished session only sets the status.
LEMMA PollFinishedInv ==
  ASSUME Inv, PollFinished
  PROVE  Inv'
  <1> USE DEF Inv, PollFinished, chanVars, workerVars, histVars
  <1>1. TypeOK'
    BY DEF TypeOK
  <1>2. CallsInv'
    BY DEF CallsInv
  <1>3. SessionInv'
    BY DEF SessionInv
  <1>4. ChannelInv'
    BY DEF ChannelInv
  <1>5. ResponderInv'
    BY DEF ResponderInv
  <1>6. AnswerInv'
    BY DEF AnswerInv
  <1> QED BY <1>1, <1>2, <1>3, <1>4, <1>5, <1>6 DEF Inv

\* Entering rx.recv() keeps the pending call and its responder.
LEMMA PollBlockInv ==
  ASSUME Inv, PollBlock
  PROVE  Inv'
  <1> USE DEF Inv, PollBlock, chanVars, workerVars, histVars
  <1>1. TypeOK'
    BY DEF TypeOK, CallerStates
  <1>2. CallsInv'
    BY DEF CallsInv
  <1>3. SessionInv'
    BY DEF SessionInv, Freeing
  <1>4. ChannelInv'
    BY DEF ChannelInv
  <1>5. ResponderInv'
    BY DEF ResponderInv
  <1>6. AnswerInv'
    BY DEF AnswerInv, Freeing
  <1> QED BY <1>1, <1>2, <1>3, <1>4, <1>5, <1>6 DEF Inv

\* poll moves the responder out of the received event into the session.
LEMMA PollHostCallInv ==
  ASSUME Inv, PollHostCall
  PROVE  Inv'
  <1> USE DEF Inv
  <1>1. pendingRespond = NoCall
    BY DEF PollHostCall, SessionInv
  <1>2. /\ caller = "polling" /\ events # <<>> /\ Head(events).kind = "call"
        /\ pendingRequest' = Head(events).id /\ pendingRespond' = Head(events).id
        /\ status' = "PENDING" /\ caller' = "idle" /\ events' = Tail(events)
        /\ UNCHANGED <<result, finished, rxOpen, oneshot, slot, mode, worker, fuel, calls,
                       outcome, fuelOverride, given, got>>
    BY <1>1 DEF PollHostCall, Cancel, workerVars, histVars
  <1>3. TypeOK'
    BY <1>2, EventKinds DEF TypeOK, ChannelInv, CallerStates, Events
  <1>4. CallsInv'
    BY <1>2 DEF CallsInv
  <1>5. SessionInv'
    BY <1>2, EventKinds DEF SessionInv, ChannelInv, Outcomes, Freeing
  <1>6. ChannelInv'
    BY <1>2 DEF ChannelInv
  <1>7. ResponderInv'
    BY <1>2, EventKinds DEF ResponderInv, SessionInv, NoCall, CallIds
  <1>8. AnswerInv'
    BY <1>2 DEF AnswerInv, Freeing
  <1> QED BY <1>3, <1>4, <1>5, <1>6, <1>7, <1>8

\* The Done event is the last one: the worker has exited when poll reads it.
LEMMA PollDoneInv ==
  ASSUME Inv, PollDone
  PROVE  Inv'
  <1> USE DEF Inv, PollDone, workerVars, histVars
  <1>1. TypeOK'
    BY EventKinds DEF TypeOK, ChannelInv, CallerStates
  <1>2. CallsInv'
    BY DEF CallsInv
  <1>3. SessionInv'
    BY EventKinds DEF SessionInv, ChannelInv, Freeing
  <1>4. ChannelInv'
    BY DEF ChannelInv, Messages
  <1>5. ResponderInv'
    BY EventKinds DEF ResponderInv
  <1>6. AnswerInv'
    BY DEF AnswerInv, Freeing
  <1> QED BY <1>1, <1>2, <1>3, <1>4, <1>5, <1>6 DEF Inv

\* recv() fails only when the worker is gone, so nothing was in flight.
LEMMA PollVanishedInv ==
  ASSUME Inv, PollVanished
  PROVE  Inv'
  <1> USE DEF Inv, PollVanished, chanVars, workerVars, histVars
  <1>1. TypeOK'
    BY DEF TypeOK, CallerStates
  <1>2. CallsInv'
    BY DEF CallsInv
  <1>3. SessionInv'
    BY DEF SessionInv, Freeing
  <1>4. ChannelInv'
    BY DEF ChannelInv
  <1>5. ResponderInv'
    BY DEF ResponderInv
  <1>6. AnswerInv'
    BY DEF AnswerInv, Freeing
  <1> QED BY <1>1, <1>2, <1>3, <1>4, <1>5, <1>6 DEF Inv

\* resolve uses up the responder of the call in flight, and stores its answer
\* under the request it was read with.
LEMMA ResolveInv ==
  ASSUME Inv, NEW a \in Answers, Resolve(a)
  PROVE  Inv'
  <1> USE DEF Inv, Resolve, workerVars
  <1>1. TypeOK'
    <2>1. CASE pendingRespond = NoCall
      BY <2>1 DEF TypeOK, CallIds, NoCall
    <2>2. CASE pendingRespond # NoCall
      <3>1. pendingRespond \in CallIds /\ pendingRequest = pendingRespond
        BY <2>2 DEF TypeOK, SessionInv, NoCall, CallIds, Freeing
      <3> QED BY <2>2, <3>1, FuelAssumption DEF TypeOK, NoCall
    <2> QED BY <2>1, <2>2
  <1>2. CallsInv'
    BY FuelAssumption DEF CallsInv, TypeOK, SessionInv
  <1>3. SessionInv'
    BY DEF SessionInv
  <1>4. ChannelInv'
    BY FuelAssumption DEF ChannelInv, SessionInv
  <1>5. ResponderInv'
    BY FuelAssumption DEF ResponderInv, TypeOK
  <1>6. AnswerInv'
    <2>1. CASE pendingRespond = NoCall
      BY <2>1 DEF AnswerInv, TypeOK, NoCall
    <2>2. CASE pendingRespond # NoCall
      <3>1. /\ pendingRespond \in CallIds /\ pendingRequest = pendingRespond
            /\ pendingRespond = calls /\ worker = "awaiting"
            /\ oneshot[pendingRespond] = "open"
        BY <2>2 DEF TypeOK, SessionInv, NoCall, CallIds, Freeing
      <3> QED BY <2>2, <3>1, FuelAssumption, AnswersAssumption DEF AnswerInv, TypeOK, NoCall
    <2> QED BY <2>1, <2>2
  <1> QED BY <1>1, <1>2, <1>3, <1>4, <1>5, <1>6 DEF Inv

\* drop() cancels the call in flight if the session holds its responder.
LEMMA FreeCancelInv ==
  ASSUME Inv, FreeCancel
  PROVE  Inv'
  <1> USE DEF Inv, FreeCancel, workerVars, histVars
  <1>1. TypeOK'
    BY DEF TypeOK, Freeing, CallerStates, Cancel
  <1>2. CallsInv'
    BY DEF CallsInv, SessionInv, Cancel
  <1>3. SessionInv'
    BY DEF SessionInv, Freeing, Cancel
  <1>4. ChannelInv'
    BY DEF ChannelInv, SessionInv, Cancel
  <1>5. ResponderInv'
    BY DEF ResponderInv, TypeOK, Cancel
  <1>6. AnswerInv'
    BY DEF AnswerInv, SessionInv, Freeing, Cancel
  <1> QED BY <1>1, <1>2, <1>3, <1>4, <1>5, <1>6 DEF Inv

\* Dropping rx cancels the call in flight if its event was never received; no
\* other oneshot is touched.
LEMMA FreeDisconnectInv ==
  ASSUME Inv, FreeDisconnect
  PROVE  Inv'
  <1> USE DEF Inv
  <1>1. oneshot' \in [CallIds -> {"unused", "open", "answered", "cancelled"}]
    BY DEF FreeDisconnect, TypeOK
  <1>2. \A k \in CallIds : oneshot'[k] = IF Buffered(k) THEN "cancelled" ELSE oneshot[k]
    BY DEF FreeDisconnect
  <1>3. /\ caller = "cancelled" /\ caller' = "joining"
        /\ rxOpen' = FALSE /\ events' = <<>>
        /\ UNCHANGED <<pendingRequest, pendingRespond, result, finished, status, slot,
                       mode, worker, fuel, calls, outcome, fuelOverride, given, got>>
    BY DEF FreeDisconnect, workerVars, histVars
  <1>4. \A k \in CallIds : Buffered(k) => k = calls /\ oneshot[k] = "open"
    BY BufferedCall, EventKinds, SingletonChannel DEF ChannelInv
  <1>5. TypeOK'
    <2>1. caller' \in CallerStates /\ rxOpen' \in BOOLEAN
      BY <1>3 DEF CallerStates, Freeing
    <2>2. events' \in Seq(Events)
      BY <1>3
    <2>3. UNCHANGED <<finished, pendingRequest, pendingRespond, result, status, slot,
                      mode, worker, fuel, calls, outcome, fuelOverride, given, got>>
      BY <1>3
    <2> QED BY <1>1, <2>1, <2>2, <2>3 DEF TypeOK
  <1>6. CallsInv'
    BY <1>2, <1>3, <1>4 DEF CallsInv
  <1>7. SessionInv'
    BY <1>3 DEF SessionInv, Freeing
  <1>8. ChannelInv'
    BY <1>3 DEF ChannelInv
  <1>9. ResponderInv'
    BY <1>2, <1>3, BufferedCall DEF ResponderInv, SessionInv, Freeing
  <1>10. AnswerInv'
    BY <1>2, <1>3, <1>4 DEF AnswerInv, Freeing
  <1> QED BY <1>5, <1>6, <1>7, <1>8, <1>9, <1>10

\* The join returns with the worker exited.
LEMMA FreeJoinInv ==
  ASSUME Inv, FreeJoin
  PROVE  Inv'
  <1> USE DEF Inv, FreeJoin, chanVars, workerVars, histVars
  <1>1. TypeOK'
    BY DEF TypeOK, Freeing, CallerStates
  <1>2. CallsInv'
    BY DEF CallsInv
  <1>3. SessionInv'
    BY DEF SessionInv, Freeing
  <1>4. ChannelInv'
    BY DEF ChannelInv
  <1>5. ResponderInv'
    BY DEF ResponderInv
  <1>6. AnswerInv'
    BY DEF AnswerInv, Freeing
  <1> QED BY <1>1, <1>2, <1>3, <1>4, <1>5, <1>6 DEF Inv

\* hwr_set_fuel_budget writes FUEL_OVERRIDE and nothing of the session.
LEMMA SetFuelBudgetInv ==
  ASSUME Inv, NEW n \in Budgets, SetFuelBudget(n)
  PROVE  Inv'
  <1> USE DEF Inv, SetFuelBudget, callerVars, chanVars, workerVars, histVars
  <1>1. TypeOK'
    BY FuelAssumption DEF TypeOK
  <1>2. CallsInv'
    BY DEF CallsInv
  <1>3. SessionInv'
    BY DEF SessionInv
  <1>4. ChannelInv'
    BY DEF ChannelInv
  <1>5. ResponderInv'
    BY DEF ResponderInv
  <1>6. AnswerInv'
    BY DEF AnswerInv
  <1> QED BY <1>1, <1>2, <1>3, <1>4, <1>5, <1>6 DEF Inv

\* The worker takes its budget from FUEL_OVERRIDE, which is in range.
LEMMA WorkerSetupInv ==
  ASSUME Inv, WorkerSetup
  PROVE  Inv'
  <1> USE DEF Inv, WorkerSetup, callerVars, chanVars, histVars
  <1>1. TypeOK'
    BY FuelAssumption DEF TypeOK, WorkerStates, FuelBudget
  <1>2. CallsInv'
    BY FuelAssumption DEF CallsInv, TypeOK, FuelBudget
  <1>3. SessionInv'
    BY DEF SessionInv, FuelBudget
  <1>4. ChannelInv'
    BY DEF ChannelInv, FuelBudget
  <1>5. ResponderInv'
    BY DEF ResponderInv, FuelBudget
  <1>6. AnswerInv'
    BY DEF AnswerInv, FuelBudget
  <1> QED BY <1>1, <1>2, <1>3, <1>4, <1>5, <1>6 DEF Inv

\* The drive returns only between two calls, never while one is in flight.
LEMMA DriveReturnsInv ==
  ASSUME Inv, NEW o \in Outcomes, DriveReturns(o)
  PROVE  Inv'
  <1> USE DEF Inv, DriveReturns, callerVars, chanVars, histVars
  <1>1. TypeOK'
    BY DEF TypeOK, WorkerStates
  <1>2. CallsInv'
    BY DEF CallsInv, TypeOK
  <1>3. SessionInv'
    BY DEF SessionInv
  <1>4. ChannelInv'
    BY DEF ChannelInv
  <1>5. ResponderInv'
    BY DEF ResponderInv
  <1>6. AnswerInv'
    BY DEF AnswerInv
  <1> QED BY <1>1, <1>2, <1>3, <1>4, <1>5, <1>6 DEF Inv

\* Guest execution only burns fuel.
LEMMA GuestComputeInv ==
  ASSUME Inv, GuestCompute
  PROVE  Inv'
  <1> USE DEF Inv, GuestCompute, callerVars, chanVars, histVars
  <1>1. TypeOK'
    BY FuelAssumption DEF TypeOK
  <1>2. CallsInv'
    BY FuelAssumption DEF CallsInv, TypeOK
  <1>3. SessionInv'
    BY DEF SessionInv
  <1>4. ChannelInv'
    BY DEF ChannelInv
  <1>5. ResponderInv'
    BY DEF ResponderInv
  <1>6. AnswerInv'
    BY DEF AnswerInv
  <1> QED BY <1>1, <1>2, <1>3, <1>4, <1>5, <1>6 DEF Inv

\* A host call opens the next oneshot and finds the channel empty.
LEMMA GuestCallInv ==
  ASSUME Inv, GuestCall
  PROVE  Inv'
  <1> USE DEF Inv, GuestCall, callerVars, histVars
  <1>1. TypeOK'
    <2>1. calls + 1 \in CallIds /\ fuel - 1 \in 0..MaxFuel
      BY FuelAssumption DEF TypeOK, CallsInv, CallIds
    <2>2. HostCall(calls + 1) \in Events
      BY <2>1 DEF Events
    <2>3. events' \in Seq(Events)
      BY <2>2 DEF TypeOK
    <2>4. calls' \in 0..MaxFuel /\ fuel' \in 0..MaxFuel
      BY <2>1, FuelAssumption DEF CallIds
    <2> QED BY <2>1, <2>3, <2>4 DEF TypeOK, WorkerStates
  <1>2. CallsInv'
    BY FuelAssumption DEF CallsInv, TypeOK, CallIds
  <1>3. SessionInv'
    BY DEF SessionInv
  <1>4. ChannelInv'
    BY FuelAssumption DEF ChannelInv, TypeOK, CallsInv, CallIds
  <1>5. ResponderInv'
    BY DEF ResponderInv, ChannelInv
  <1>6. AnswerInv'
    BY DEF AnswerInv, TypeOK, CallsInv, CallIds
  <1> QED BY <1>1, <1>2, <1>3, <1>4, <1>5, <1>6 DEF Inv

\* With the receiver gone the call is cancelled as it is made.
LEMMA GuestCallGoneInv ==
  ASSUME Inv, GuestCallGone
  PROVE  Inv'
  <1> USE DEF Inv, GuestCallGone, callerVars
  <1>1. TypeOK'
    BY FuelAssumption DEF TypeOK, CallsInv, CallIds, WorkerStates
  <1>2. CallsInv'
    BY FuelAssumption DEF CallsInv, TypeOK, CallIds
  <1>3. SessionInv'
    BY DEF SessionInv
  <1>4. ChannelInv'
    BY DEF ChannelInv
  <1>5. ResponderInv'
    BY DEF ResponderInv
  <1>6. AnswerInv'
    BY FuelAssumption, AnswersAssumption, EventKinds DEF AnswerInv, TypeOK,
       SessionInv, Freeing
  <1> QED BY <1>1, <1>2, <1>3, <1>4, <1>5, <1>6 DEF Inv

\* The answer in the slot is the one given for this request.
LEMMA AwaitAnsweredInv ==
  ASSUME Inv, AwaitAnswered
  PROVE  Inv'
  <1> USE DEF Inv, AwaitAnswered, callerVars, chanVars
  <1>1. TypeOK'
    BY DEF TypeOK, CallsInv, WorkerStates
  <1>2. CallsInv'
    BY DEF CallsInv
  <1>3. SessionInv'
    BY DEF SessionInv
  <1>4. ChannelInv'
    BY DEF ChannelInv
  <1>5. ResponderInv'
    BY DEF ResponderInv
  <1>6. AnswerInv'
    BY AnswersAssumption DEF AnswerInv, TypeOK
  <1> QED BY <1>1, <1>2, <1>3, <1>4, <1>5, <1>6 DEF Inv

\* A cancelled call fails the guest or the run; the session is being freed.
LEMMA AwaitCancelledInv ==
  ASSUME Inv, AwaitCancelled
  PROVE  Inv'
  <1> USE DEF Inv, AwaitCancelled, callerVars, chanVars
  <1>1. TypeOK'
    BY DEF TypeOK, CallsInv, Outcomes, Messages, WorkerStates
  <1>2. CallsInv'
    BY DEF CallsInv
  <1>3. SessionInv'
    BY DEF SessionInv
  <1>4. ChannelInv'
    BY DEF ChannelInv, Outcomes, Messages
  <1>5. ResponderInv'
    BY DEF ResponderInv
  <1>6. AnswerInv'
    BY AnswersAssumption DEF AnswerInv, TypeOK
  <1> QED BY <1>1, <1>2, <1>3, <1>4, <1>5, <1>6 DEF Inv

\* Done is sent into an empty channel.
LEMMA SendDoneInv ==
  ASSUME Inv, SendDone
  PROVE  Inv'
  <1> USE DEF Inv, SendDone, callerVars, histVars
  <1>1. TypeOK'
    <2>1. outcome \in Outcomes
      BY DEF ChannelInv
    <2>2. Done(outcome) \in Events
      BY <2>1 DEF Events
    <2>3. events' \in Seq(Events)
      BY <2>2 DEF TypeOK
    <2> QED BY <2>3 DEF TypeOK, WorkerStates
  <1>2. CallsInv'
    BY DEF CallsInv
  <1>3. SessionInv'
    BY DEF SessionInv
  <1>4. ChannelInv'
    BY DEF ChannelInv
  <1>5. ResponderInv'
    BY DEF ResponderInv
  <1>6. AnswerInv'
    BY DEF AnswerInv
  <1> QED BY <1>1, <1>2, <1>3, <1>4, <1>5, <1>6 DEF Inv

\* A panic leaves no call in flight.
LEMMA WorkerPanicInv ==
  ASSUME Inv, WorkerPanic
  PROVE  Inv'
  <1> USE DEF Inv, WorkerPanic, callerVars, chanVars, histVars
  <1>1. TypeOK'
    BY DEF TypeOK, WorkerStates
  <1>2. CallsInv'
    BY DEF CallsInv, TypeOK
  <1>3. SessionInv'
    BY DEF SessionInv
  <1>4. ChannelInv'
    BY DEF ChannelInv
  <1>5. ResponderInv'
    BY DEF ResponderInv
  <1>6. AnswerInv'
    BY DEF AnswerInv
  <1> QED BY <1>1, <1>2, <1>3, <1>4, <1>5, <1>6 DEF Inv

-----------------------------------------------------------------------------
\* A step that changes nothing preserves anything.
LEMMA StutterInv ==
  ASSUME Inv, UNCHANGED vars
  PROVE  Inv'
  BY DEF Inv, TypeOK, CallsInv, SessionInv, ChannelInv, ResponderInv, AnswerInv, vars,
         callerVars, chanVars, workerVars, histVars

\* Every step of either thread preserves Inv.
LEMMA NextInv == Inv /\ [Next]_vars => Inv'
  <1> SUFFICES ASSUME Inv, [Next]_vars PROVE Inv'
    OBVIOUS
  <1>1. CASE UNCHANGED vars
    BY <1>1, StutterInv
  <1>2. CASE Start \/ StartFails
    BY <1>2, StartInv, StartFailsInv
  <1>3. CASE PollFinished \/ PollBlock \/ PollReturn
    BY <1>3, PollFinishedInv, PollBlockInv, PollHostCallInv, PollDoneInv, PollVanishedInv
       DEF PollReturn
  <1>4. CASE \E a \in Answers : Resolve(a)
    BY <1>4, ResolveInv
  <1>5. CASE Free
    BY <1>5, FreeCancelInv, FreeDisconnectInv, FreeJoinInv DEF Free
  <1>6. CASE \E n \in Budgets : SetFuelBudget(n)
    BY <1>6, SetFuelBudgetInv
  <1>7. CASE WorkerSetup \/ \E o \in Outcomes : DriveReturns(o)
    BY <1>7, WorkerSetupInv, DriveReturnsInv
  <1>8. CASE GuestCompute \/ GuestCall \/ GuestCallGone
    BY <1>8, GuestComputeInv, GuestCallInv, GuestCallGoneInv
  <1>9. CASE AwaitAnswered \/ AwaitCancelled
    BY <1>9, AwaitAnsweredInv, AwaitCancelledInv
  <1>10. CASE SendDone \/ WorkerPanic
    BY <1>10, SendDoneInv, WorkerPanicInv
  <1> QED BY <1>1, <1>2, <1>3, <1>4, <1>5, <1>6, <1>7, <1>8, <1>9, <1>10
          DEF Next, Caller, Worker

\* The two threads keep Inv for ever: the fields of HwrP3Session, the channel
\* and the oneshots stay in step over any interleaving of the C calls with the
\* worker.
THEOREM Invariance == Spec => []Inv
  BY InitInv, NextInv, PTL DEF Spec

\* Every variable of the session and of its worker keeps its type; in
\* particular fuel never goes below zero and no run makes more calls than its
\* budget allows.
THEOREM TypeCorrect == Spec => []TypeOK
  <1>1. Inv => TypeOK
    BY DEF Inv
  <1> QED BY <1>1, Invariance, PTL

\* hwr_p3_resolve answers the request that hwr_p3_poll surfaced: the guest's
\* k-th call never returns the answer to another one.
THEOREM AnswersMatch == Spec => []AnswerReachesItsCall
  <1>1. Inv => AnswerReachesItsCall
    BY DEF Inv, AnswerInv, AnswerReachesItsCall
  <1> QED BY <1>1, Invariance, PTL

\* In a state that satisfies Inv a live responder is in one place.
LEMMA HeldOnce ==
  ASSUME Inv, NEW k \in CallIds
  PROVE  /\ oneshot[k] = "open" <=> (Buffered(k) # (pendingRespond = k))
         /\ pendingRespond = k => oneshot[k] = "open" /\ ~Buffered(k)
  <1>1. Buffered(k) <=> events = <<HostCall(k)>>
    BY BufferedCall
  <1>2. Buffered(k) \in BOOLEAN
    BY DEF Buffered
  <1>3. pendingRespond = k => events = <<>> /\ oneshot[k] = "open"
    BY FuelAssumption DEF Inv, SessionInv, CallIds, NoCall
  <1>4. events = <<HostCall(k)>> => oneshot[k] = "open"
    BY EventKinds, SingletonChannel DEF Inv, ChannelInv
  <1>5. oneshot[k] = "open" => pendingRespond = k \/ events = <<HostCall(k)>>
    BY DEF Inv, ResponderInv
  <1>6. <<HostCall(k)>> # <<>>
    BY SingletonChannel
  <1> QED BY <1>1, <1>2, <1>3, <1>4, <1>5, <1>6

\* poll moves the oneshot's Sender out of the event into the session, resolve
\* and drop out of the session: at every moment it is in one place.
THEOREM RespondersHeldOnce == Spec => []ResponderHeldOnce
  <1>1. Inv => ResponderHeldOnce
    BY HeldOnce DEF ResponderHeldOnce
  <1> QED BY <1>1, Invariance, PTL

\* The unbounded mpsc channel behaves as a one-place buffer: the worker sends
\* only when what it sent before has been received.
THEOREM ChannelBound == Spec => []OneEventInFlight
  <1>1. Len(<<>>) <= 1 /\ \A e : Len(<<e>>) <= 1
    OBVIOUS
  <1>2. Inv => OneEventInFlight
    BY <1>1 DEF Inv, ChannelInv, OneEventInFlight
  <1> QED BY <1>2, Invariance, PTL

\* Once poll has set `finished` there is no worker left, nothing unread in the
\* channel and no responder waiting for an answer.
THEOREM FinishedFinal == Spec => []FinishedIsFinal
  <1>1. Inv => FinishedIsFinal
    BY DEF Inv, SessionInv, ResponderInv, FinishedIsFinal
  <1> QED BY <1>1, Invariance, PTL

\* poll blocked in rx.recv() while the worker waits for an answer that can only
\* come from the polling thread: this needs a poll made with that call pending.
THEOREM NoOtherWedge == Spec => []WedgeOnlyByRepoll
  <1>1. Inv => WedgeOnlyByRepoll
    BY SingletonChannel DEF Inv, CallsInv, ResponderInv, WedgeOnlyByRepoll
  <1> QED BY <1>1, Invariance, PTL

\* The import futures see a dropped Sender only after drop() of the session has
\* begun: polling, resolving or finishing never cancels a call.
THEOREM CancelsComeFromFree == Spec => []CancelOnlyByFree
  <1>1. Inv => CancelOnlyByFree
    BY DEF Inv, AnswerInv, CancelOnlyByFree
  <1> QED BY <1>1, Invariance, PTL

-----------------------------------------------------------------------------
(* The session implements HostCalls.                                       *)

\* The phase HostCalls sees, as a function.
Phase == [k \in CallIds |-> CallPhase(k)]

\* What is buffered in an empty channel and in one that holds a single event.
LEMMA BufferedIn ==
  /\ events = <<>> => \A k : ~Buffered(k)
  /\ \A e : events = <<e>> => \A k : Buffered(k) <=> e = HostCall(k)
  BY DEF Buffered

\* The same of the next state.
LEMMA BufferedInNext ==
  /\ events' = <<>> => \A k : ~Buffered(k)'
  /\ \A e : events' = <<e>> => \A k : Buffered(k)' <=> e = HostCall(k)
  BY DEF Buffered

\* A call whose oneshot, value and event are left alone keeps its phase.
LEMMA SamePhase ==
  ASSUME NEW k, oneshot'[k] = oneshot[k], got'[k] = got[k], Buffered(k)' <=> Buffered(k)
  PROVE  CallPhase(k)' = CallPhase(k)
  BY DEF CallPhase

\* A step that moves one call changes one value of Phase.
LEMMA OnePhaseMoves ==
  ASSUME NEW k \in CallIds, NEW p, CallPhase(k)' = p,
         \A j \in CallIds \ {k} : CallPhase(j)' = CallPhase(j)
  PROVE  Phase' = [Phase EXCEPT ![k] = p]
  BY DEF Phase

\* A step that leaves every oneshot, value and buffered call alone, and does
\* not touch the life of the session, is invisible.
LEMMA InvisibleStep ==
  ASSUME UNCHANGED <<oneshot, got, given>>, ServiceState' = ServiceState,
         \A k \in CallIds : Buffered(k)' <=> Buffered(k)
  PROVE  UNCHANGED HC!vars
  <1>1. \A k \in CallIds : CallPhase(k)' = CallPhase(k)
    BY SamePhase
  <1>2. [k \in CallIds |-> CallPhase(k)]' = [k \in CallIds |-> CallPhase(k)]
    BY <1>1
  <1> QED BY <1>2 DEF HC!vars

\* The fresh session is the service with every call idle.
LEMMA InitRefines == Init => HC!Init
  <1> SUFFICES ASSUME Init PROVE HC!Init
    OBVIOUS
  <1>1. \A k \in CallIds : CallPhase(k) = "idle"
    BY AnswersAssumption DEF Init, CallPhase
  <1>2. [k \in CallIds |-> CallPhase(k)] = [k \in CallIds |-> "idle"]
    BY <1>1
  <1>3. ServiceState = "open"
    BY DEF Init, ServiceState
  <1> QED BY <1>2, <1>3 DEF Init, HC!Init, HC!CallIds, CallIds

\* Every call made so far has been settled while the guest runs, and the later
\* ones are idle: the next call is call calls + 1.
LEMMA NextCall ==
  ASSUME Inv, worker = "guest", fuel > 0
  PROVE  /\ calls + 1 \in CallIds /\ HC!IsNext(calls + 1)
         /\ calls + 1 \in HC!CallIds
  <1>1. calls \in 0..MaxFuel /\ fuel \in 0..MaxFuel /\ calls + fuel <= MaxFuel
    BY DEF Inv, TypeOK, CallsInv
  <1>2. calls + 1 \in CallIds
    BY <1>1, FuelAssumption DEF CallIds
  <1>3. \A j \in CallIds : j > calls => CallPhase(j) = "idle"
    <2> SUFFICES ASSUME NEW j \in CallIds, j > calls PROVE CallPhase(j) = "idle"
      OBVIOUS
    <2>1. oneshot[j] = "unused" /\ got[j] = NoAnswer
      BY DEF Inv, CallsInv, AnswerInv
    <2> QED BY <2>1, AnswersAssumption DEF CallPhase
  <1>4. \A j \in CallIds : j < calls + 1 => CallPhase(j) \in {"returned", "failed"}
    <2> SUFFICES ASSUME NEW j \in CallIds, j < calls + 1 PROVE CallPhase(j) \in {"returned", "failed"}
      OBVIOUS
    <2>1. ~(j > calls) /\ got[j] # NoAnswer
      BY <1>1 DEF Inv, AnswerInv, CallIds
    <2>2. got[j] = Gone \/ got[j] \in Answers
      BY <2>1 DEF Inv, TypeOK
    <2> QED BY <2>2 DEF CallPhase
  <1>5. \A j \in CallIds : j > calls + 1 => j > calls
    BY <1>1 DEF CallIds
  <1>6. calls + 1 > calls
    BY <1>1
  <1> QED BY <1>2, <1>3, <1>4, <1>5, <1>6 DEF HC!IsNext, HC!CallIds, HC!Settled, CallIds

\* GuestCall and GuestCallGone make the next call: it is shown to the
\* application, or fails at once or later because the session is gone.
LEMMA IssueRefines ==
  ASSUME Inv, Inv', GuestCall \/ GuestCallGone
  PROVE  HC!Next
  <1> USE DEF callerVars, chanVars, workerVars, histVars
  <1>0. PICK k \in CallIds : k = calls + 1
    BY NextCall DEF GuestCall, GuestCallGone
  <1>1. k \in CallIds /\ HC!IsNext(k) /\ k \in HC!CallIds
    BY <1>0, NextCall DEF GuestCall, GuestCallGone
  <1>2. UNCHANGED <<caller, given>> /\ ServiceState' = ServiceState
    BY DEF GuestCall, GuestCallGone, ServiceState
  <1>3. oneshot \in [CallIds -> {"unused", "open", "answered", "cancelled"}]
        /\ got \in [CallIds -> Answers \cup {NoAnswer, Gone}]
    BY DEF Inv, TypeOK
  <1>4. k > calls
    BY <1>0 DEF Inv, TypeOK
  <1>5. oneshot[k] = "unused" /\ got[k] = NoAnswer
    BY <1>1, <1>4 DEF Inv, CallsInv, AnswerInv
  <1>6. events = <<>>
    BY DEF GuestCall, GuestCallGone, Inv, ChannelInv
  <1>7. CASE GuestCall
    <2>1. events' = <<HostCall(k)>>
      BY <1>0, <1>6, <1>7, SingletonChannel DEF GuestCall
    <2>2. \A j \in CallIds : ~Buffered(j) /\ (Buffered(j)' <=> j = k)
      BY <1>6, <2>1, BufferedIn, BufferedInNext, EventKinds
    <2>3. oneshot' = [oneshot EXCEPT ![k] = "open"] /\ got' = got
      BY <1>0, <1>7 DEF GuestCall
    <2>4. CallPhase(k)' = "issued"
      BY <1>1, <1>3, <1>5, <2>2, <2>3, AnswersAssumption DEF CallPhase
    <2>5. \A j \in CallIds \ {k} : CallPhase(j)' = CallPhase(j)
      BY <1>1, <1>3, <2>2, <2>3, SamePhase
    <2>6. Phase' = [Phase EXCEPT ![k] = "issued"]
      BY <1>1, <2>4, <2>5, OnePhaseMoves
    <2>7. ServiceState # "closed"
      BY <1>7 DEF GuestCall, Inv, SessionInv, ServiceState
    <2>8. HC!Issue(k)
      BY <1>1, <1>2, <2>3, <2>6, <2>7 DEF HC!Issue, Phase
    <2> QED BY <1>1, <2>8 DEF HC!Next
  <1>8. CASE GuestCallGone
    <2>1. events' = <<>>
      BY <1>6, <1>8 DEF GuestCallGone
    <2>2. \A j \in CallIds : ~Buffered(j) /\ ~Buffered(j)'
      BY <1>6, <2>1, BufferedIn, BufferedInNext
    <2>3. oneshot' = [oneshot EXCEPT ![k] = "cancelled"]
      BY <1>0, <1>8 DEF GuestCallGone
    <2>4. ServiceState = "closed"
      BY <1>8 DEF GuestCallGone, Inv, SessionInv, ServiceState
    <2>5. CASE got' = got
      <3>1. CallPhase(k)' = "cancelled"
        BY <1>1, <1>3, <1>5, <2>2, <2>3, <2>5, AnswersAssumption DEF CallPhase
      <3>2. \A j \in CallIds \ {k} : CallPhase(j)' = CallPhase(j)
        BY <1>1, <1>3, <2>2, <2>3, <2>5, SamePhase
      <3>3. Phase' = [Phase EXCEPT ![k] = "cancelled"]
        BY <1>1, <3>1, <3>2, OnePhaseMoves
      <3>4. HC!Issue(k)
        BY <1>1, <1>2, <2>4, <2>5, <3>3 DEF HC!Issue, Phase
      <3> QED BY <1>1, <3>4 DEF HC!Next
    <2>6. CASE got' = [got EXCEPT ![k] = Gone]
      <3>0. got'[k] = Gone
        BY <1>1, <1>3, <2>6
      <3>1. CallPhase(k)' = "failed"
        BY <3>0, AnswersAssumption DEF CallPhase
      <3>2. \A j \in CallIds \ {k} : CallPhase(j)' = CallPhase(j)
        BY <1>1, <1>3, <2>2, <2>3, <2>6, SamePhase
      <3>3. Phase' = [Phase EXCEPT ![k] = "failed"]
        BY <1>1, <3>1, <3>2, OnePhaseMoves
      <3>4. HC!Refuse(k)
        BY <1>1, <1>2, <2>4, <2>6, <3>3 DEF HC!Refuse, Phase
      <3> QED BY <1>1, <3>4 DEF HC!Next
    <2> QED BY <1>0, <1>8, <2>5, <2>6 DEF GuestCallGone
  <1> QED BY <1>7, <1>8

\* hwr_p3_poll shows the application the call in the channel.
LEMMA SurfaceRefines ==
  ASSUME Inv, PollHostCall
  PROVE  HC!Next
  <1> USE DEF PollHostCall, callerVars, chanVars, workerVars, histVars
  <1>1. /\ events = <<HostCall(calls)>> /\ worker = "awaiting" /\ oneshot[calls] = "open"
        /\ calls \in CallIds
    BY EventKinds, SingletonChannel DEF Inv, ChannelInv, CallsInv
  <1>2. PICK k \in CallIds : k = calls
    BY <1>1
  <1>3. pendingRespond = NoCall
    BY <1>1, SingletonChannel DEF Inv, SessionInv
  <1>4. oneshot' = oneshot /\ got' = got /\ given' = given /\ events' = <<>>
    BY <1>1, <1>3, SingletonChannel DEF Cancel
  <1>5. \A j \in CallIds : (Buffered(j) <=> j = k) /\ ~Buffered(j)'
    BY <1>1, <1>2, <1>4, BufferedIn, BufferedInNext, EventKinds
  <1>6. got[k] = NoAnswer /\ oneshot[k] = "open"
    BY <1>1, <1>2 DEF Inv, AnswerInv
  <1>7. CallPhase(k) = "issued" /\ CallPhase(k)' = "surfaced"
    BY <1>4, <1>5, <1>6, AnswersAssumption DEF CallPhase
  <1>8. \A j \in CallIds \ {k} : CallPhase(j)' = CallPhase(j)
    BY <1>4, <1>5, SamePhase
  <1>9. Phase' = [Phase EXCEPT ![k] = "surfaced"]
    BY <1>7, <1>8, OnePhaseMoves
  <1>10. ServiceState = "open" /\ ServiceState' = "open"
    BY DEF ServiceState
  <1>11. HC!Surface(k)
    BY <1>4, <1>7, <1>9, <1>10 DEF HC!Surface, Phase
  <1> QED BY <1>11 DEF HC!Next, HC!CallIds, CallIds

\* hwr_p3_resolve answers the call shown last, or does nothing.
LEMMA AnswerRefines ==
  ASSUME Inv, NEW a \in Answers, Resolve(a)
  PROVE  HC!Next \/ UNCHANGED HC!vars
  <1> USE DEF Resolve, callerVars, chanVars, workerVars, histVars
  <1>1. events' = events /\ got' = got /\ ServiceState = "open" /\ ServiceState' = "open"
    BY DEF ServiceState
  <1>2. \A k \in CallIds : Buffered(k)' <=> Buffered(k)
    BY <1>1 DEF Buffered
  <1>3. CASE pendingRespond = NoCall
    <2>1. UNCHANGED <<oneshot, got, given>>
      BY <1>3
    <2> QED BY <1>1, <1>2, <2>1, InvisibleStep
  <1>4. CASE pendingRespond # NoCall
    <2>1. /\ worker = "awaiting" /\ pendingRespond = calls /\ pendingRequest = pendingRespond
          /\ oneshot[calls] = "open" /\ events = <<>> /\ calls \in CallIds
      BY <1>4 DEF Inv, SessionInv, CallsInv, Freeing
    <2>2. PICK k \in CallIds : k = calls
      BY <2>1
    <2>3. /\ oneshot' = [oneshot EXCEPT ![k] = "answered"] /\ given' = [given EXCEPT ![k] = a]
          /\ oneshot \in [CallIds -> {"unused", "open", "answered", "cancelled"}]
      BY <1>4, <2>1, <2>2 DEF Inv, TypeOK
    <2>4. ~Buffered(k) /\ got[k] = NoAnswer /\ oneshot[k] = "open"
      BY <2>1, <2>2, BufferedIn DEF Inv, AnswerInv
    <2>5. CallPhase(k) = "surfaced" /\ CallPhase(k)' = "answered"
      BY <1>1, <1>2, <2>3, <2>4, AnswersAssumption DEF CallPhase
    <2>6. \A j \in CallIds \ {k} : CallPhase(j)' = CallPhase(j)
      BY <1>1, <1>2, <2>3, SamePhase
    <2>7. Phase' = [Phase EXCEPT ![k] = "answered"]
      BY <2>5, <2>6, OnePhaseMoves
    <2>8. HC!Answer(k, a)
      BY <1>1, <2>3, <2>5, <2>7 DEF HC!Answer, Phase
    <2> QED BY <2>8 DEF HC!Next, HC!CallIds, CallIds
  <1> QED BY <1>3, <1>4

\* The guest's call returns the answer given to it, or fails once cancelled.
LEMMA SettleRefines ==
  ASSUME Inv, AwaitAnswered \/ AwaitCancelled
  PROVE  HC!Next
  <1> USE DEF callerVars, chanVars, workerVars, histVars
  <1>1. calls \in CallIds
    BY DEF AwaitAnswered, AwaitCancelled, Inv, CallsInv
  <1>2. PICK k \in CallIds : k = calls
    BY <1>1
  <1>3. /\ got[k] = NoAnswer /\ UNCHANGED <<oneshot, events, given, caller>>
        /\ got \in [CallIds -> Answers \cup {NoAnswer, Gone}]
    BY <1>2 DEF AwaitAnswered, AwaitCancelled, Inv, AnswerInv, TypeOK
  <1>4. \A j \in CallIds : Buffered(j)' <=> Buffered(j)
    BY <1>3 DEF Buffered
  <1>5. ServiceState' = ServiceState
    BY <1>3 DEF ServiceState
  <1>6. ASSUME NEW v, got' = [got EXCEPT ![k] = v], NEW p, CallPhase(k)' = p
        PROVE  Phase' = [Phase EXCEPT ![k] = p]
    <2>1. \A j \in CallIds \ {k} : CallPhase(j)' = CallPhase(j)
      BY <1>3, <1>4, <1>6, SamePhase
    <2> QED BY <1>6, <2>1, OnePhaseMoves
  <1>7. CASE AwaitAnswered
    <2>1. oneshot[k] = "answered" /\ given[k] \in Answers /\ slot[k] = given[k]
      BY <1>2, <1>7 DEF AwaitAnswered, Inv, AnswerInv
    <2>2. got' = [got EXCEPT ![k] = given[k]]
      BY <1>2, <1>7, <2>1 DEF AwaitAnswered
    <2>3. got'[k] = given[k]
      BY <1>3, <2>2
    <2>4. CallPhase(k) = "answered" /\ CallPhase(k)' = "returned"
      BY <1>3, <2>1, <2>3, AnswersAssumption DEF CallPhase
    <2>5. Phase' = [Phase EXCEPT ![k] = "returned"]
      BY <1>6, <2>2, <2>4
    <2>6. HC!Return(k)
      BY <1>3, <1>5, <2>2, <2>4, <2>5 DEF HC!Return, Phase
    <2> QED BY <2>6 DEF HC!Next, HC!Settle, HC!CallIds, CallIds
  <1>8. CASE AwaitCancelled
    <2>1. oneshot[k] = "cancelled" /\ got' = [got EXCEPT ![k] = Gone]
      BY <1>2, <1>8 DEF AwaitCancelled
    <2>2. got'[k] = Gone
      BY <1>3, <2>1
    <2>3. CallPhase(k) = "cancelled" /\ CallPhase(k)' = "failed"
      BY <1>3, <2>1, <2>2, AnswersAssumption DEF CallPhase
    <2>4. Phase' = [Phase EXCEPT ![k] = "failed"]
      BY <1>6, <2>1, <2>3
    <2>5. HC!Fail(k)
      BY <1>3, <1>5, <2>1, <2>3, <2>4 DEF HC!Fail, Phase
    <2> QED BY <2>5 DEF HC!Next, HC!Settle, HC!CallIds, CallIds
  <1> QED BY <1>7, <1>8

\* The two statements of drop() cancel the call that was shown, then the one
\* that was not.
LEMMA CloseRefines ==
  ASSUME Inv, FreeCancel \/ FreeDisconnect
  PROVE  HC!Next
  <1> USE DEF callerVars, chanVars, workerVars, histVars
  <1>1. /\ oneshot \in [CallIds -> {"unused", "open", "answered", "cancelled"}]
        /\ got' = got /\ given' = given
        /\ \A k \in CallIds : got[k] = NoAnswer \/ got[k] = Gone \/ got[k] \in Answers
    BY DEF Inv, TypeOK, FreeCancel, FreeDisconnect
  <1>2. \A k \in CallIds : oneshot[k] = "open" => got[k] = NoAnswer
    <2> SUFFICES ASSUME NEW k \in CallIds, oneshot[k] = "open" PROVE got[k] = NoAnswer
      OBVIOUS
    <2> QED BY DEF Inv, ResponderInv, AnswerInv
  <1>3. \A k \in CallIds : oneshot[k] = "open" <=> (Buffered(k) # (pendingRespond = k))
    <2> SUFFICES ASSUME NEW k \in CallIds
                 PROVE  oneshot[k] = "open" <=> (Buffered(k) # (pendingRespond = k))
      OBVIOUS
    <2> QED BY HeldOnce
  <1>4. CASE FreeCancel
    <2>1. events' = events /\ oneshot' = Cancel(pendingRespond)
      BY <1>4 DEF FreeCancel
    <2>2. \A k \in CallIds : Buffered(k)' <=> Buffered(k)
      BY <2>1 DEF Buffered
    <2>3. \A k \in CallIds : oneshot'[k] = IF pendingRespond = k THEN "cancelled" ELSE oneshot[k]
      BY <1>1, <2>1, FuelAssumption DEF Cancel, CallIds, NoCall
    <2>4. \A k \in CallIds : CallPhase(k) = "surfaced" <=> pendingRespond = k
      <3> SUFFICES ASSUME NEW k \in CallIds PROVE CallPhase(k) = "surfaced" <=> pendingRespond = k
        OBVIOUS
      <3>1. Buffered(k) \in BOOLEAN
        BY DEF Buffered
      <3>2. pendingRespond = k => oneshot[k] = "open" /\ ~Buffered(k)
        BY HeldOnce
      <3> QED BY <1>1, <1>2, <1>3, <3>1, <3>2, AnswersAssumption DEF CallPhase
    <2>5. ASSUME NEW k \in CallIds
          PROVE  CallPhase(k)' = IF CallPhase(k) = "surfaced" THEN "cancelled" ELSE CallPhase(k)
      <3>1. CASE pendingRespond = k
        <4>1. oneshot[k] = "open" /\ got[k] = NoAnswer /\ oneshot'[k] = "cancelled"
          BY <1>2, <2>3, <3>1, HeldOnce
        <4>2. CallPhase(k)' = "cancelled"
          BY <1>1, <4>1, AnswersAssumption DEF CallPhase
        <4> QED BY <2>4, <3>1, <4>2
      <3>2. CASE pendingRespond # k
        <4>1. CallPhase(k)' = CallPhase(k)
          BY <1>1, <2>2, <2>3, <3>2, SamePhase
        <4> QED BY <2>4, <3>2, <4>1
      <3> QED BY <3>1, <3>2
    <2>6. ServiceState = "open" /\ ServiceState' = "closing"
      BY <1>4 DEF FreeCancel, ServiceState
    <2>7. Phase' = HC!CancelPhase("surfaced")
      BY <2>5 DEF Phase, HC!CancelPhase, HC!CallIds, CallIds
    <2>8. HC!Close
      BY <1>1, <2>6, <2>7 DEF HC!Close, Phase
    <2> QED BY <2>8 DEF HC!Next
  <1>5. CASE FreeDisconnect
    <2>1. events' = <<>> /\ oneshot' = [k \in CallIds |-> IF Buffered(k) THEN "cancelled" ELSE oneshot[k]]
      BY <1>5 DEF FreeDisconnect
    <2>2. \A k \in CallIds : ~Buffered(k)'
      BY <2>1, BufferedInNext
    <2>3. pendingRespond = NoCall
      BY <1>5 DEF FreeDisconnect, Inv, SessionInv, Freeing
    <2>4. \A k \in CallIds : Buffered(k) <=> oneshot[k] = "open"
      <3> SUFFICES ASSUME NEW k \in CallIds PROVE Buffered(k) <=> oneshot[k] = "open"
        OBVIOUS
      <3>1. pendingRespond # k
        BY <2>3, FuelAssumption DEF CallIds, NoCall
      <3>2. Buffered(k) \in BOOLEAN
        BY DEF Buffered
      <3> QED BY <1>3, <3>1, <3>2
    <2>5. ASSUME NEW k \in CallIds
          PROVE  CallPhase(k)' = IF CallPhase(k) = "issued" THEN "cancelled" ELSE CallPhase(k)
      <3>1. CASE Buffered(k)
        <4>1. oneshot[k] = "open" /\ got[k] = NoAnswer /\ oneshot'[k] = "cancelled"
          BY <1>2, <2>1, <2>4, <3>1
        <4>2. CallPhase(k) = "issued" /\ CallPhase(k)' = "cancelled"
          BY <1>1, <3>1, <4>1, AnswersAssumption DEF CallPhase
        <4> QED BY <4>2
      <3>2. CASE ~Buffered(k)
        <4>1. CallPhase(k)' = CallPhase(k)
          BY <1>1, <2>1, <2>2, <3>2, SamePhase
        <4>2. CallPhase(k) # "issued"
          BY <3>2 DEF CallPhase
        <4> QED BY <4>1, <4>2
      <3> QED BY <3>1, <3>2
    <2>6. ServiceState = "closing" /\ ServiceState' = "closed"
      BY <1>5 DEF FreeDisconnect, ServiceState
    <2>7. Phase' = HC!CancelPhase("issued")
      BY <2>5 DEF Phase, HC!CancelPhase, HC!CallIds, CallIds
    <2>8. HC!Shut
      BY <1>1, <2>6, <2>7 DEF HC!Shut, Phase
    <2> QED BY <2>8 DEF HC!Next
  <1> QED BY <1>4, <1>5

\* The other C calls and the other steps of the worker are invisible.
LEMMA QuietRefines ==
  ASSUME Inv,
         \/ Start \/ StartFails \/ PollFinished \/ PollBlock \/ PollDone \/ PollVanished
         \/ FreeJoin \/ (\E n \in Budgets : SetFuelBudget(n))
         \/ WorkerSetup \/ (\E o \in Outcomes : DriveReturns(o)) \/ GuestCompute
         \/ SendDone \/ WorkerPanic \/ UNCHANGED vars
  PROVE  UNCHANGED HC!vars
  <1> USE DEF vars, callerVars, chanVars, workerVars, histVars
  <1>1. UNCHANGED <<oneshot, got, given>>
    BY DEF Start, StartFails, PollFinished, PollBlock, PollDone, PollVanished, FreeJoin,
           SetFuelBudget, WorkerSetup, DriveReturns, GuestCompute, SendDone, WorkerPanic
  <1>2. ServiceState' = ServiceState
    BY DEF ServiceState, Start, StartFails, PollFinished, PollBlock, PollDone, PollVanished, FreeJoin,
           SetFuelBudget, WorkerSetup, DriveReturns, GuestCompute, SendDone, WorkerPanic
  <1>3. ASSUME NEW k \in CallIds PROVE Buffered(k)' <=> Buffered(k)
    <2>1. CASE events' = events
      BY <2>1 DEF Buffered
    <2>2. CASE PollDone
      <3>1. events = <<Done(outcome)>> /\ events' = <<>>
        BY <2>2, EventKinds, SingletonChannel DEF PollDone, Inv, ChannelInv
      <3> QED BY <3>1, BufferedIn, BufferedInNext, EventKinds
    <2>3. CASE SendDone
      <3>1. events = <<>> /\ (events' = <<>> \/ events' = <<Done(outcome)>>)
        BY <2>3, SingletonChannel DEF SendDone, Inv, ChannelInv
      <3> QED BY <3>1, BufferedIn, BufferedInNext, EventKinds
    <2> QED
      BY <2>1, <2>2, <2>3
         DEF Start, StartFails, PollFinished, PollBlock, PollVanished, FreeJoin,
             SetFuelBudget, WorkerSetup, DriveReturns, GuestCompute, WorkerPanic
  <1> QED BY <1>1, <1>2, <1>3, InvisibleStep

\* Seen through CallPhase and ServiceState, every step of the two threads is a
\* step of the sequential host-call service or invisible to it, for every set of
\* answers and every fuel budget (the safety part of ImplementsHostCalls).
THEOREM RefinesHostCalls == Spec => HC!Spec
  <1>1. Inv /\ [Next]_vars => [HC!Next]_(HC!vars)
    <2> SUFFICES ASSUME Inv, [Next]_vars PROVE HC!Next \/ UNCHANGED HC!vars
      OBVIOUS
    <2>1. Inv'
      BY NextInv
    <2>2. CASE GuestCall \/ GuestCallGone
      BY <2>1, <2>2, IssueRefines
    <2>3. CASE PollHostCall
      BY <2>3, SurfaceRefines
    <2>4. CASE \E a \in Answers : Resolve(a)
      BY <2>4, AnswerRefines
    <2>5. CASE AwaitAnswered \/ AwaitCancelled
      BY <2>5, SettleRefines
    <2>6. CASE FreeCancel \/ FreeDisconnect
      BY <2>6, CloseRefines
    <2>7. CASE \/ Start \/ StartFails \/ PollFinished \/ PollBlock \/ PollDone \/ PollVanished
               \/ FreeJoin \/ (\E n \in Budgets : SetFuelBudget(n))
               \/ WorkerSetup \/ (\E o \in Outcomes : DriveReturns(o)) \/ GuestCompute
               \/ SendDone \/ WorkerPanic \/ UNCHANGED vars
      BY <2>7, QuietRefines
    <2> QED BY <2>2, <2>3, <2>4, <2>5, <2>6, <2>7
            DEF Next, Caller, Worker, PollReturn, Free
  <1> QED BY <1>1, InitRefines, Invariance, PTL DEF Spec, HC!Spec
=============================================================================
