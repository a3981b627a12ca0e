----------------------------- MODULE P3Session -----------------------------
(***************************************************************************)
(* The P3 host-call round trip (src/lib.rs, `HwrP3Session`): the session a *)
(* caller drives through hwr_p3_start* / poll / resolve / free, and the    *)
(* worker thread that owns the Store and runs the guest.  The two threads  *)
(* share an event channel (worker to caller) and one oneshot per host call *)
(* (caller to worker).                                                     *)
(*                                                                         *)
(* Data is abstracted to identities: host call k is the k-th call of the   *)
(* run, its request is the number k, and responses are elements of Answers.*)
(***************************************************************************)
EXTENDS Integers, Sequences

CONSTANTS
  Answers,      \* the responses the caller may pass to hwr_p3_resolve
  NoAnswer,     \* "no value": an empty oneshot slot, a call not yet returned
  Gone,         \* what a guest sees of a call whose oneshot was cancelled
  Budgets,      \* the values passed to hwr_set_fuel_budget (0 = default)
  DefaultFuel,  \* DEFAULT_FUEL, in guest steps
  MaxFuel       \* bound on every budget, hence on the host calls of a run

ASSUME AnswersAssumption ==
  /\ NoAnswer \notin Answers
  /\ Gone \notin Answers
  /\ Gone # NoAnswer

ASSUME FuelAssumption ==
  /\ MaxFuel \in Nat
  /\ DefaultFuel \in 0..MaxFuel
  /\ Budgets \subseteq 0..MaxFuel

CallIds == 1..MaxFuel
NoCall  == 0

\* "async": p3_drive, whose import future traps when its oneshot is cancelled.
\* "sync":  the typed hosts, whose import returns an api-error instead.
Modes == {"async", "sync"}

\* Done(Ok(out)) carries the guest's output; Done(Err(msg)) a message, with a
\* stable prefix when limits::annotate recognises a resource limit.
Messages == {"cpu-limit", "memory-limit", "error"}
Outcomes == {"output"} \cup Messages
Empty    == "empty"

VARIABLES
  \* the caller's thread and the HwrP3Session it holds
  caller,           \* what the caller's thread is doing
  pendingRequest,   \* pending_request: the call it describes, or NoCall
  pendingRespond,   \* pending_respond: the call whose Sender it holds, or NoCall
  result,           \* result: Empty, or the outcome's bytes
  finished,         \* finished
  status,           \* the value hwr_p3_poll returned last
  \* the event channel: P3Event values sent and not yet received
  events,
  rxOpen,           \* FALSE once Drop has replaced the receiver
  \* the oneshots
  oneshot,          \* oneshot[k]: "unused", "open", "answered" or "cancelled"
  slot,             \* slot[k]: the value sent through oneshot k
  \* the worker thread and the guest
  mode,             \* which drive the start function chose
  worker,           \* what the worker thread is doing
  fuel,             \* fuel left in the Store
  calls,            \* host calls made so far; the call in flight is call `calls`
  outcome,          \* what the drive returned, once it has
  fuelOverride,     \* FUEL_OVERRIDE
  \* history
  given,            \* given[k]: what the caller answered on reading request k
  got               \* got[k]: what the guest's k-th call returned

callerVars == <<caller, pendingRequest, pendingRespond, result, finished, status>>
chanVars   == <<events, rxOpen, oneshot, slot>>
workerVars == <<mode, worker, fuel, calls, outcome>>
histVars   == <<given, got>>
vars       == <<callerVars, chanVars, workerVars, fuelOverride, histVars>>

HostCall(k) == [kind |-> "call", id |-> k]
Done(o)     == [kind |-> "done", res |-> o]
Events      == {HostCall(k) : k \in CallIds} \cup {Done(o) : o \in Outcomes}

\* Call k's event has been sent and not received.
Buffered(k) == \E i \in DOMAIN events : events[i] = HostCall(k)

\* The oneshots after the Sender of call k, if there is one, is dropped unused.
Cancel(k) == IF k = NoCall THEN oneshot ELSE [oneshot EXCEPT ![k] = "cancelled"]

\* The states of the caller's thread: no session yet, a null handle, between
\* two C calls, inside hwr_p3_poll, and the stages of hwr_p3_free.
Freeing      == {"cancelled", "joining", "freed"}
CallerStates == {"none", "refused", "idle", "polling"} \cup Freeing
WorkerStates == {"unborn", "setup", "guest", "awaiting", "finishing", "exited"}

Init ==
  /\ caller = "none"
  /\ pendingRequest = NoCall /\ pendingRespond = NoCall
  /\ result = Empty /\ finished = FALSE /\ status = "NONE"
  /\ events = <<>> /\ rxOpen = TRUE
  /\ oneshot = [k \in CallIds |-> "unused"]
  /\ slot  = [k \in CallIds |-> NoAnswer]
  /\ mode \in Modes
  /\ worker = "unborn" /\ fuel = 0 /\ calls = 0 /\ outcome = Empty
  /\ fuelOverride = 0
  /\ given = [k \in CallIds |-> NoAnswer]
  /\ got   = [k \in CallIds |-> NoAnswer]

-----------------------------------------------------------------------------
(* Faulty variants: each is the action it is named after, with one defect. *)
(* None is part of Next; substituting one for the real action shows which  *)
(* property notices.                                                       *)

\* rx dropped with the fields, after the join, instead of before it.
FaultyFreeDisconnect ==
  /\ caller = "cancelled"
  /\ caller' = "joining"
  /\ UNCHANGED <<pendingRequest, pendingRespond, result, finished, status, chanVars,
                 workerVars, fuelOverride, histVars>>

\* The pending responder is left to the field drop.
FaultyFreeCancel ==
  /\ caller = "idle"
  /\ caller' = "cancelled"
  /\ UNCHANGED <<pendingRequest, pendingRespond, result, finished, status, chanVars,
                 workerVars, fuelOverride, histVars>>

\* The responder is used but not taken out of the session.
FaultyResolve(a) ==
  /\ caller = "idle"
  /\ IF pendingRespond # NoCall
       THEN /\ oneshot' = [oneshot EXCEPT ![pendingRespond] = "answered"]
            /\ slot' = [slot EXCEPT ![pendingRespond] = a]
            /\ given' = [given EXCEPT ![pendingRequest] = a]
       ELSE UNCHANGED <<oneshot, slot, given>>
  /\ UNCHANGED <<caller, pendingRequest, pendingRespond, result, finished, status,
                 events, rxOpen, workerVars, fuelOverride, got>>

\* A poll starts by resetting the session's pending call.
FaultyPollBlock ==
  /\ caller = "idle" /\ ~finished
  /\ caller' = "polling"
  /\ pendingRequest' = NoCall /\ pendingRespond' = NoCall
  /\ oneshot' = Cancel(pendingRespond)
  /\ UNCHANGED <<result, finished, status, events, rxOpen, slot, workerVars,
                 fuelOverride, histVars>>

\* The request is surfaced, its responder leaked.
FaultyPollHostCall ==
  /\ caller = "polling" /\ events # <<>>
  /\ Head(events).kind = "call"
  /\ pendingRequest' = Head(events).id
  /\ status' = "PENDING"
  /\ caller' = "idle"
  /\ events' = Tail(events)
  /\ UNCHANGED <<pendingRespond, result, finished, rxOpen, oneshot, slot, workerVars,
                 fuelOverride, histVars>>

\* The drive gives up on a call it is still waiting for.
FaultyDriveReturns(o) ==
  /\ worker \in {"guest", "awaiting"}
  /\ worker' = "finishing"
  /\ outcome' = o
  /\ UNCHANGED <<callerVars, chanVars, mode, fuel, calls, fuelOverride, histVars>>

\* Guest execution is charged one step too many.
FaultyGuestCompute ==
  /\ worker = "guest" /\ fuel >= 0
  /\ fuel' = fuel - 1
  /\ UNCHANGED <<callerVars, chanVars, mode, worker, calls, outcome, fuelOverride, histVars>>

\* The budget is armed again until the guest makes its first call.
RearmedGuestCompute ==
  /\ worker = "guest" /\ (fuel > 0 \/ calls = 0)
  /\ fuel' = IF fuel = 0 THEN 1 ELSE fuel - 1
  /\ UNCHANGED <<callerVars, chanVars, mode, worker, calls, outcome, fuelOverride, histVars>>

\* One oneshot, the first, serves the whole run.
FaultyAwaitAnswered ==
  /\ worker = "awaiting" /\ oneshot[calls] = "answered"
  /\ worker' = "guest"
  /\ got' = [got EXCEPT ![calls] = slot[1]]
  /\ UNCHANGED <<callerVars, chanVars, mode, fuel, calls, outcome, fuelOverride, given>>

-----------------------------------------------------------------------------
(* The caller: the C ABI.                                                  *)

\* hwr_p3_start*: engine and component are ready, the worker thread is spawned.
Start ==
  /\ caller = "none"
  /\ caller' = "idle"
  /\ worker' = "setup"
  /\ UNCHANGED <<pendingRequest, pendingRespond, result, finished, status, chanVars,
                 mode, fuel, calls, outcome, fuelOverride, histVars>>

\* hwr_p3_start* returns null: null component, no engine, or a component that
\* does not compile or deserialize.  No thread exists.
StartFails ==
  /\ caller = "none"
  /\ caller' = "refused"
  /\ UNCHANGED <<pendingRequest, pendingRespond, result, finished, status, chanVars,
                 workerVars, fuelOverride, histVars>>

\* poll() on a finished session returns HWR_P3_DONE at once.
PollFinished ==
  /\ caller = "idle" /\ finished
  /\ status' = "DONE"
  /\ UNCHANGED <<caller, pendingRequest, pendingRespond, result, finished, chanVars,
                 workerVars, fuelOverride, histVars>>

\* poll() otherwise blocks in rx.recv().
PollBlock ==
  /\ caller = "idle" /\ ~finished
  /\ caller' = "polling"
  /\ UNCHANGED <<pendingRequest, pendingRespond, result, finished, status, chanVars,
                 workerVars, fuelOverride, histVars>>

\* A host call: the event's request and responder become the session's; a
\* responder still held there would be dropped by the assignment.
PollHostCall ==
  /\ caller = "polling" /\ events # <<>>
  /\ Head(events).kind = "call"
  /\ pendingRequest' = Head(events).id
  /\ pendingRespond' = Head(events).id
  /\ oneshot' = Cancel(pendingRespond)
  /\ status' = "PENDING"
  /\ caller' = "idle"
  /\ events' = Tail(events)
  /\ UNCHANGED <<result, finished, rxOpen, slot, workerVars, fuelOverride, histVars>>

\* The end of the run: its output, or its error message.
PollDone ==
  /\ caller = "polling" /\ events # <<>>
  /\ Head(events).kind = "done"
  /\ result' = Head(events).res
  /\ finished' = TRUE
  /\ status' = IF Head(events).res = "output" THEN "DONE" ELSE "ERROR"
  /\ caller' = "idle"
  /\ events' = Tail(events)
  /\ UNCHANGED <<pendingRequest, pendingRespond, rxOpen, oneshot, slot, workerVars,
                 fuelOverride, histVars>>

\* recv() fails: the channel is empty and the worker, gone without a Done, has
\* dropped both senders.
PollVanished ==
  /\ caller = "polling" /\ events = <<>> /\ worker = "exited"
  /\ finished' = TRUE
  /\ status' = "ERROR"
  /\ caller' = "idle"
  /\ UNCHANGED <<pendingRequest, pendingRespond, result, chanVars, workerVars,
                 fuelOverride, histVars>>

\* resolve(): the caller has read request() and answers it.  Without a pending
\* responder nothing is sent; the request buffer is cleared in either case.
Resolve(a) ==
  /\ caller = "idle"
  /\ IF pendingRespond # NoCall
       THEN /\ oneshot' = [oneshot EXCEPT ![pendingRespond] = "answered"]
            /\ slot' = [slot EXCEPT ![pendingRespond] = a]
            /\ given' = [given EXCEPT ![pendingRequest] = a]
       ELSE UNCHANGED <<oneshot, slot, given>>
  /\ pendingRespond' = NoCall
  /\ pendingRequest' = NoCall
  /\ UNCHANGED <<caller, result, finished, status, events, rxOpen, workerVars,
                 fuelOverride, got>>

\* hwr_p3_free, first statement of drop(): drop the pending responder.
FreeCancel ==
  /\ caller = "idle"
  /\ caller' = "cancelled"
  /\ pendingRespond' = NoCall
  /\ oneshot' = Cancel(pendingRespond)
  /\ UNCHANGED <<pendingRequest, result, finished, status, events, rxOpen, slot,
                 workerVars, fuelOverride, histVars>>

\* Second statement: replace rx.  The buffered events are dropped, each with
\* the responder it carries, and every later send fails.
FreeDisconnect ==
  /\ caller = "cancelled"
  /\ caller' = "joining"
  /\ rxOpen' = FALSE
  /\ events' = <<>>
  /\ oneshot' = [k \in CallIds |-> IF Buffered(k) THEN "cancelled" ELSE oneshot[k]]
  /\ UNCHANGED <<pendingRequest, pendingRespond, result, finished, status, slot,
                 workerVars, fuelOverride, histVars>>

\* Third statement: join the worker; then the fields drop.
FreeJoin ==
  /\ caller = "joining" /\ worker = "exited"
  /\ caller' = "freed"
  /\ UNCHANGED <<pendingRequest, pendingRespond, result, finished, status, chanVars,
                 workerVars, fuelOverride, histVars>>

\* hwr_set_fuel_budget, from any thread at any time.
SetFuelBudget(n) ==
  /\ fuelOverride' = n
  /\ UNCHANGED <<callerVars, chanVars, workerVars, histVars>>

-----------------------------------------------------------------------------
(* The worker thread: a drive, then Done.                                  *)

FuelBudget == IF fuelOverride = 0 THEN DefaultFuel ELSE fuelOverride

\* Linker, Store, limiter, set_fuel.  Instantiation runs guest code (start
\* functions) on that fuel, so it belongs to the "guest" state.
WorkerSetup ==
  /\ worker = "setup"
  /\ worker' = "guest"
  /\ fuel' = FuelBudget
  /\ UNCHANGED <<callerVars, chanVars, mode, calls, outcome, fuelOverride, histVars>>

\* The drive returns o: from setup a linker error, from the guest its result, the
\* message of its own Err (full plugin host), or a trap's annotated message.
DriveReturns(o) ==
  /\ \/ worker = "setup" /\ o = "error"
     \/ worker = "guest" /\ o \in {"output", "error", "memory-limit"}
     \/ worker = "guest" /\ fuel = 0 /\ o = "cpu-limit"
  /\ worker' = "finishing"
  /\ outcome' = o
  /\ UNCHANGED <<callerVars, chanVars, mode, fuel, calls, fuelOverride, histVars>>

\* The guest executes without calling the transport (capabilities the typed
\* hosts refuse locally, such as write-external-file, included).
GuestCompute ==
  /\ worker = "guest" /\ fuel > 0
  /\ fuel' = fuel - 1
  /\ UNCHANGED <<callerVars, chanVars, mode, worker, calls, outcome, fuelOverride, histVars>>

\* A host import reaches the transport: a fresh oneshot, whose Sender travels in
\* the event.
GuestCall ==
  /\ worker = "guest" /\ fuel > 0 /\ rxOpen
  /\ fuel' = fuel - 1
  /\ calls' = calls + 1
  /\ oneshot' = [oneshot EXCEPT ![calls + 1] = "open"]
  /\ events' = Append(events, HostCall(calls + 1))
  /\ worker' = "awaiting"
  /\ UNCHANGED <<callerVars, rxOpen, slot, mode, outcome, fuelOverride, histVars>>

\* The same with the receiver gone: the send fails and drops the Sender.  The
\* async import ignores that and awaits its cancelled oneshot; the typed hosts
\* return transport_gone() at once and the guest goes on.
GuestCallGone ==
  /\ worker = "guest" /\ fuel > 0 /\ ~rxOpen
  /\ fuel' = fuel - 1
  /\ calls' = calls + 1
  /\ oneshot' = [oneshot EXCEPT ![calls + 1] = "cancelled"]
  /\ \/ mode = "async" /\ worker' = "awaiting" /\ UNCHANGED got
     \/ mode = "sync" /\ got' = [got EXCEPT ![calls + 1] = Gone] /\ UNCHANGED worker
  /\ UNCHANGED <<callerVars, events, rxOpen, slot, mode, outcome, fuelOverride, given>>

\* The oneshot delivers the answer and the guest resumes.
AwaitAnswered ==
  /\ worker = "awaiting" /\ oneshot[calls] = "answered"
  /\ worker' = "guest"
  /\ got' = [got EXCEPT ![calls] = slot[calls]]
  /\ UNCHANGED <<callerVars, chanVars, mode, fuel, calls, outcome, fuelOverride, given>>

\* The Sender was dropped.  Async: the import traps the run.  Sync: it returns
\* an api-error, which the guest may ignore.
AwaitCancelled ==
  /\ worker = "awaiting" /\ oneshot[calls] = "cancelled"
  /\ got' = [got EXCEPT ![calls] = Gone]
  /\ \/ mode = "async" /\ worker' = "finishing" /\ outcome' = "error"
     \/ mode = "sync" /\ worker' = "guest" /\ UNCHANGED outcome
  /\ UNCHANGED <<callerVars, chanVars, mode, fuel, calls, fuelOverride, given>>

\* done_tx.send(Done(..)), ignored when the receiver is gone; the thread ends.
SendDone ==
  /\ worker = "finishing"
  /\ worker' = "exited"
  /\ events' = IF rxOpen THEN Append(events, Done(outcome)) ELSE events
  /\ UNCHANGED <<callerVars, rxOpen, oneshot, slot, mode, fuel, calls, outcome,
                 fuelOverride, histVars>>

\* A panic on the worker thread unwinds it without a Done.
WorkerPanic ==
  /\ worker \in {"setup", "guest"}
  /\ worker' = "exited"
  /\ UNCHANGED <<callerVars, chanVars, mode, fuel, calls, outcome, fuelOverride, histVars>>

-----------------------------------------------------------------------------
Free   == FreeCancel \/ FreeDisconnect \/ FreeJoin
PollReturn == PollHostCall \/ PollDone \/ PollVanished
Caller ==
  \/ Start \/ StartFails
  \/ PollFinished \/ PollBlock \/ PollReturn
  \/ \E a \in Answers : Resolve(a)
  \/ Free
  \/ \E n \in Budgets : SetFuelBudget(n)

Worker ==
  \/ WorkerSetup
  \/ \E o \in Outcomes : DriveReturns(o)
  \/ GuestCompute \/ GuestCall \/ GuestCallGone
  \/ AwaitAnswered \/ AwaitCancelled
  \/ SendDone \/ WorkerPanic

Next == Caller \/ Worker
Spec == Init /\ [][Next]_vars

\* The OS schedules both threads.  The caller is free to do nothing: only a
\* poll that can return and a free that has begun are sure to proceed.
Fairness ==
  /\ WF_vars(Worker)
  /\ WF_vars(PollReturn)
  /\ WF_vars(FreeDisconnect)
  /\ WF_vars(FreeJoin)
FairSpec == Spec /\ Fairness

-----------------------------------------------------------------------------
(* Properties.                                                             *)

\* Every variable stays in its range.
TypeOK ==
  /\ caller \in CallerStates
  /\ pendingRequest \in CallIds \cup {NoCall}
  /\ pendingRespond \in CallIds \cup {NoCall}
  /\ result \in Outcomes \cup {Empty}
  /\ finished \in BOOLEAN
  /\ status \in {"NONE", "PENDING", "DONE", "ERROR"}
  /\ events \in Seq(Events)
  /\ rxOpen \in BOOLEAN
  /\ oneshot \in [CallIds -> {"unused", "open", "answered", "cancelled"}]
  /\ slot \in [CallIds -> Answers \cup {NoAnswer}]
  /\ mode \in Modes
  /\ worker \in WorkerStates
  /\ fuel \in 0..MaxFuel
  /\ calls \in 0..MaxFuel
  /\ outcome \in Outcomes \cup {Empty}
  /\ fuelOverride \in 0..MaxFuel
  /\ given \in [CallIds -> Answers \cup {NoAnswer}]
  /\ got \in [CallIds -> Answers \cup {NoAnswer, Gone}]

\* The value the guest's k-th call returns is the one the caller supplied while
\* reading request k: requests and responders never get out of step, whatever
\* the order of polls, resolves and frees.
AnswerReachesItsCall ==
  \A k \in CallIds : got[k] \in Answers => got[k] = given[k]

\* A live responder is in exactly one place, an undelivered event or the
\* session's pending slot, so it is neither duplicated nor leaked: whoever
\* disposes of those two places disposes of every responder.
ResponderHeldOnce ==
  \A k \in CallIds : oneshot[k] = "open" <=> (Buffered(k) # (pendingRespond = k))

\* The unbounded event channel never holds more than one event: a Done or a
\* host call is only sent when everything before it has been consumed.
OneEventInFlight == Len(events) <= 1

\* When the run is over for the caller, no call is left unanswered: a finished
\* session holds no responder, and the worker has nothing more to say.
FinishedIsFinal ==
  finished => /\ worker = "exited"
              /\ events = <<>>
              /\ \A k \in CallIds : oneshot[k] # "open"

\* The only way both threads wait on each other is a caller that polls again
\* without having resolved the call it was handed.
WedgeOnlyByRepoll ==
  (caller = "polling" /\ events = <<>> /\ worker = "awaiting" /\ oneshot[calls] = "open")
    => pendingRespond = calls

\* A guest sees a call fail for want of an answer only when the session is
\* being freed.
CancelOnlyByFree ==
  \A k \in CallIds : oneshot[k] = "cancelled" \/ got[k] = Gone => caller \in Freeing

\* hwr_p3_free never wedges: from any state, pending, buffered or still
\* running, the worker ends and the join returns (its fuel bounds a guest that
\* ignores the errors).
FreeTerminates == (caller = "cancelled") ~> (caller = "freed")

\* A poll made with no unanswered call pending returns.
PollReturns == (caller = "polling" /\ pendingRespond = NoCall) ~> (caller = "idle")

-----------------------------------------------------------------------------
(* The session implements HostCalls.                                       *)

CallPhase(k) ==
  CASE got[k] = Gone           -> "failed"
    [] got[k] \in Answers      -> "returned"
    [] OTHER -> CASE oneshot[k] = "unused"    -> "idle"
                  [] oneshot[k] = "answered"  -> "answered"
                  [] oneshot[k] = "cancelled" -> "cancelled"
                  [] OTHER -> IF Buffered(k) THEN "issued" ELSE "surfaced"

ServiceState ==
  CASE caller = "cancelled"           -> "closing"
    [] caller \in {"joining", "freed"} -> "closed"
    [] OTHER                          -> "open"

HC == INSTANCE HostCalls WITH
        MaxCalls <- MaxFuel,
        phase    <- [k \in CallIds |-> CallPhase(k)],
        answer   <- given,
        value    <- got,
        service  <- ServiceState

\* Seen through CallPhase, every step of the two threads is a step of the
\* sequential host-call service or invisible to it, and calls settle.
ImplementsHostCalls == HC!FairSpec

=============================================================================
