# hellohq-wasm-runtime: TLA+ verification

This directory holds TLA+ models of the runtime in `src/` (a Rust library over
Wasmtime with a C ABI), TLC configurations that check them on small instances,
and TLAPS proofs of the safety of sessions, resources, code memory, guest stores
and plugin hosts for every instance. `PROJECT.json`
lists runs, sensitivity checks, the correspondence of every definition with
source lines, the hazards and the findings.

Run a model: `tlc -config P3Session.cfg MCP3Session`.
Check the proofs: `tlapm P3SessionProofs.tla`, and so on for every `...Proofs` module.

## 1. The system

The application (Dart, through the C ABI in `include/hellohq_wasm_runtime.h`)
runs untrusted guest components. Whatever a guest asks of the host is carried to
the application and back; the runtime only moves bytes, bounds resources and
owns code memory.

| Component | State | Operations | Interacts through | What is hard | What makes it correct |
|---|---|---|---|---|---|
| P3 session (`lib.rs`) | pending request and responder, result, finished, event receiver; worker thread | `hwr_p3_start*`, `poll`, `resolve`, `free` | event channel worker→caller, one oneshot per host call back | two threads; free at any moment; a worker that traps or panics | answers reach their calls; free and poll never hang; a finished session is quiet |
| P3 v2 stream (`lib.rs`) | event receiver, inbound sender, result, finished; worker | `hwr_p3s_start_*`, `poll`, `push`, `push_end`, `free` | event channel out, unbounded mpsc in | order, end of stream, lost pushes, free | frames in order and entire; free returns |
| wasi:http handler (`wasi_http.rs`) | per call: body pipe, trailers future, inbound receiver | `handle` | the stream's two channels, shared by all calls | concurrent calls, a budget racing the trailers, a guest that is both producer and waiter | the OUT grammar; body and response intact; calls complete |
| OUT frames (`wasi_http_frames.rs`) | none | `encode`, `decode`, `parse_request_frames` | - | - | the parser accepts what the handler sends |
| Inference (`inference.rs`) | inbound receiver | `complete`, `TokenProducer` | the stream's two channels | a second call; end of stream | tokens in order and entire; every head ended |
| Code memory (`jit_memory.rs`) | PENDING list, one `owned` list per engine hook | `load`, `publish_executable`, `unpublish_executable` | process-wide list, Wasmtime's callbacks | threads, address reuse, failing loads, lifetimes | live code stays executable; each mapping is freed once |
| Engine and instance handles (`lib.rs`) | engine, store, instance | `hwr_engine_new/free`, `hwr_instance_new*/call_add/free` | code memory, the fuel budget | freeing in any order; one store for many calls | code: see code memory; every call has its own budget |
| Limits (`limits.rs`) | process-wide fuel override | `set_fuel_budget`, `store_limits`, `annotate` | read when a worker sets up its store, and at every call of an instance | read late, on another thread; limits known only from error texts, which quote names a component chose | every run is bounded; limit errors are recognisable, others are not taken for them |
| Typed hosts (`plugin_host*.rs`) | the session's sender | one import per capability | the P3 session's channel, synchronously; the application's strings | a session freed between effect and answer; unreadable answers | an Ok means one effect, a refusal none |
| Base64 (`plugin_host_bytes.rs`) | none | `b64_encode`, `b64_decode` | between a typed host and the application | lengths modulo 3, damaged strings | bytes come back as they were |
| Storage and events host, capstone | grant, key-value map, event list, log | `get/set/delete/clear/list-keys`, `emit`, `read-*`, `write` | the harness delegates to the store it embeds | quotas at their limit, long sequences of writes and deletes | quotas bound what is stored, neither more nor less |
| Gated hooks (`wasi_guests.rs`) | allowlist, sender, counter of dropped values | `send_request` and what follows it | fetch gate, request policy, the library's conversions | order of gate, policy and sender; errors and trailers after the head | only what is allowed leaves; only sanitized data comes back |
| Fetch gate, request policy | none | `check_request`, `sanitize_*`, the predicates | gated hooks | ranges and masks at their edges; one policy written twice | default deny, and exactly the documented set |
| wasi:http resources (`wasi_http.rs`) | tables of fields, requests, responses, options | constructors, getters, setters, drops | handles shared with the guest | aliasing, taken-once bodies | immutability, no use after drop |

Wasmtime is external: it appears only through what the runtime relies on (fuel
bounds execution; a suspended import resumes with its future; a stream's producer
dies with its reader; every piece of code holds an Arc on the engine's hook).

## 2. Modules

| Module | Models | Notes |
|---|---|---|
| `HostCalls` | what a session promises about host calls | abstract: no threads, channels or oneshots |
| `P3Session` | `HwrP3Session`, its C entry points, both drives | implements `HostCalls` |
| `P3Stream` | `HwrP3Stream` and its C entry points | the transport, without Init/Next of its own |
| `HttpHandle` | `handle_via_transport`, consumers, producer, frame parser | extends `P3Stream` |
| `Inference` | `complete`, `TokenProducer` | extends `P3Stream` |
| `HttpResources` | the wasi:http resource tables and the guest's handles | |
| `JitMemory` | `jit_memory.rs` on macOS, engine and instance handles | |
| `GuestStores` | `limits.rs` and the stores of sessions and instances | |
| `PluginCalls` | calls and results of `wit/world.wit` | shared vocabulary |
| `PluginStorage` | what a plugin is promised by its sync capabilities | abstract: one store, calls one at a time |
| `StorageEvents`, `Capstone` | the in-memory hosts | `Capstone` extends `StorageEvents` |
| `Filters` | `Iterator::filter` and `Vec::retain` | by the positions that pass, so that it can be reasoned about without induction; used by the next and by `RequestPolicy` and `HttpResources` |
| `Base64` | the codec | pure |
| `TypedHosts` | the three transport hosts | over `HostCalls`, with the application as environment |
| `FetchGate`, `RequestPolicy` | the two policies | pure |
| `GatedHttp` | `GatedHttpHooks` | extends both policies |
| `PluginHosts` | every host a plugin may run on | composes the last seven; implements `PluginStorage` |
| `...Proofs` | - | for each of `P3Session`, `Inference`, `HttpHandle`, `HttpResources`, `JitMemory`, `GuestStores` and `PluginHosts` the inductive invariant and the theorems; `P3StreamProofs` has the lemmas the two drivers share |
| `MC*` | TLC instances (symmetry sets) | |

The modules hold definitions called `Faulty...` (or named for their
defect): the definition they are named after with one plausible mistake. They are not
part of any `Next`; substituting one for the real action must violate the
property `PROJECT.json` pairs it with.

### P3Session

Two processes. The caller's thread (`caller`) is between C calls (`idle`), blocked
in `rx.recv()` (`polling`), or in one of the three statements of `drop()`
(`cancelled`, `joining`, `freed`), which are separate actions because the worker
runs between them. The worker goes `setup` → `guest` ⇄ `awaiting` → `finishing`
→ `exited`.

* `poll()` is `PollFinished` or `PollBlock` followed by one of `PollHostCall`,
  `PollDone`, `PollVanished`.
* A host import is `GuestCall` (send the event, park) then `AwaitAnswered` or
  `AwaitCancelled`; `GuestCallGone` is the import when the receiver is gone.
  `mode` distinguishes the async import of `p3_drive`, which traps on
  cancellation, from the typed hosts, which return an api-error a guest may ignore.
* A oneshot is `unused`, `open`, `answered` or `cancelled`; `slot` is its value.
  Its sender lives in an undelivered event or in `pendingRespond`.
* `fuel` counts guest steps. `WorkerSetup` reads the process-wide override when
  the worker gets there, not when the session was started.
* `given` and `got` are history: what the caller answered while looking at
  request *k*, and what call *k* returned.

A host call's request is its number, an answer is a model value. `DriveReturns`
includes traps and limit traps at any point of guest execution; `WorkerPanic` is
a panic (the release profile unwinds). Pointer getters change nothing and are
left out; so are null arguments other than those that make a start fail.

### P3Stream, HttpHandle, Inference

`P3Stream` has the caller's C calls, the outbound event channel, the inbound
queue, and the worker's beginning and end. `inRx` says who holds the inbound
receiver: the host, a driver call that took it, or nobody. A push that would be
lost (`push_end` done, receiver dropped) changes nothing and is therefore no step.

`HttpHandle` runs any number of `handle` calls as concurrent tasks. An action is
the code between two awaits, so everything inside one `accessor.with` is one
step: head, body/trailers/receiver taken together (`Handle`), one BODY frame per
batch (`ForwardBody`), end of body (`PipeEnd`), trailers in time
(`TrailersResolved`) or too late (`TrailersExpire`: the 64 yields of
`YIELD_BUDGET` are abstracted to "at any time while the value is pending"),
OUT_END (`EndOut`), the response head (`ReceiveHead`, `HeadFails`), and `pipe`
failing (`PipeFails`). `ParseRequestFrames` is the reference parser.
`ClosesBodyEarly` is a guest's habit: TRUE for one that closes its body
independently of `handle`, FALSE for one that awaits `handle` first.

`Inference` has `complete` (head and end sent in one step, then the receiver
taken if it is still there) and the token stream.

### HttpResources

The four tables of `WasiHttpHost` are functions from reps to data; `next` is their
allocator and never goes back. `owned[k][rep]` counts the guest's owned handles,
because the code can mint several for one rep: `GetHeaders` and `GetOptions`
return `Resource::new_own` of the very rep the request refers to, after flagging
the entry immutable. Constructors, `handle` and `consume-body` take handles by
value (`Lift`); only the drops remove entries. `handle` is cut at its await:
`Handle` reads headers and options and takes the streams, `HandleReturns` (or
`HandleMintFails`, `HandleFails`) comes later; `HandleRejected` is a head that
cannot be encoded, which returns before anything is taken. The history variables
`given` and `sent` hold the contents of headers and options when the request or
response was constructed and when they were framed. Method, path, scheme and
authority are one cell, so are the three timeouts; operations that fail change
nothing and are no step. Request trailers are read in `HttpHandle`. Of `handle`
only the transport path is modelled, not the in-process echo.

### JitMemory

Threads load artifacts on engines. Memory is a few pages with a state each, and
`Mappings` returns any free range, so an address is reused as soon as it is
unmapped. `load` is cut where another thread can intervene: after the mapping is
filled (`Map`), after the push onto PENDING (`Push`), during `raw()` (Wasmtime:
`RawRefuses`, `RawEmpty`, `Publish`, `RawFails`, `RawOk`), between the two locks
of `publish_executable` (`Publish`/`Own`) and before `take_pending`
(`TakePending`). `StockMap` is code the hook did not allocate, for which the hook
falls back to `mprotect`. `CodeFree` and `EngineFree` are what the handles' free
functions do to code memory. An engine is not freed during a load on it: every
loader borrows the engine and the C contract says so.

### GuestStores

A session's store is made by its worker (`StartSession`, then
`DriveInstantiates`: limiter, fuel, then memories, tables and instances; or
`DriveRefuses`, a component that does not link or lacks its export) and goes with
its run; an instance's store is made by the caller (`InstanceNew`) and armed again
at every `CallAdd`. `set_fuel_budget` may happen at any moment. A guest on a store
executes (`GuestStep`), grows a memory or a table (`Grows`), runs out of fuel,
traps or returns; waits for the host are `P3Session`'s matter. A component is the
initial sizes of its memories and tables and its number of core instances; sizes
are in units of which a capped one has `MemoryCap` or `TableCap`, and the caps on
size are per memory and per table, as in the code. An error is the chain of its
messages and a message the set of words `classify` looks for that are in it. Each
cap has the words of Wasmtime's own text for it (`OverCapText`): those of the table
and instance caps hold no "memory". What a component chose to call its imports,
exports and functions is quoted in a link error and in the backtrace of a trap, so
`DriveRefuses`, `RunsOut` and `Faults` take any of the word sets `Names`.
`offered`, `spent`, `cause` and `named` are history; what `add` computes is left
out.

### The plugin hosts

`StorageEvents` has one action per method, with the branches of the code: the
permission, both quotas on the state after the write, the payload cap before the
count. `Capstone` adds workspace and log and keeps, as the code does, its own
copy of the grant beside the one of the store it embeds.

`TypedHosts` is the other way to serve the same calls. A typed call is encoded
and issued as a host call of the session (`Forward`; `ForwardRefused` when the
receiver is gone; `NotWired` for what a host does not forward), and `Settle` is
`block_on` coming back, with `Unwrap` for the envelope and the `decode_...`
operators for the data. The session is used through its abstract specification,
`HostCalls`, so that the composition stays small: `p3_session` shows that
`P3Session` implements it. The application is the environment: it keeps strings,
services a call (`AppServes`) or refuses it, answers later, possibly with bytes
that are no JSON, and may free the session in between.

`FetchGate` takes a host as a sequence of labels, of which four octets are an IPv4
literal and one alone may be an IPv6 literal, bare or in the brackets that
`uri.host()` keeps; `parse` is what `host.parse::<IpAddr>()` makes of them.
`RequestPolicy` takes a header as its
normalized text and a header map as the number of values of each name; both are
pure. `GatedHttp` follows each send from the hook to the end of its body: the
gate and the policy decide in `send_request`, in the order of the code, then the
sender (upstream, environment) responds, fails at once or in mid-body, or ends
with trailers, and the guest may drop its future at any time. The library's two
conversions after the hooks (`ErrorToP2`, the forbidden headers) are external.

`PluginHosts` puts them together: a Go or JS guest has `Capstone` and `GatedHttp`
on one store (`GoGuestState`), any other component one of the typed hosts.

## 3. Runs

| Run | Instance | Shows |
|---|---|---|
| `p3_session` | 2 answers, budgets 0 and 1, default and maximum fuel 3 | all properties of `P3Session`, refinement of `HostCalls` included |
| `http_handle` | 1 call, 2 batches, 2 pushes, body closed early | grammar, body, response, free, completion |
| `http_two_handles` | 2 calls, empty bodies, 2 pushes, symmetric calls | sharing of the channels |
| `http_parked` | 1 call, body kept open until `handle` returns | free hangs |
| `http_resources` | 1 fields, 2 requests, 2 options, 2 handles per rep | sharing of headers and options between requests and handles |
| `http_responses` | 3 fields, 1 request, 1 response, 3 names of which two are casings of one | the same for responses, `handle`'s own included; case-insensitive names |
| `http_sent` | as `http_resources` | a request sent without its headers |
| `inference` | 2 `complete` calls, 3 pushes | all properties of `Inference` |
| `jit_memory` | 2 threads, 2 engines, 2 components, 3 pages of 2 bytes, sizes 0, 2 and 3 | all properties of `JitMemory` |
| `plugin_hosts` | 3 keys (2 allowed), values of 0, 1 and 2 bytes with 3 allowed, payloads of 1 and 2 bytes with 1 allowed, 1 event, 1 log line; 2 typed calls; 2 sends, 2 allowlists, 5 requests, 2 upstream header maps | all properties of the plugin hosts, refinement of `PluginStorage` included |
| `guest_stores` | 1 session, 1 instance with 2 calls, budgets 0 and 1 with default 3, all caps 2, 6 components, 3 sets of words in names | all properties of `GuestStores` |
| `stores_capped` | the same, sizes up to 3 | an instance's memory over the cap |

### Properties

`P3Session`
* `AnswerReachesItsCall`: request and responder never get out of step.
* `ResponderHeldOnce`: an open oneshot's sender is in exactly one of the two
  places `drop()` disposes of. This is why freeing cannot leave a call hanging.
* `FinishedIsFinal`: when the caller knows the run is over, it is. (That the
  worker is never ahead of the caller, `OneEventInFlight`, is a theorem.)
* `WedgeOnlyByRepoll`: both threads wait on each other only if the caller polls
  with a call unresolved, which the header forbids.
* `CancelOnlyByFree`: no guest sees a failed call in a session that is not freed.
* `FreeTerminates`, `PollReturns`: liveness.
* `ImplementsHostCalls`: with `CallPhase` as mapping, every step is a step of
  `HostCalls` or stutters, and calls settle.

`HttpHandle`
* `SessionGrammar`: what the caller has drained at OUT_END is one request that
  `parse_request_frames` accepts, and nothing but the Done follows.
* `BodyIntact`: the caller drains each batch a call was given once, after the
  batches before it, and by OUT_END all of them (the last for one call, since the
  OUT_END of several calls do not say whose they are).
* `ResponseInOrder`: inbound frames reach one call only, in order.
* `CallerWasAsked`: caller and worker wait on each other only after an OUT_END has
  told the caller to send, and for one call, which is or was the only one to wait.
* `FreeTerminates`, `HandleCompletes`: liveness, for guests that close their body.

`HttpResources`
* `ContentsFrozen`: headers and options a request or response has taken never
  change while they exist, whatever the guest does through other handles.
* `GoneOnlyByDrop`: an entry someone can still name disappears only because the
  guest dropped a handle on it; dropping, consuming or handling a parent leaves
  its headers and options valid, as the WIT text of `consume-body` says.
* `GivenAwayHoldsNoStream`: `handle` and `consume-body` never remove the entry, so
  tables only grow, but an entry left behind holds no stream, except after a
  rejected head.
* `SetReplacesEveryCasing`: `set` replaces all casings of a name, and no other name.

`Inference`: `TokensInOrder`, `HeadsAreEnded`, `FreeTerminates`, `EndReachesGuest`.

`JitMemory`: `CodeStaysExecutable` (text of a live component stays mapped with
its protection), `RegionHeldOnce` (each MAP_JIT page has exactly one holder, and
PENDING holds nothing of a load that is over), `EnginesFreeTheirMemory`.

`GuestStores`
* `FuelIsThisRuns`: a guest stops for want of fuel only when this run or call has
  used the whole of a budget that was in force between its start and the arming of
  its store. Earlier calls on the same store and later changes of the budget do
  not count.
* `SessionsStayUnderCap`: no session has a memory or a table over its cap, nor too
  many of them. (The stores of instances are `stores_capped`'s.)
* `LimitHasItsPrefix`: an error at a memory cap has that cap's prefix and one at
  the fuel has a prefix, wherever in the chain the limit is named and whatever
  names the component chose. Where those names hold none of the words, fuel has
  its own prefix and no other error has one.
* `EveryRunEnds`: liveness, from fuel alone; a guest parked on the host is
  `P3Session`'s and `HttpHandle`'s `FreeTerminates`.

The plugin hosts
* `ImplementsPluginStorage`: on every host, a call that returns Ok has taken
  effect exactly once and returns what was stored at that moment, a refused call
  has no effect, and only a freed session or an unreadable answer leaves it in
  doubt. The mapping takes the store from the in-memory host, or decodes the
  application's strings; a call is served once the application has serviced it,
  before the guest hears of it.
* `QuotaIsExact`: no sequence of calls exceeds a quota, and a write that would fit
  is never refused, an overwrite at the limit included.
* `UngrantedSeesNothing`: both copies of the grant guard what they should.
* `WireIsGated`: what reaches the sender is https to an allowed host without the
  credential handle, with allowed headers and one Host, that of the URI the gate
  looked at; what the gate refuses never gets there.
* `GuestSeesSanitized`: no text of an error and no cookie header reaches the
  guest by any of the ways, and kinds and all other headers do.
* `DroppedIsExact`: over all sends, the counter is the number of values handed
  over and not sent. The Host that the library sets before the hooks run is
  handed over and counted, too.
* `GateDecides`, `FiltersAgree`, `CodecAgreesWithRfc`: the sends of the run were
  decided and filtered, and the strings the application keeps are encoded, as a
  declarative reference says; and the pure algorithms agree with that reference
  over bounded inputs (`DecidesOnSamples`, `AgreeOnSamples`, `AgreesOnSamples`):
  all 2^16 leading bits of an IPv4 address and of an IPv6 address, hosts of up to
  four labels and IPv6 literals against two allowlist entries; up to three headers with repetitions and spellings; byte
  strings of up to four bytes at the edges of the bit fields, and strings of up to
  five characters with padding, a line break and a foreign character.

The reference of the gate has two forms. `MayLeave` is the documented rule, which
blocks literals of both versions in brackets or not; `Lets` is what the code does:
the same, but for an IPv6 literal in brackets, of which it decides scheme and
allowlist only, so that one in a blocked range gets through (section 6).
`GateDecides` states `Lets`: for every other host that is `MayLeave`.

Except in `p3_session`, `TypeOK` belongs to no run: it is part of what is proved,
or stated for the proofs to come.

### Bounds

Three host calls are enough to have one returned, one in flight and one to come;
a call sent, surfaced or answered at the moment of each statement of `drop()` all
occur. A budget of 1 next to the default of 3 makes a budget change race the
start of a worker, and fuel run out with a call in flight. Two batches and two
pushes distinguish order and loss; the two-call run drops batches, since its
question is who gets the inbound frames. Three pages for two loads force address
reuse; sizes 0, 2 and 3 bytes are an empty, an exact and a rounded page count.
One fields and two requests are the least with which one entry has two parents and
several handles at once, two options the least with a clone; a response with trailers next to a request's headers
takes three fields. For the plugin hosts the quotas are small enough that each is
reached, exceeded and made room under; two typed calls are a write and a read of
what it wrote, with a free at any point between; keys are symmetric, since nothing
orders them. One future at a time and two sends show that a counter outlives its
sends. A budget of 1 and a default of 3 distinguish this run's budget, the last
one's and the next one's; components under every cap, over each and with a memory
too many give every way of failing to instantiate, and names with no word, with one
of the CPU limit and with those of the memory limit each outcome of `classify`. A
literal of each version in the allowlists and requests takes the gate to its last
check. Reps are `u32` in the code and are not followed to overflow.
Deadlock is not checked where the system may stop (a freed or refused session, a
guest that makes no more calls on its resources);
it is in `JitMemory`.

### Fairness

Weak fairness only, of what the code or the OS carries through by itself: the
worker's steps, the return of a poll that can return, and the second and third
statements of a `drop()` that has begun. The caller owes nothing else: it may
never poll, resolve or free. The worker's fairness includes the guest, whose
execution consumes fuel (`consume_fuel` is set on every engine), so it cannot
run for ever. In `HttpHandle` the executor polls every ready task, a guest whose calls
have returned ends on its fuel, and a guest that can close its body does (this is
the assumption `http_parked` drops). In `Inference` a guest with an open stream
is parked on a read, or executes on its fuel until it reads, drops it or ends. In
`GuestStores` a thread that executes a guest goes on executing it; no call, free
or budget change is assumed to happen. The plugin hosts have safety properties
only: their liveness is the session's.

## 4. Proofs

Every theorem `Spec => []P` below has the same shape: a conjunction of named
parts that contains or implies `P`, a lemma that `Init` establishes it, a lemma
for each action (or group of actions that disturb the same parts) that the action
preserves it, and a temporal step. TLC checked each inductive invariant on the
instances of section 3 before it was proved. The constants are arbitrary, within
the `ASSUME`s of the modules, which the runs evaluate.

### P3Session

For every set of answers, every budget and every bound on fuel
(`AnswersAssumption`, `FuelAssumption`): `TypeOK`, `AnswerReachesItsCall`,
`ResponderHeldOnce`, `OneEventInFlight`, `FinishedIsFinal`, `WedgeOnlyByRepoll`
and `CancelOnlyByFree`.

None of them is inductive alone: that an answer reaches its call depends on the
pending request and responder being the same call, which depends on there being
one event at most, which depends on the worker being parked while a call is
open. The inductive invariant `Inv` is `TypeOK` with
* `CallsInv`: exactly the oneshots up to `calls` have been used, and the fuel left
  pays for the calls to come (`calls + fuel <= MaxFuel`, which keeps call numbers
  in range);
* `SessionInv`: how the caller's, the worker's and the receiver's states relate;
  outside a free, request and responder are the same call, which is the one the
  worker is parked on, with the channel empty;
* `ChannelInv`: the channel is empty or holds one event, either the call the
  worker is parked on or the Done of an exited worker;
* `ResponderInv`: an open oneshot belongs to the call in flight and its responder
  is in the event or in the session;
* `AnswerInv`: a slot holds what was given, a returned call what was in its slot,
  a call has no value exactly while it is in flight or to come, and cancelled
  oneshots exist only while freeing.

`RefinesHostCalls` is the safety part of `ImplementsHostCalls`: `Spec => HC!Spec`
under the mapping of `P3Session`, one lemma per action saying which step of
`HostCalls` it is, or that it is none.

### The streaming session: P3StreamProofs, InferenceProofs, HttpHandleProofs

`P3StreamProofs` says once, for both drivers and with their frames as a parameter,
what the transport does to types, to the inbound queue and to `Sent`, the events
drained followed by the events still in the channel: a poll leaves `Sent` as it
is, a send appends to it, and only the free cuts it.

`Inference`, for any number of pushes and of `complete` calls: `TokensInOrder` and
`HeadsAreEnded`. Tokens read and tokens queued are 1, 2, 3, ... up to the last one
pushed for as long as somebody has the receiver (`QueueInv`), a stream that is
open holds it (`TakenInv`), and what was sent is head and end of every call, then
at most a Done (`SentInv`).

`HttpHandle`, for every set of concurrent calls and any number of batches and
pushes: `ResponseInOrder`, `CallerWasAsked` and `BodyIntact`; `SessionGrammar`
under the hypothesis that the guest makes one call (`Handles = {h}`), without
which the code does not have it (section 6). The inductive invariant speaks of
`Sent` rather than of what was drained:
* `CallInv`, `QueuedInv`: what a call at a given point has and holds; its queue is
  the batches from the first one not forwarded to the last one written;
* `HolderInv`, `OrderInv`: one call at most has the receiver, and what it has read
  and what is queued are the pushes in order, to the last;
* `BatchInv`: the batches sent are exactly those forwarded, once and in order;
  `AskedInv`: a call that waits has sent an OUT_END; `DoneInv`: Done is last;
* for one call, `HeadInv`, `TrailersInv`, `EndInv`: the head is the first frame and
  there is no other, no frame follows the trailers, and only a Done follows OUT_END,
  before which the whole body was sent.

That the frames of one call then pass `ParseRequestFrames` follows frame by frame:
no position has an error.

### HttpResources

For every set of names, values and timeouts and any number of reps
(`ResourcesAssumption`): `ContentsFrozen`, `GoneOnlyByDrop`,
`GivenAwayHoldsNoStream` and `SetReplacesEveryCasing`. That headers do not change is
not inductive: it rests on *who could change them*. The invariant says that an entry not flagged immutable
has one handle at most (`HandlesOK`), and none once a request or response refers
to it (`Kept`); that every rep in use is below the allocator, so a new entry
cannot take the place of a dropped one; and that requests and responses, which are
never shared, have one handle (`OneHandle`).

`SetReplacesEveryCasing` needs to know what a filter returns. `Filters` says it by
positions: the *n*-th element kept is the one at the position of rank *n* among
those that pass. Two lemmas carry everything else: the ranks of a finite set of
positions are 1, 2, ... up to its size, each once (`RankFacts`), and any increasing
enumeration of the positions is that by rank (`Listing`). `SetThenGet` then follows
for any entries: those that match after the set are the ones appended, those that
match another name are the ones that matched it before, in the same order. That a
fields holds such entries in every state is an invariant of its own (`EntriesOK`).

### JitMemory

For every number of threads, engines, components and pages and every page size
(`SizesAssumption`; `NoneAssumption` keeps `None` apart from what it stands beside):
`TypeOK`, `CodeStaysExecutable`, `RegionHeldOnce` and `EnginesFreeTheirMemory`.
The invariant is about the mappings as a whole (`MapsOK`): those held by loads, by
PENDING, by hooks and by Wasmtime itself are disjoint and are all that is mapped.
Disjointness is what makes the address-keyed searches of `publish_executable` and
`take_pending` find the right region, and `LoadInv`, `DistinctInv` and
`PendingInv` say where the region of each load is at every point of it.

### GuestStores

For every set of sessions and instances, any components and budgets
(`StoresAssumption`): `FuelIsThisRuns`, `SessionsStayUnderCap` and
`LimitHasItsPrefix` (with any words in a component's names), with `FreshInv` (a store that has not run has spent nothing),
`OfferInv` (a session that is starting is offered every budget that comes into
force) and `MessageInv` (a message only at the end).

### PluginHosts

For every set of keys, values, payloads, requests and headers, any quotas and any
number of calls (`BytesAssumption`, `QuotaAssumption`, `MaxCallsAssumption`,
`MaxSendsAssumption`; `RequestsAssumption` says that a request is a record of
scheme, host and headers, whose host is a non-empty sequence of labels,
`AllowlistsAssumption` that an allowlist is a sequence of entries, and
`LabelTextsAssumption` that the sample hosts of `FetchGate` are hosts):
* `UngrantedSeesNothing`, from the agreement of the harness's and the store's copy
  of the grant (`GrantInv`).
* `QuotaIsExact`, both its parts. `QuotaInv` adds that what is stored is finite
  and made of bytes. `TotalBytes` counts the stored bytes as the pairs of a key and
  a position in its value, which is the sum of the lengths that `total_bytes`
  computes; a write then replaces the pairs of the displaced value by those of the
  new one, and cardinalities add up (`BytesWith`).
* `WireIsGated`, `DroppedIsExact` and `GuestSeesSanitized`, from `HttpInv`: each
  send is a record whose wire, error, head and trailers are what the two
  properties say of them, and the counter is exact. These say that nothing gets
  around the gate and the policy; the next two, that gate and policy are right.
* `GateDecides`. `GateIsTheDocumentedOne` is about `check_request` alone, for every
  host and allowlist: the lower-case and suffix comparisons of `origin_allowed` are
  the covering of the reference (`OriginAllowedIsCovered`), the octet tests are the
  documented prefixes (`BlockedV4IsDocumented`), so are the masks on the segments of
  any IPv6 address, a mapped IPv4 address included (`BlockedV6IsDocumented`), a host
  parses to a blocked address exactly when it is a documented literal outside
  brackets (`BlockedLiterals`), and `localhost` is recognised in any spelling. The
  exception for brackets is part of the statement (`Lets`): for every other host it
  is the documented rule.
  `DecidedInv` carries it along a send: from `send_request` to the end of the body
  a send is at the sender exactly if the gate permits its request, under an
  allowlist that never changes.
* `FiltersAgree`. `BothFormsAgree` compares the two forms of the policy for headers
  of any number: filtering the pairs by name filters the map (`FilteredMap`, by the
  bijection between a name's places before and after), and the values of a map are
  as many as the pairs appended to it (`EveryValueCounted`, by numbering the places
  of each name), so the drops counted are the same. `DecidedInv` also says that a
  send carries what the policy keeps of its headers.
* `CodecAgreesWithRfc`. `DecodesAsTheRfc`: chunk by chunk, the bytes that
  `b64_decode` makes of four symbols are those of the 24 bits the RFC concatenates
  (`BytesOfChunk`), for every string, a damaged or truncated one included. With
  `TypedInv` and `CodecRoundTrip` it gives what the application keeps.
* `ImplementsPluginStorage`, the refinement of `PluginStorage`, which is a safety
  property throughout. It takes two results. `CodecRoundTrip`: `b64_decode` of
  `b64_encode` is the identity on every byte string, by chunks: where the
  characters of a chunk are (`EncodedChunk`), which of them are symbols
  (`SymbolCounts`, `EncodedSymbols`), and that the four six-bit values of three
  bytes give them back (`SixBits`). `TypedInv`: at most one host call is under way,
  it is the encoding of the typed call in progress, an answer that has arrived is
  the application's reaction or garbage (`CallMatches`), and the application holds
  encodings of what guests sent and nothing else (`AppHoldsEncodings`). Every
  action then is one step of the promise (`GoGuestStep`, `ForwardStep`,
  `RefusedStep`, `ServeStep`, `SettleStep`) or none (`InvisibleStep`).

### Only model-checked

* Liveness, and with it the fairness part of `ImplementsHostCalls`: fairness is
  beyond the prover.

Every safety property that a passing run checks is the statement of a theorem.
`ImplementsHostCalls` is, but for its fairness part.

## 5. Not modelled

* The demo evaluators `hwr_eval_*` and `hwr_read_portfolio_count`: one-shot calls
  without state. The pointer getters, `hwr_precompile_component` and
  `hwr_free_bytes`: no state either.
* The records of the workspace reads other than `read-portfolio-names`
  (`decode_record` stands for their decoders, which never fail), and data of an
  unexpected JSON type, which the application of the model never sends although
  the decoders say what would become of it.
* The spellings of an IPv6 address (a literal is its segments, and its case). The
  resolution of names, which `fetch_gate.rs` leaves to others.
* The in-process echo of `handle`, the stub senders, linking.
* In the frame format, payload bytes.

In code memory, the failure of `unpublish_executable`'s `mprotect` is
left out, and the per-thread JIT write window is part of `Map` (nothing else runs
on that thread while it is open).

## 6. Findings

* **Free can hang on an open request body** (`http_parked`). `handle` waits for the
  guest to close its body before looking at anything the caller controls. A guest
  that closes the body after `handle` returns parks the worker; closing inbound
  does not wake it, and `hwr_p3s_free` joins for ever.
* **Dropping a child handle empties the request** (`http_sent`). The handle from
  `get-headers` or `get-options` owns the request's own entry, so dropping it, as
  the WIT asks of a child before `handle`, removes the headers or timeouts from
  the request, and `handle` sends it without them.
* **Instance stores are not capped** (`stores_capped`). The header and `limits.rs`
  say that every guest store has a memory cap; the stores behind
  `hwr_instance_new` and `hwr_instance_new_precompiled` have fuel and no limiter.

Deviations met while modelling that no run is spent on:

* A literal in brackets is taken for a name. The host of a URI (`uri.host()`,
  `wasi_guests.rs`) keeps the brackets of an IPv6 literal, with which it does not
  parse as an address; `check_request` then allows an allowlisted literal in a range
  that the documentation of `fetch_gate.rs` blocks. `Lets` models what the code
  does, and one of the requests of `plugin_hosts` is such a literal.
* The limits on tables, table elements and instances have no prefix. `classify`
  knows a store limit by the word memory, which Wasmtime's texts for these caps do
  not hold, although `limits.rs` promises a prefix for every resource limit.
* An ordinary error may have a prefix. The words are searched for in the whole
  text, names a component chose included, although `annotate` promises that
  ordinary errors are returned unchanged. `LimitHasItsPrefix` states what holds in
  both cases.
* With two concurrent `handle` calls a second HEAD may come before the first
  OUT_END, as the calls share one outbound stream; the frame grammar has exactly
  one of each. `http_two_handles` runs into it; `SessionGrammar` is therefore a
  property of the one-call run.
* `poll()` answers `HWR_P3_DONE` for any finished session, one that ended in an
  error included, in both session types; the header says "run finished OK".
  `PollFinished` models what the code does.
* If the worker panics, the caller gets `HWR_P3_ERROR` with an empty result
  (`PollVanished`); the header promises a message.
* `log.write` of the full host is described as fire-and-forget and waits for the
  application's answer like any other call.

## 7. What is left

Liveness stays with TLC: `FreeTerminates`, `PollReturns`, `HandleCompletes`,
`EndReachesGuest`, `EveryRunEnds` and the settling of calls that
`ImplementsHostCalls` includes. Of the modelled code, the in-process echo of
`handle` and the payload bytes of the frame format (section 5) would be the next to
model.
