---------------------------- MODULE GuestStores ----------------------------
(***************************************************************************)
(* The stores guests run on and what bounds them (src/limits.rs and its    *)
(* users in src/lib.rs).  A session's store lives for one run, on the      *)
(* worker thread its start function spawned; an instance's store lives     *)
(* behind a handle that is called again and again.  All share one process- *)
(* wide fuel budget, which any thread may change at any time.              *)
(*                                                                         *)
(* Memories and tables are counted in units of which a capped one may have *)
(* MemoryCap or TableCap; an error is the chain of its messages, outermost *)
(* first, and a message the set of the words limits.rs looks for that are  *)
(* in it.  Some come from Wasmtime, some from names a component chose.     *)
(***************************************************************************)
EXTENDS Integers, Sequences, FiniteSetsExt

CONSTANTS
  Sessions, Instances,  \* the stores of each kind
  Components,           \* what a component instantiates: the initial sizes of its
                        \* memories and tables, and how many core instances
  Budgets,              \* the values passed to hwr_set_fuel_budget (0 = default)
  DefaultFuel,          \* DEFAULT_FUEL, in guest steps
  MemoryCap, TableCap,  \* DEFAULT_MEMORY_BYTES, DEFAULT_TABLE_ELEMENTS
  MemoriesCap, TablesCap, InstancesCap,  \* DEFAULT_MEMORIES, _TABLES, _INSTANCES
  MaxSize,              \* bound on a memory or table without a limiter
  Names,                \* sets of words that a component's names put in a message
  MaxCalls              \* bound on the calls made on an instance

ASSUME StoresAssumption ==
  /\ Sessions \cap Instances = {}
  /\ {DefaultFuel, MemoryCap, TableCap, MemoriesCap, TablesCap, InstancesCap,
      MaxSize, MaxCalls} \cup Budgets \subseteq Nat
  /\ DefaultFuel > 0 /\ MemoryCap <= MaxSize /\ TableCap <= MaxSize
  /\ Components \subseteq [memories : Seq(Nat), tables : Seq(Nat), instances : Nat]
  /\ Names \subseteq SUBSET {"fuel", "epoch", "interrupt", "memory", "limit", "exceed"}

Stores == Sessions \cup Instances

VARIABLES
  fuelOverride,  \* FUEL_OVERRIDE
  stage,         \* stage[s]: what the store, or the handle before it, is doing
  fuel,          \* fuel[s]: left in the store
  memories,      \* memories[s]: the sizes of its linear memories
  tables,        \* tables[s]: the numbers of elements of its tables
  message,       \* message[s]: the prefix of a session's error, or "none"
  calls,         \* calls[s]: calls made on an instance
  \* history
  offered,       \* offered[s]: the budgets in force from the start of the run until
                 \* its store was given fuel
  spent,         \* spent[s]: steps executed in this run
  cause,         \* cause[s]: why the last run stopped
  named          \* named[s]: the words of the component's names in a session's error

vars == <<fuelOverride, stage, fuel, memories, tables, message, calls, offered, spent,
          cause, named>>

\* fuel_budget()
FuelBudget == IF fuelOverride = 0 THEN DefaultFuel ELSE fuelOverride

\* A guest runs on the store.
Executing(s) == stage[s] \in {"running", "instantiating", "calling"}

Init ==
  /\ fuelOverride = 0
  /\ stage = [s \in Stores |-> "none"]
  /\ fuel = [s \in Stores |-> 0]
  /\ memories = [s \in Stores |-> <<>>]
  /\ tables = [s \in Stores |-> <<>>]
  /\ message = [s \in Stores |-> "none"]
  /\ calls = [s \in Stores |-> 0]
  /\ offered = [s \in Stores |-> {}]
  /\ spent = [s \in Stores |-> 0]
  /\ cause = [s \in Stores |-> "none"]
  /\ named = [s \in Stores |-> {}]

-----------------------------------------------------------------------------
(* Error texts.                                                            *)

\* "memory minimum size of .. exceeds memory limits", "table minimum size of ..
\* exceeds table limits", "resource limit exceeded: <kind> count too high".
OverCapText(cap) == {"limit", "exceed"} \cup (IF cap = "memory" THEN {"memory"} ELSE {})

classify(text) ==
  CASE text \cap {"fuel", "epoch", "interrupt"} # {} -> "cpu-limit"
    [] /\ text \cap {"fuel", "epoch", "interrupt"} = {}
       /\ "memory" \in text /\ text \cap {"limit", "exceed"} # {} -> "memory-limit"
    [] OTHER -> "none"

\* Only the outermost message is looked at.
FaultyClassifyChain(chain) == classify(chain[1])

\* The first message of the chain that names a limit.
classify_chain(chain) ==
  LET found == {i \in DOMAIN chain : classify(chain[i]) # "none"}
  IN  IF found = {} THEN "none" ELSE classify(chain[Min(found)])

\* A trap is the cause of an outer "error while executing at wasm backtrace",
\* which lists the guest's functions by the names the component gives them.
TrapText(why, names) == <<names, IF why = "fuel" THEN {"fuel"} ELSE {}>>

Limits == {"fuel", "memory", "table", "instances"}

-----------------------------------------------------------------------------
(* Faulty variants, as in P3Session.                                       *)

\* Over its cap: too many, or one too large.
Over(sizes, count, most) == Len(sizes) > count \/ \E i \in DOMAIN sizes : sizes[i] > most

\* An initial memory is not compared with the cap.
FaultyOverCaps(c) ==
  {cap \in {"memory", "table", "instances"} :
     CASE cap = "memory"    -> Len(c.memories) > MemoriesCap
       [] cap = "table"     -> Over(c.tables, TablesCap, TableCap)
       [] cap = "instances" -> c.instances > InstancesCap}

\* The fuel that earlier calls have left is used up.
FaultyCallAdd(s) ==
  /\ stage[s] = "ready" /\ calls[s] < MaxCalls
  /\ stage' = [stage EXCEPT ![s] = "calling"]
  /\ calls' = [calls EXCEPT ![s] = @ + 1]
  /\ spent' = [spent EXCEPT ![s] = 0]
  /\ offered' = [offered EXCEPT ![s] = {FuelBudget}]
  /\ UNCHANGED <<fuelOverride, fuel, memories, tables, message, cause, named>>

\* A new budget is given to the guests that are running, too.
LiveSetFuelBudget(n) ==
  /\ fuelOverride' = n
  /\ LET budget == IF n = 0 THEN DefaultFuel ELSE n
     IN  fuel' = [s \in Stores |-> IF Executing(s) THEN budget ELSE fuel[s]]
  /\ spent' = [s \in Stores |-> IF Executing(s) THEN 0 ELSE spent[s]]
  /\ UNCHANGED <<stage, memories, tables, message, calls, offered, cause, named>>

-----------------------------------------------------------------------------
(* The C ABI and the worker threads.                                       *)

\* hwr_set_fuel_budget, from any thread.
set_fuel_budget(n) ==
  /\ fuelOverride' = n
  /\ LET budget == IF n = 0 THEN DefaultFuel ELSE n
     IN  offered' = [s \in Stores |-> offered[s] \cup (IF stage[s] = "spawned" THEN {budget} ELSE {})]
  /\ UNCHANGED <<stage, fuel, memories, tables, message, calls, spent, cause, named>>

\* store_limits, when a component's memories, tables and instances are created:
\* the caps it is over.
OverCaps(c) ==
  {cap \in {"memory", "table", "instances"} :
     CASE cap = "memory"    -> Over(c.memories, MemoriesCap, MemoryCap)
       [] cap = "table"     -> Over(c.tables, TablesCap, TableCap)
       [] cap = "instances" -> c.instances > InstancesCap}

\* hwr_p3_start* and hwr_p3s_start*: the worker is spawned, nothing is armed yet.
StartSession(s) ==
  /\ s \in Sessions /\ stage[s] = "none"
  /\ stage' = [stage EXCEPT ![s] = "spawned"]
  /\ offered' = [offered EXCEPT ![s] = {FuelBudget}]
  /\ UNCHANGED <<fuelOverride, fuel, memories, tables, message, calls, spent, cause, named>>

\* The drive, up to instantiate: limiter, set_fuel, then what the component
\* instantiates.  Which of several caps it meets first is Wasmtime's order.
DriveInstantiates(s, c) ==
  /\ stage[s] = "spawned"
  /\ fuel' = [fuel EXCEPT ![s] = FuelBudget]
  /\ \/ /\ OverCaps(c) = {}
        /\ stage' = [stage EXCEPT ![s] = "running"]
        /\ memories' = [memories EXCEPT ![s] = c.memories]
        /\ tables' = [tables EXCEPT ![s] = c.tables]
        /\ UNCHANGED <<message, cause>>
     \/ \E cap \in OverCaps(c) :
          /\ stage' = [stage EXCEPT ![s] = "ended"]
          /\ cause' = [cause EXCEPT ![s] = cap]
          /\ message' = [message EXCEPT ![s] = classify_chain(<<OverCapText(cap)>>)]
          /\ UNCHANGED <<memories, tables>>
  /\ UNCHANGED <<fuelOverride, calls, offered, spent, named>>

\* The linker, instantiate or get_typed_func fails on what the component imports
\* or lacks; the error quotes the component's names.
DriveRefuses(s, names) ==
  /\ stage[s] = "spawned"
  /\ fuel' = [fuel EXCEPT ![s] = FuelBudget]
  /\ stage' = [stage EXCEPT ![s] = "ended"]
  /\ cause' = [cause EXCEPT ![s] = "component"]
  /\ message' = [message EXCEPT ![s] = classify_chain(<<names>>)]
  /\ named' = [named EXCEPT ![s] = names]
  /\ UNCHANGED <<fuelOverride, memories, tables, calls, offered, spent>>

\* hwr_instance_new and hwr_instance_new_precompiled: a Store<()> with fuel and
\* no limiter; instantiation runs the guest's start functions.
InstanceNew(s, c) ==
  /\ s \in Instances /\ stage[s] = "none"
  /\ stage' = [stage EXCEPT ![s] = "instantiating"]
  /\ fuel' = [fuel EXCEPT ![s] = FuelBudget]
  /\ memories' = [memories EXCEPT ![s] = c.memories]
  /\ tables' = [tables EXCEPT ![s] = c.tables]
  /\ offered' = [offered EXCEPT ![s] = {FuelBudget}]
  /\ UNCHANGED <<fuelOverride, message, calls, spent, cause, named>>

\* Null engine or bytes, or a component that does not compile, deserialize or link.
InstanceNewFails(s) ==
  /\ s \in Instances /\ stage[s] = "none"
  /\ stage' = [stage EXCEPT ![s] = "null"]
  /\ UNCHANGED <<fuelOverride, fuel, memories, tables, message, calls, offered, spent, cause, named>>

\* hwr_instance_call_add replenishes the fuel for this call.
CallAdd(s) ==
  /\ stage[s] = "ready" /\ calls[s] < MaxCalls
  /\ stage' = [stage EXCEPT ![s] = "calling"]
  /\ calls' = [calls EXCEPT ![s] = @ + 1]
  /\ fuel' = [fuel EXCEPT ![s] = FuelBudget]
  /\ spent' = [spent EXCEPT ![s] = 0]
  /\ offered' = [offered EXCEPT ![s] = {FuelBudget}]
  /\ UNCHANGED <<fuelOverride, memories, tables, message, cause, named>>

\* After a trap Wasmtime refuses to enter the instance again: the call only
\* replenishes the fuel and returns i64::MIN.
CallTrapped(s) ==
  /\ stage[s] = "trapped" /\ calls[s] < MaxCalls
  /\ calls' = [calls EXCEPT ![s] = @ + 1]
  /\ fuel' = [fuel EXCEPT ![s] = FuelBudget]
  /\ UNCHANGED <<fuelOverride, stage, memories, tables, message, offered, spent, cause, named>>

InstanceFree(s) ==
  /\ stage[s] \in {"ready", "trapped"}
  /\ stage' = [stage EXCEPT ![s] = "freed"]
  /\ memories' = [memories EXCEPT ![s] = <<>>]
  /\ tables' = [tables EXCEPT ![s] = <<>>]
  /\ UNCHANGED <<fuelOverride, fuel, message, calls, offered, spent, cause, named>>

-----------------------------------------------------------------------------
(* The guest, on Wasmtime.                                                 *)

GuestStep(s) ==
  /\ fuel[s] > 0
  /\ fuel' = [fuel EXCEPT ![s] = @ - 1]
  /\ spent' = [spent EXCEPT ![s] = @ + 1]
  /\ UNCHANGED <<fuelOverride, stage, memories, tables, message, calls, offered, cause, named>>

\* One of sizes grows by a unit, if it may.
Grown(sizes, i, most) == [sizes EXCEPT ![i] = IF @ < most THEN @ + 1 ELSE @]

\* memory.grow and table.grow by one unit; -1, and no more than that, past the
\* cap of a session's limiter.
Grows(s) ==
  /\ fuel[s] > 0
  /\ fuel' = [fuel EXCEPT ![s] = @ - 1]
  /\ spent' = [spent EXCEPT ![s] = @ + 1]
  /\ \/ /\ \E i \in DOMAIN memories[s] : memories' =
             [memories EXCEPT ![s] = Grown(@, i, IF s \in Sessions THEN MemoryCap ELSE MaxSize)]
        /\ UNCHANGED tables
     \/ /\ \E i \in DOMAIN tables[s] : tables' =
             [tables EXCEPT ![s] = Grown(@, i, IF s \in Sessions THEN TableCap ELSE MaxSize)]
        /\ UNCHANGED memories
  /\ UNCHANGED <<fuelOverride, stage, message, calls, offered, cause, named>>

\* A trap ends a session with an annotated message; an instance reports it as
\* a null handle or i64::MIN.
Traps(s, why, names) ==
  /\ cause' = [cause EXCEPT ![s] = why]
  /\ stage' = [stage EXCEPT ![s] =
       CASE @ = "running" -> "ended" [] @ = "instantiating" -> "null" [] OTHER -> "trapped"]
  /\ IF s \in Sessions
       THEN /\ message' = [message EXCEPT ![s] = classify_chain(TrapText(why, names))]
            /\ named' = [named EXCEPT ![s] = names]
       ELSE UNCHANGED <<message, named>>
  /\ memories' = [memories EXCEPT ![s] = IF stage[s] = "calling" THEN @ ELSE <<>>]
  /\ tables' = [tables EXCEPT ![s] = IF stage[s] = "calling" THEN @ ELSE <<>>]
  /\ UNCHANGED <<fuelOverride, fuel, calls, offered, spent>>

RunsOut(s, names) == fuel[s] = 0 /\ Traps(s, "fuel", names)
Faults(s, names)  == Traps(s, "guest", names)

\* The store of a session goes with its run.
Finishes(s) ==
  /\ cause' = [cause EXCEPT ![s] = "returned"]
  /\ stage' = [stage EXCEPT ![s] = IF @ = "running" THEN "ended" ELSE "ready"]
  /\ memories' = [memories EXCEPT ![s] = IF s \in Sessions THEN <<>> ELSE @]
  /\ tables' = [tables EXCEPT ![s] = IF s \in Sessions THEN <<>> ELSE @]
  /\ UNCHANGED <<fuelOverride, fuel, message, calls, offered, spent, named>>

Executes(s) ==
  /\ Executing(s)
  /\ \/ GuestStep(s) \/ Grows(s) \/ Finishes(s)
     \/ \E names \in Names : RunsOut(s, names) \/ Faults(s, names)

Next ==
  \/ \E n \in Budgets : set_fuel_budget(n)
  \/ \E s \in Stores :
       \/ StartSession(s) \/ InstanceNewFails(s) \/ CallAdd(s) \/ CallTrapped(s) \/ InstanceFree(s)
       \/ \E c \in Components : DriveInstantiates(s, c) \/ InstanceNew(s, c)
       \/ \E names \in Names : DriveRefuses(s, names)
       \/ Executes(s)

Spec == Init /\ [][Next]_vars

\* A thread that executes a guest goes on executing it.
FairSpec == Spec /\ \A s \in Stores : WF_vars(Executes(s))

-----------------------------------------------------------------------------
(* Properties.                                                             *)

\* Every variable stays in its range, and only the store of a session, or of an
\* instance, goes through the stages of one.
TypeOK ==
  /\ fuelOverride \in Budgets \cup {0}
  /\ stage \in [Stores -> {"none", "spawned", "running", "ended", "instantiating", "null",
                          "ready", "calling", "trapped", "freed"}]
  /\ \A s \in Stores : /\ stage[s] \in {"spawned", "running", "ended"} => s \in Sessions
                       /\ stage[s] \notin {"none", "spawned", "running", "ended"} => s \in Instances
  /\ fuel \in [Stores -> Nat] /\ spent \in [Stores -> Nat] /\ calls \in [Stores -> Nat]
  /\ memories \in [Stores -> Seq(Nat)] /\ tables \in [Stores -> Seq(Nat)]
  /\ message \in [Stores -> {"none", "cpu-limit", "memory-limit"}]
  /\ offered \in [Stores -> SUBSET Nat]
  /\ cause \in [Stores -> Limits \cup {"none", "component", "guest", "returned"}]
  /\ named \in [Stores -> Names \cup {{}}]

\* A guest is stopped for want of fuel only when this very run or call has used
\* up the whole of a budget that was in force between its start and the arming
\* of its store: not for what earlier calls on the same store have used, and not
\* by a budget that is set while it runs.  It never gets more, either.
FuelIsThisRuns ==
  \A s \in Stores :
    /\ cause[s] = "fuel" /\ ~Executing(s) => spent[s] \in offered[s]
    /\ Executing(s) => fuel[s] + spent[s] \in offered[s]

\* hellohq_wasm_runtime.h: memory.grow past the cap returns -1 and an over-cap
\* initial memory fails instantiation.  No session ever has a memory or a table
\* over its cap, nor more of them than it may have.
SessionsStayUnderCap ==
  \A s \in Sessions : /\ ~Over(memories[s], MemoriesCap, MemoryCap)
                      /\ ~Over(tables[s], TablesCap, TableCap)

\* The application tells "took too long" and "used too much memory" from a
\* plugin's own failure by a prefix.  A session stopped at its fuel always has
\* one and a session over a memory cap has that cap's, however deep in the chain
\* it is named; as long as the component's names hold none of the words that
\* annotate searches for, fuel has its own prefix and no other error has one.
\* Among those without one are the errors of the caps on tables and instances,
\* whose texts name no memory.
LimitHasItsPrefix ==
  \A s \in Sessions : stage[s] = "ended" =>
    /\ cause[s] = "memory" => message[s] = "memory-limit"
    /\ cause[s] = "fuel" => message[s] # "none"
    /\ classify(named[s]) = "none" =>
         /\ cause[s] = "fuel" => message[s] = "cpu-limit"
         /\ cause[s] \notin {"fuel", "memory"} => message[s] = "none"

\* limits.rs: a hard CPU bound.  Every run ends, that of a guest which never
\* returns and that of one which only grows its memory included.
EveryRunEnds == \A s \in Stores : Executing(s) ~> ~Executing(s)

-----------------------------------------------------------------------------
\* hellohq_wasm_runtime.h: "Every guest store is capped: linear memory at 256
\* MiB"; the stores of instances are guest stores without a limiter.
EveryStoreCapped == \A s \in Stores : \A i \in DOMAIN memories[s] : memories[s][i] <= MemoryCap
=============================================================================
