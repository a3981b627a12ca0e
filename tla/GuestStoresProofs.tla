------------------------- MODULE GuestStoresProofs -------------------------
(***************************************************************************)
(* Proofs about GuestStores, for every set of sessions and instances, any  *)
(* components and any budgets.                                             *)
(***************************************************************************)
EXTENDS GuestStores, TLAPS

-----------------------------------------------------------------------------
(* The inductive invariant.                                                *)

\* A store that has not run yet has used nothing and has no reason to have
\* stopped.
FreshInv ==
  \A s \in Stores :
    stage[s] \in {"none", "spawned"} => spent[s] = 0 /\ cause[s] = "none"

\* Between its start and the arming of its store a session is offered every
\* budget that comes into force, the present one included.
OfferInv == \A s \in Stores : stage[s] = "spawned" => FuelBudget \in offered[s]

\* A session has a message only once it has ended.
MessageInv == \A s \in Sessions : stage[s] # "ended" => message[s] = "none"

IInv ==
  /\ TypeOK
  /\ FreshInv
  /\ OfferInv
  /\ MessageInv
  /\ FuelIsThisRuns
  /\ SessionsStayUnderCap
  /\ LimitHasItsPrefix
-----------------------------------------------------------------------------
(* The operators.                                                          *)

\* fuel_budget() is a natural number, whatever override is in force.
LEMMA BudgetIsNat ==
  ASSUME fuelOverride \in Budgets \cup {0}
  PROVE  FuelBudget \in Nat
  BY StoresAssumption DEF FuelBudget

\* classify finds the CPU limit, the memory limit or none.
LEMMA ClassifyType ==
  ASSUME NEW text
  PROVE  classify(text) \in {"none", "cpu-limit", "memory-limit"}
  BY DEF classify

\* A chain of one message is classified as that message.
LEMMA SingleMessage ==
  ASSUME NEW text
  PROVE  classify_chain(<<text>>) = classify(text)
  <1> DEFINE chain == <<text>>
             found == {i \in DOMAIN chain : classify(chain[i]) # "none"}
  <1>1. DOMAIN chain = {1} /\ chain[1] = text
    OBVIOUS
  <1> HIDE DEF chain
  <1>2. classify_chain(chain) = IF found = {} THEN "none" ELSE classify(chain[Min(found)])
    BY DEF classify_chain
  <1>3. CASE classify(text) = "none"
    BY <1>1, <1>2, <1>3 DEF chain
  <1>4. CASE classify(text) # "none"
    <2>1. found = {1}
      BY <1>1, <1>4
    <2>2. Min(found) = 1
      BY <2>1 DEF Min
    <2> QED BY <1>1, <1>2, <1>4, <2>1, <2>2 DEF chain
  <1> QED BY <1>3, <1>4

\* Of the caps on what a component instantiates, only the memory ones are named
\* by a text that classify finds.
LEMMA OverCapPrefix ==
  ASSUME NEW cap
  PROVE  classify_chain(<<OverCapText(cap)>>) = IF cap = "memory" THEN "memory-limit" ELSE "none"
  <1>1. classify(OverCapText(cap)) = IF cap = "memory" THEN "memory-limit" ELSE "none"
    BY DEF classify, OverCapText
  <1> QED BY <1>1, SingleMessage

\* A trap is classified by the names in its backtrace and, if they hold no word
\* that is searched for, by its cause.
LEMMA TrapPrefix ==
  ASSUME NEW why, NEW names
  PROVE  classify_chain(TrapText(why, names)) =
           IF classify(names) # "none" THEN classify(names)
           ELSE IF why = "fuel" THEN "cpu-limit" ELSE "none"
  <1> DEFINE text  == IF why = "fuel" THEN {"fuel"} ELSE {}
             chain == TrapText(why, names)
             found == {i \in DOMAIN chain : classify(chain[i]) # "none"}
  <1>1. classify(text) = IF why = "fuel" THEN "cpu-limit" ELSE "none"
    BY DEF classify
  <1>2. DOMAIN chain = {1, 2} /\ chain[1] = names /\ chain[2] = text
    BY DEF TrapText
  <1> HIDE DEF chain, text
  <1>3. classify_chain(chain) = IF found = {} THEN "none" ELSE classify(chain[Min(found)])
    BY DEF classify_chain
  <1>4. CASE classify(names) # "none"
    <2>1. 1 \in found /\ found \subseteq {1, 2}
      BY <1>2, <1>4
    <2>2. Min(found) = 1
      BY <2>1 DEF Min
    <2>3. classify_chain(chain) = classify(names)
      BY <1>2, <1>3, <2>1, <2>2
    <2> QED BY <1>4, <2>3 DEF chain
  <1>5. CASE classify(names) = "none" /\ why = "fuel"
    <2>1. found = {2}
      BY <1>1, <1>2, <1>5
    <2>2. Min(found) = 2
      BY <2>1 DEF Min
    <2> QED BY <1>1, <1>2, <1>3, <1>5, <2>1, <2>2 DEF chain
  <1>6. CASE classify(names) = "none" /\ why # "fuel"
    <2>1. found = {}
      BY <1>1, <1>2, <1>6
    <2> QED BY <1>3, <1>6, <2>1 DEF chain
  <1> QED BY <1>4, <1>5, <1>6

\* No sizes at all are over no cap.
LEMMA NothingIsOver ==
  ASSUME NEW count \in Nat, NEW most \in Nat
  PROVE  ~Over(<<>>, count, most)
  <1>1. Len(<<>>) = 0 /\ DOMAIN <<>> = {}
    OBVIOUS
  <1> QED BY <1>1 DEF Over

\* A sequence of sizes that may grow at one place stays one, of the same length
\* and, if that is the cap it grows under, not over it.
LEMMA GrownSizes ==
  ASSUME NEW sizes \in Seq(Nat), NEW i \in DOMAIN sizes, NEW most \in Nat
  PROVE  /\ Grown(sizes, i, most) \in Seq(Nat)
         /\ \A count \in Nat : ~Over(sizes, count, most) => ~Over(Grown(sizes, i, most), count, most)
  <1> DEFINE grown == [sizes EXCEPT ![i] = IF @ < most THEN @ + 1 ELSE @]
  <1>1. i \in 1 .. Len(sizes) /\ \A j \in DOMAIN sizes : sizes[j] \in Nat
    OBVIOUS
  <1>2. (IF sizes[i] < most THEN sizes[i] + 1 ELSE sizes[i]) \in Nat
    BY <1>1
  <1>3. /\ grown \in Seq(Nat)
        /\ Len(grown) = Len(sizes) /\ DOMAIN grown = DOMAIN sizes
        /\ \A j \in DOMAIN sizes :
             grown[j] = IF j = i /\ sizes[j] < most THEN sizes[j] + 1 ELSE sizes[j]
    BY <1>1, <1>2
  <1>4. grown = Grown(sizes, i, most)
    BY DEF Grown
  <1> HIDE DEF grown
  <1>5. ASSUME NEW count \in Nat, ~Over(sizes, count, most)
        PROVE  ~Over(grown, count, most)
    <2>1. Len(grown) <= count
      BY <1>3, <1>5 DEF Over
    <2>2. ASSUME NEW j \in DOMAIN grown PROVE ~(grown[j] > most)
      <3>1. sizes[j] \in Nat /\ ~(sizes[j] > most)
        BY <1>1, <1>3, <1>5 DEF Over
      <3> QED BY <1>3, <3>1
    <2> QED BY <1>3, <2>1, <2>2 DEF Over
  <1> QED BY <1>3, <1>4, <1>5
-----------------------------------------------------------------------------
(* One lemma per action.                                                   *)

\* Before anything has been started.
LEMMA InitInv == Init => IInv
  <1> SUFFICES ASSUME Init PROVE IInv
    OBVIOUS
  <1>1. TypeOK
    BY StoresAssumption DEF Init, TypeOK
  <1>2. FreshInv /\ OfferInv /\ MessageInv
    BY DEF Init, FreshInv, OfferInv, MessageInv, Stores
  <1>3. FuelIsThisRuns
    BY DEF Init, FuelIsThisRuns, Executing
  <1>4. SessionsStayUnderCap
    <2>1. ~Over(<<>>, MemoriesCap, MemoryCap) /\ ~Over(<<>>, TablesCap, TableCap)
      BY StoresAssumption, NothingIsOver
    <2> QED BY <2>1 DEF Init, SessionsStayUnderCap, Stores
  <1>5. LimitHasItsPrefix
    BY DEF Init, LimitHasItsPrefix, Stores
  <1> QED BY <1>1, <1>2, <1>3, <1>4, <1>5 DEF IInv

\* hwr_set_fuel_budget is offered to the sessions that wait for their fuel.
LEMMA SetFuelBudgetInv ==
  ASSUME IInv, NEW n \in Budgets, set_fuel_budget(n)
  PROVE  IInv'
  <1> USE DEF IInv, set_fuel_budget
  <1>1. TypeOK'
    BY StoresAssumption, BudgetIsNat DEF TypeOK
  <1>2. FreshInv'
    BY DEF TypeOK, FreshInv
  <1>3. OfferInv'
    BY StoresAssumption DEF TypeOK, OfferInv, FuelBudget
  <1>4. MessageInv'
    BY StoresAssumption DEF TypeOK, MessageInv, Stores
  <1>5. FuelIsThisRuns'
    BY BudgetIsNat DEF TypeOK, FreshInv, OfferInv, FuelIsThisRuns, Executing
  <1>6. SessionsStayUnderCap'
    BY StoresAssumption DEF TypeOK, SessionsStayUnderCap, Stores
  <1>7. LimitHasItsPrefix'
    BY StoresAssumption DEF TypeOK, LimitHasItsPrefix, MessageInv, Stores
  <1> QED BY <1>1, <1>2, <1>3, <1>4, <1>5, <1>6, <1>7

\* hwr_p3_start* offers the budget in force.
LEMMA StartSessionInv ==
  ASSUME IInv, NEW s \in Stores, StartSession(s)
  PROVE  IInv'
  <1> USE DEF IInv, StartSession
  <1>1. TypeOK'
    BY StoresAssumption, BudgetIsNat DEF TypeOK
  <1>2. FreshInv'
    BY DEF TypeOK, FreshInv
  <1>3. OfferInv'
    BY StoresAssumption DEF TypeOK, OfferInv, FuelBudget
  <1>4. MessageInv'
    BY StoresAssumption DEF TypeOK, MessageInv, Stores
  <1>5. FuelIsThisRuns'
    BY BudgetIsNat DEF TypeOK, FreshInv, OfferInv, FuelIsThisRuns, Executing
  <1>6. SessionsStayUnderCap'
    BY StoresAssumption DEF TypeOK, SessionsStayUnderCap, Stores
  <1>7. LimitHasItsPrefix'
    BY StoresAssumption DEF TypeOK, LimitHasItsPrefix, MessageInv, Stores
  <1> QED BY <1>1, <1>2, <1>3, <1>4, <1>5, <1>6, <1>7

\* The worker arms its store with a budget it was offered, and the limiter sees
\* what the component instantiates.
LEMMA DriveInstantiatesInv ==
  ASSUME IInv, NEW s \in Stores, NEW c \in Components, DriveInstantiates(s, c)
  PROVE  IInv'
  <1> USE DEF IInv
  <1>0. /\ \A cap \in OverCaps(c) : cap \in {"memory", "table", "instances"}
        /\ OverCaps(c) = {} => /\ ~Over(c.memories, MemoriesCap, MemoryCap)
                               /\ ~Over(c.tables, TablesCap, TableCap)
        /\ c.memories \in Seq(Nat) /\ c.tables \in Seq(Nat)
    BY StoresAssumption DEF OverCaps
  <1> DEFINE Armed(st, ca) ==
          /\ stage' = [stage EXCEPT ![s] = st]
          /\ cause' = [cause EXCEPT ![s] = ca]
          /\ message' = [message EXCEPT ![s] = IF ca = "memory" THEN "memory-limit" ELSE "none"]
          /\ \/ /\ st = "running" /\ OverCaps(c) = {} /\ ca = "none"
                /\ memories' = [memories EXCEPT ![s] = c.memories]
                /\ tables' = [tables EXCEPT ![s] = c.tables]
             \/ st = "ended" /\ ca # "none" /\ UNCHANGED <<memories, tables>>
  <1>a. \E st \in {"running", "ended"}, ca \in {"memory", "table", "instances", "none"} :
          Armed(st, ca)
    <2>1. CASE /\ OverCaps(c) = {}
               /\ stage' = [stage EXCEPT ![s] = "running"]
               /\ memories' = [memories EXCEPT ![s] = c.memories]
               /\ tables' = [tables EXCEPT ![s] = c.tables]
               /\ UNCHANGED <<message, cause>>
      <3>1. s \in Sessions /\ cause[s] = "none" /\ message[s] = "none"
        BY DEF DriveInstantiates, TypeOK, FreshInv, MessageInv
      <3>2. cause' = [cause EXCEPT ![s] = "none"] /\ message' = [message EXCEPT ![s] = "none"]
        BY <2>1, <3>1 DEF TypeOK
      <3>3. Armed("running", "none")
        BY <2>1, <3>2
      <3> HIDE DEF Armed
      <3> QED BY <3>3
    <2>2. ASSUME NEW cap \in OverCaps(c),
                 /\ stage' = [stage EXCEPT ![s] = "ended"]
                 /\ cause' = [cause EXCEPT ![s] = cap]
                 /\ message' = [message EXCEPT ![s] = classify_chain(<<OverCapText(cap)>>)]
                 /\ UNCHANGED <<memories, tables>>
          PROVE  <1>a!:
      <3>1. Armed("ended", cap) /\ cap \in {"memory", "table", "instances"}
        BY <1>0, <2>2, OverCapPrefix
      <3> HIDE DEF Armed
      <3> QED BY <3>1
    <2> QED BY <2>1, <2>2 DEF DriveInstantiates
  <1>b. PICK st \in {"running", "ended"}, ca \in {"memory", "table", "instances", "none"} :
          Armed(st, ca)
    BY <1>a
  <1>c. /\ s \in Sessions /\ stage[s] = "spawned"
        /\ fuel' = [fuel EXCEPT ![s] = FuelBudget]
        /\ UNCHANGED <<fuelOverride, calls, offered, spent, named>>
    BY DEF DriveInstantiates, TypeOK
  <1>1. TypeOK'
    <2>1. fuel' \in [Stores -> Nat]
      BY <1>c, BudgetIsNat DEF TypeOK
    <2> QED BY <1>0, <1>b, <1>c, <2>1 DEF TypeOK, Limits
  <1>2. FreshInv'
    BY <1>b, <1>c DEF TypeOK, FreshInv
  <1>3. OfferInv'
    BY <1>b, <1>c DEF TypeOK, OfferInv, FuelBudget
  <1>4. MessageInv'
    BY <1>b, <1>c DEF TypeOK, MessageInv, Stores
  <1>5. FuelIsThisRuns'
    BY <1>b, <1>c, BudgetIsNat DEF TypeOK, FreshInv, OfferInv, FuelIsThisRuns, Executing
  <1>6. SessionsStayUnderCap'
    BY <1>0, <1>b, <1>c DEF TypeOK, SessionsStayUnderCap, Stores
  <1>7. LimitHasItsPrefix'
    BY <1>b, <1>c DEF TypeOK, LimitHasItsPrefix, Stores
  <1> QED BY <1>1, <1>2, <1>3, <1>4, <1>5, <1>6, <1>7

\* A component that does not link has the prefix of the words it chose, if any.
LEMMA DriveRefusesInv ==
  ASSUME IInv, NEW s \in Stores, NEW names \in Names, DriveRefuses(s, names)
  PROVE  IInv'
  <1> USE DEF IInv, DriveRefuses
  <1>1. TypeOK'
    BY StoresAssumption, BudgetIsNat, SingleMessage, ClassifyType DEF TypeOK
  <1>2. FreshInv'
    BY DEF TypeOK, FreshInv
  <1>3. OfferInv'
    BY StoresAssumption DEF TypeOK, OfferInv, FuelBudget
  <1>4. MessageInv'
    BY StoresAssumption DEF TypeOK, MessageInv, Stores
  <1>5. FuelIsThisRuns'
    BY BudgetIsNat DEF TypeOK, FreshInv, OfferInv, FuelIsThisRuns, Executing
  <1>6. SessionsStayUnderCap'
    BY StoresAssumption DEF TypeOK, SessionsStayUnderCap, Stores
  <1>7. LimitHasItsPrefix'
    BY StoresAssumption, SingleMessage DEF TypeOK, LimitHasItsPrefix, MessageInv, Stores
  <1> QED BY <1>1, <1>2, <1>3, <1>4, <1>5, <1>6, <1>7

\* hwr_instance_new arms a store that is no session's.
LEMMA InstanceNewInv ==
  ASSUME IInv, NEW s \in Stores, NEW c \in Components, InstanceNew(s, c)
  PROVE  IInv'
  <1> USE DEF IInv, InstanceNew
  <1>1. TypeOK'
    BY StoresAssumption, BudgetIsNat DEF TypeOK
  <1>2. FreshInv'
    BY DEF TypeOK, FreshInv
  <1>3. OfferInv'
    BY StoresAssumption DEF TypeOK, OfferInv, FuelBudget
  <1>4. MessageInv'
    BY StoresAssumption DEF TypeOK, MessageInv, Stores
  <1>5. FuelIsThisRuns'
    BY BudgetIsNat DEF TypeOK, FreshInv, OfferInv, FuelIsThisRuns, Executing
  <1>6. SessionsStayUnderCap'
    BY StoresAssumption DEF TypeOK, SessionsStayUnderCap, Stores
  <1>7. LimitHasItsPrefix'
    BY StoresAssumption DEF TypeOK, LimitHasItsPrefix, MessageInv, Stores
  <1> QED BY <1>1, <1>2, <1>3, <1>4, <1>5, <1>6, <1>7

\* A null handle.
LEMMA InstanceNewFailsInv ==
  ASSUME IInv, NEW s \in Stores, InstanceNewFails(s)
  PROVE  IInv'
  <1> USE DEF IInv, InstanceNewFails
  <1>1. TypeOK'
    BY StoresAssumption, BudgetIsNat DEF TypeOK
  <1>2. FreshInv'
    BY DEF TypeOK, FreshInv
  <1>3. OfferInv'
    BY StoresAssumption DEF TypeOK, OfferInv, FuelBudget
  <1>4. MessageInv'
    BY StoresAssumption DEF TypeOK, MessageInv, Stores
  <1>5. FuelIsThisRuns'
    BY BudgetIsNat DEF TypeOK, FreshInv, OfferInv, FuelIsThisRuns, Executing
  <1>6. SessionsStayUnderCap'
    BY StoresAssumption DEF TypeOK, SessionsStayUnderCap, Stores
  <1>7. LimitHasItsPrefix'
    BY StoresAssumption DEF TypeOK, LimitHasItsPrefix, MessageInv, Stores
  <1> QED BY <1>1, <1>2, <1>3, <1>4, <1>5, <1>6, <1>7

\* hwr_instance_call_add arms the store anew and counts from zero.
LEMMA CallAddInv ==
  ASSUME IInv, NEW s \in Stores, CallAdd(s)
  PROVE  IInv'
  <1> USE DEF IInv, CallAdd
  <1>1. TypeOK'
    BY StoresAssumption, BudgetIsNat DEF TypeOK
  <1>2. FreshInv'
    BY DEF TypeOK, FreshInv
  <1>3. OfferInv'
    BY StoresAssumption DEF TypeOK, OfferInv, FuelBudget
  <1>4. MessageInv'
    BY StoresAssumption DEF TypeOK, MessageInv, Stores
  <1>5. FuelIsThisRuns'
    BY BudgetIsNat DEF TypeOK, FreshInv, OfferInv, FuelIsThisRuns, Executing
  <1>6. SessionsStayUnderCap'
    BY StoresAssumption DEF TypeOK, SessionsStayUnderCap, Stores
  <1>7. LimitHasItsPrefix'
    BY StoresAssumption DEF TypeOK, LimitHasItsPrefix, MessageInv, Stores
  <1> QED BY <1>1, <1>2, <1>3, <1>4, <1>5, <1>6, <1>7

\* A call on a trapped instance executes nothing.
LEMMA CallTrappedInv ==
  ASSUME IInv, NEW s \in Stores, CallTrapped(s)
  PROVE  IInv'
  <1> USE DEF IInv, CallTrapped
  <1>1. TypeOK'
    BY StoresAssumption, BudgetIsNat DEF TypeOK
  <1>2. FreshInv'
    BY DEF TypeOK, FreshInv
  <1>3. OfferInv'
    BY StoresAssumption DEF TypeOK, OfferInv, FuelBudget
  <1>4. MessageInv'
    BY StoresAssumption DEF TypeOK, MessageInv, Stores
  <1>5. FuelIsThisRuns'
    BY BudgetIsNat DEF TypeOK, FreshInv, OfferInv, FuelIsThisRuns, Executing
  <1>6. SessionsStayUnderCap'
    BY StoresAssumption DEF TypeOK, SessionsStayUnderCap, Stores
  <1>7. LimitHasItsPrefix'
    BY StoresAssumption DEF TypeOK, LimitHasItsPrefix, MessageInv, Stores
  <1> QED BY <1>1, <1>2, <1>3, <1>4, <1>5, <1>6, <1>7

\* hwr_instance_free.
LEMMA InstanceFreeInv ==
  ASSUME IInv, NEW s \in Stores, InstanceFree(s)
  PROVE  IInv'
  <1> USE DEF IInv, InstanceFree
  <1>1. TypeOK'
    BY StoresAssumption, BudgetIsNat DEF TypeOK
  <1>2. FreshInv'
    BY DEF TypeOK, FreshInv
  <1>3. OfferInv'
    BY StoresAssumption DEF TypeOK, OfferInv, FuelBudget
  <1>4. MessageInv'
    BY StoresAssumption DEF TypeOK, MessageInv, Stores
  <1>5. FuelIsThisRuns'
    BY BudgetIsNat DEF TypeOK, FreshInv, OfferInv, FuelIsThisRuns, Executing
  <1>6. SessionsStayUnderCap'
    BY StoresAssumption DEF TypeOK, SessionsStayUnderCap, Stores
  <1>7. LimitHasItsPrefix'
    BY StoresAssumption DEF TypeOK, LimitHasItsPrefix, MessageInv, Stores
  <1> QED BY <1>1, <1>2, <1>3, <1>4, <1>5, <1>6, <1>7

\* A guest step moves one unit from the fuel to what was spent.
LEMMA GuestStepInv ==
  ASSUME IInv, NEW s \in Stores, Executing(s), GuestStep(s)
  PROVE  IInv'
  <1> USE DEF IInv, GuestStep
  <1>1. TypeOK'
    <2>1. fuel' \in [Stores -> Nat] /\ spent' \in [Stores -> Nat]
      BY DEF TypeOK
    <2> QED BY <2>1 DEF TypeOK
  <1>2. FreshInv'
    BY DEF TypeOK, FreshInv, Executing
  <1>3. OfferInv'
    BY StoresAssumption DEF TypeOK, OfferInv, FuelBudget
  <1>4. MessageInv'
    BY StoresAssumption DEF TypeOK, MessageInv, Stores, Executing
  <1>5. FuelIsThisRuns'
    <2>1. fuel'[s] + spent'[s] = fuel[s] + spent[s]
      BY DEF TypeOK
    <2>2. \A t \in Stores \ {s} : fuel'[t] = fuel[t] /\ spent'[t] = spent[t]
      BY DEF TypeOK
    <2> QED BY <2>1, <2>2 DEF FuelIsThisRuns, Executing
  <1>6. SessionsStayUnderCap'
    BY StoresAssumption DEF TypeOK, SessionsStayUnderCap, Stores
  <1>7. LimitHasItsPrefix'
    BY StoresAssumption DEF TypeOK, LimitHasItsPrefix, MessageInv, Stores, Executing
  <1> QED BY <1>1, <1>2, <1>3, <1>4, <1>5, <1>6, <1>7

\* memory.grow and table.grow stop at the caps of a session.
LEMMA GrowsInv ==
  ASSUME IInv, NEW s \in Stores, Executing(s), Grows(s)
  PROVE  IInv'
  <1> USE DEF IInv, Grows
  <1> DEFINE memoryMost == IF s \in Sessions THEN MemoryCap ELSE MaxSize
             tableMost  == IF s \in Sessions THEN TableCap ELSE MaxSize
  <1>0. /\ memories[s] \in Seq(Nat) /\ tables[s] \in Seq(Nat)
        /\ memoryMost \in Nat /\ tableMost \in Nat /\ MemoriesCap \in Nat /\ TablesCap \in Nat
    BY StoresAssumption DEF TypeOK
  <1>a. /\ \A t \in Stores \ {s} : memories'[t] = memories[t] /\ tables'[t] = tables[t]
        /\ memories' \in [Stores -> Seq(Nat)] /\ tables' \in [Stores -> Seq(Nat)]
        /\ \/ memories'[s] = memories[s]
           \/ \E i \in DOMAIN memories[s] : memories'[s] = Grown(memories[s], i, memoryMost)
        /\ \/ tables'[s] = tables[s]
           \/ \E i \in DOMAIN tables[s] : tables'[s] = Grown(tables[s], i, tableMost)
    <2>1. ASSUME NEW i \in DOMAIN memories[s],
                 memories' = [memories EXCEPT ![s] = Grown(@, i, memoryMost)], tables' = tables
          PROVE  <1>a!:
      <3>1. Grown(memories[s], i, memoryMost) \in Seq(Nat)
        BY <1>0, GrownSizes
      <3> HIDE DEF memoryMost
      <3> QED BY <2>1, <3>1 DEF TypeOK
    <2>2. ASSUME NEW i \in DOMAIN tables[s],
                 tables' = [tables EXCEPT ![s] = Grown(@, i, tableMost)], memories' = memories
          PROVE  <1>a!:
      <3>1. Grown(tables[s], i, tableMost) \in Seq(Nat)
        BY <1>0, GrownSizes
      <3> HIDE DEF tableMost
      <3> QED BY <2>2, <3>1 DEF TypeOK
    <2> QED BY <2>1, <2>2
  <1>1. TypeOK'
    <2>1. fuel' \in [Stores -> Nat] /\ spent' \in [Stores -> Nat]
      BY DEF TypeOK
    <2> QED BY <1>a, <2>1 DEF TypeOK
  <1>2. FreshInv'
    BY DEF TypeOK, FreshInv, Executing
  <1>3. OfferInv'
    BY StoresAssumption DEF TypeOK, OfferInv, FuelBudget
  <1>4. MessageInv'
    BY StoresAssumption DEF TypeOK, MessageInv, Stores, Executing
  <1>5. FuelIsThisRuns'
    <2>1. fuel'[s] + spent'[s] = fuel[s] + spent[s]
      BY DEF TypeOK
    <2>2. \A t \in Stores \ {s} : fuel'[t] = fuel[t] /\ spent'[t] = spent[t]
      BY DEF TypeOK
    <2> QED BY <2>1, <2>2 DEF FuelIsThisRuns, Executing
  <1>6. SessionsStayUnderCap'
    <2> SUFFICES ASSUME NEW t \in Sessions
                 PROVE  /\ ~Over(memories'[t], MemoriesCap, MemoryCap)
                        /\ ~Over(tables'[t], TablesCap, TableCap)
      BY DEF SessionsStayUnderCap, Over
    <2>1. /\ ~Over(memories[t], MemoriesCap, MemoryCap)
          /\ ~Over(tables[t], TablesCap, TableCap)
      BY DEF SessionsStayUnderCap
    <2>2. CASE t # s
      BY <1>a, <2>1, <2>2 DEF Stores
    <2>3. CASE t = s
      <3>1. memoryMost = MemoryCap /\ tableMost = TableCap
        BY <2>3
      <3>2. ~Over(memories'[s], MemoriesCap, MemoryCap)
        BY <1>0, <1>a, <2>1, <2>3, <3>1, GrownSizes
      <3>3. ~Over(tables'[s], TablesCap, TableCap)
        BY <1>0, <1>a, <2>1, <2>3, <3>1, GrownSizes
      <3> QED BY <2>3, <3>2, <3>3
    <2> QED BY <2>2, <2>3
  <1>7. LimitHasItsPrefix'
    BY StoresAssumption DEF TypeOK, LimitHasItsPrefix, MessageInv, Stores, Executing
  <1> QED BY <1>1, <1>2, <1>3, <1>4, <1>5, <1>6, <1>7

\* A trap for want of fuel or of the guest's own: what was spent is the whole of
\* what was offered in the first case, and the names in the backtrace may hide
\* the cause in either.
LEMMA TrapsInv ==
  ASSUME IInv, NEW s \in Stores, Executing(s), NEW names \in Names, NEW why \in {"fuel", "guest"},
         Traps(s, why, names), why = "fuel" => fuel[s] = 0
  PROVE  IInv'
  <1> USE DEF IInv, Traps
  <1>1. TypeOK'
    <2>1. message' \in [Stores -> {"none", "cpu-limit", "memory-limit"}]
      <3>1. classify_chain(TrapText(why, names)) \in {"none", "cpu-limit", "memory-limit"}
        BY TrapPrefix, ClassifyType
      <3>2. CASE s \in Sessions
        BY <3>1, <3>2 DEF TypeOK
      <3>3. CASE s \notin Sessions
        BY <3>3 DEF TypeOK
      <3> QED BY <3>2, <3>3
    <2>2. memories' \in [Stores -> Seq(Nat)] /\ tables' \in [Stores -> Seq(Nat)]
      BY DEF TypeOK
    <2>3. cause' \in [Stores -> Limits \cup {"none", "component", "guest", "returned"}]
      BY DEF TypeOK, Limits
    <2>4. named' \in [Stores -> Names \cup {{}}]
      BY DEF TypeOK
    <2> QED BY <2>1, <2>2, <2>3, <2>4 DEF TypeOK, Executing
  <1>2. FreshInv'
    BY DEF TypeOK, FreshInv, Executing
  <1>3. OfferInv'
    BY StoresAssumption DEF TypeOK, OfferInv, FuelBudget
  <1>4. MessageInv'
    <2>1. s \in Sessions => stage'[s] = "ended"
      BY StoresAssumption DEF TypeOK, Executing
    <2>2. \A t \in Sessions \ {s} : message'[t] = message[t] /\ stage'[t] = stage[t]
      BY DEF TypeOK, Stores
    <2> QED BY <2>1, <2>2 DEF MessageInv
  <1>5. FuelIsThisRuns'
    BY BudgetIsNat DEF TypeOK, FreshInv, OfferInv, FuelIsThisRuns, Executing
  <1>6. SessionsStayUnderCap'
    <2>1. ~Over(<<>>, MemoriesCap, MemoryCap) /\ ~Over(<<>>, TablesCap, TableCap)
      BY StoresAssumption, NothingIsOver
    <2> QED BY <2>1 DEF TypeOK, SessionsStayUnderCap, Stores
  <1>7. LimitHasItsPrefix'
    <2>1. CASE s \in Sessions
      <3>1. cause'[s] = why /\ named'[s] = names
        BY <2>1 DEF TypeOK
      <3>2. message'[s] = IF classify(names) # "none" THEN classify(names)
                          ELSE IF why = "fuel" THEN "cpu-limit" ELSE "none"
        BY <2>1, TrapPrefix DEF TypeOK
      <3>3. \A t \in Sessions \ {s} : /\ cause'[t] = cause[t] /\ named'[t] = named[t]
                                      /\ message'[t] = message[t] /\ stage'[t] = stage[t]
        BY <2>1 DEF TypeOK, Stores
      <3> QED BY <3>1, <3>2, <3>3 DEF LimitHasItsPrefix
    <2>2. CASE s \notin Sessions
      BY <2>2 DEF TypeOK, LimitHasItsPrefix, Stores
    <2> QED BY <2>1, <2>2
  <1> QED BY <1>1, <1>2, <1>3, <1>4, <1>5, <1>6, <1>7

\* The guest returns.
LEMMA FinishesInv ==
  ASSUME IInv, NEW s \in Stores, Executing(s), Finishes(s)
  PROVE  IInv'
  <1> USE DEF IInv, Finishes
  <1>1. TypeOK'
    BY StoresAssumption DEF TypeOK, Executing, Stores
  <1>2. FreshInv'
    BY DEF TypeOK, FreshInv, Executing
  <1>3. OfferInv'
    BY StoresAssumption DEF TypeOK, OfferInv, FuelBudget
  <1>4. MessageInv'
    BY StoresAssumption DEF TypeOK, MessageInv, Stores, Executing
  <1>5. FuelIsThisRuns'
    BY BudgetIsNat DEF TypeOK, FreshInv, OfferInv, FuelIsThisRuns, Executing
  <1>6. SessionsStayUnderCap'
    <2>1. ~Over(<<>>, MemoriesCap, MemoryCap) /\ ~Over(<<>>, TablesCap, TableCap)
      BY StoresAssumption, NothingIsOver
    <2> QED BY <2>1 DEF TypeOK, SessionsStayUnderCap, Stores
  <1>7. LimitHasItsPrefix'
    BY StoresAssumption DEF TypeOK, LimitHasItsPrefix, MessageInv, Stores, Executing
  <1> QED BY <1>1, <1>2, <1>3, <1>4, <1>5, <1>6, <1>7

\* Every step of Next preserves the invariant.
LEMMA NextInv ==
  ASSUME IInv, [Next]_vars
  PROVE  IInv'
  <1>1. CASE UNCHANGED vars
    BY <1>1 DEF vars, IInv, TypeOK, FreshInv, OfferInv, MessageInv, FuelBudget, FuelIsThisRuns,
                Executing, SessionsStayUnderCap, LimitHasItsPrefix
  <1>2. ASSUME NEW n \in Budgets, set_fuel_budget(n) PROVE IInv'
    BY <1>2, SetFuelBudgetInv
  <1>3. ASSUME NEW s \in Stores,
               \/ StartSession(s) \/ InstanceNewFails(s) \/ CallAdd(s) \/ CallTrapped(s)
               \/ InstanceFree(s)
        PROVE  IInv'
    BY <1>3, StartSessionInv, InstanceNewFailsInv, CallAddInv, CallTrappedInv, InstanceFreeInv
  <1>4. ASSUME NEW s \in Stores, NEW c \in Components, DriveInstantiates(s, c) \/ InstanceNew(s, c)
        PROVE  IInv'
    BY <1>4, DriveInstantiatesInv, InstanceNewInv
  <1>6. ASSUME NEW s \in Stores, NEW names \in Names, DriveRefuses(s, names)
        PROVE  IInv'
    BY <1>6, DriveRefusesInv
  <1>5. ASSUME NEW s \in Stores, Executes(s) PROVE IInv'
    <2>1. Executing(s)
      BY <1>5 DEF Executes
    <2>2. CASE GuestStep(s) \/ Grows(s) \/ Finishes(s)
      BY <2>1, <2>2, GuestStepInv, GrowsInv, FinishesInv
    <2>3. ASSUME NEW names \in Names, RunsOut(s, names) \/ Faults(s, names) PROVE IInv'
      BY <2>1, <2>3, TrapsInv DEF RunsOut, Faults
    <2> QED BY <1>5, <2>2, <2>3 DEF Executes
  <1> QED BY <1>1, <1>2, <1>3, <1>4, <1>5, <1>6 DEF Next

-----------------------------------------------------------------------------
(* The theorems.                                                           *)

\* The limits of limits.rs in one inductive invariant: what a store was offered
\* and has spent, how large its memories are, and what its session reports.
THEOREM Invariance == Spec => []IInv
  <1>1. Init => IInv
    BY InitInv
  <1>2. IInv /\ [Next]_vars => IInv'
    BY NextInv
  <1> QED BY <1>1, <1>2, PTL DEF Spec

\* set_fuel and hwr_instance_call_add: a guest that is stopped for want of fuel
\* has spent, in this very run, the whole of a budget it was offered.
THEOREM FuelOfThisRun == Spec => []FuelIsThisRuns
  <1>1. IInv => FuelIsThisRuns
    BY DEF IInv
  <1> QED BY <1>1, Invariance, PTL

\* store_limits: no session outgrows the caps on memories and tables, at
\* instantiation or by memory.grow and table.grow.
THEOREM MemoryIsCapped == Spec => []SessionsStayUnderCap
  <1>1. IInv => SessionsStayUnderCap
    BY DEF IInv
  <1> QED BY <1>1, Invariance, PTL

\* limits::annotate: the message of a session that ran out of fuel or was over a
\* memory cap has a prefix, whatever names its component chose; where these hold
\* none of the words that are searched for, it is that limit's prefix and the
\* message of no other session has one.
THEOREM PrefixNamesTheLimit == Spec => []LimitHasItsPrefix
  <1>1. IInv => LimitHasItsPrefix
    BY DEF IInv
  <1> QED BY <1>1, Invariance, PTL
=============================================================================
