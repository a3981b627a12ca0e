----------------------------- MODULE JitMemory -----------------------------
(***************************************************************************)
(* The life of executable memory on macOS (src/jit_memory.rs) under the    *)
(* handles of src/lib.rs: threads load components on shared engines, each  *)
(* load copies its artifact into a fresh MAP_JIT mapping, hands it to      *)
(* Wasmtime through the process-wide PENDING list, and the engine's hook   *)
(* claims it when Wasmtime publishes the code.  mmap may return any free   *)
(* address, one that was just unmapped included.                           *)
(*                                                                         *)
(* Wasmtime (deserialize_raw, the calls of the hook, the Arc each piece of *)
(* code holds on it) is external and taken as the hook's comments and      *)
(* jit_memory.rs's use of it describe it.                                  *)
(***************************************************************************)
EXTENDS Integers, FiniteSets

CONSTANTS
  Threads,   \* threads that load code
  Engines,   \* engines, each with its MapJitCodeMemory hook
  Codes,     \* bound on the components alive at once
  NumPages,  \* bound on the address space, in pages
  PageSize,  \* page_size()
  Sizes,     \* artifact sizes, in bytes
  None       \* "no region", "no engine", "no code"

ASSUME SizesAssumption ==
  /\ NumPages \in Nat /\ PageSize \in Nat \ {0}
  /\ Sizes \subseteq Nat

Pages == 1..NumPages

\* A text range: base address and length in bytes.  Page 0 is never mapped.
Ranges == [base : PageSize .. (NumPages + 1) * PageSize, len : 0 .. NumPages * PageSize]

\* A Region: whole pages.
Regions == {r \in Ranges : r.base % PageSize = 0 /\ r.len % PageSize = 0 /\ r.len > 0}

\* A loaded component: its engine, its text and, if Wasmtime mapped it, where.
Components == [engine : Engines, text : Ranges \cup {None}, mapping : Regions \cup {None}]

ASSUME NoneAssumption == None \notin Engines /\ None \notin Ranges /\ None \notin Components

PagesOf(r) == {a \div PageSize : a \in r.base .. (r.base + r.len - 1)}

VARIABLES
  prot,      \* prot[p]: "free", "jit" (a MAP_JIT mapping), "rw" or "rx"
  pending,   \* PENDING
  owned,     \* owned[e]: the `owned` list of engine e's hook
  handle,    \* handle[e]: the application holds the engine
  code,      \* code[c]: a component, with the engine, text and mapping it uses
  \* the load each thread is in
  pc, engine, region, size, stock, text, claimed

threadVars == <<pc, engine, region, size, stock, text, claimed>>
vars == <<prot, pending, owned, handle, code, threadVars>>

Init ==
  /\ prot = [p \in Pages |-> "free"]
  /\ pending = {}
  /\ owned = [e \in Engines |-> {}]
  /\ handle = [e \in Engines |-> FALSE]
  /\ code = [c \in Codes |-> None]
  /\ pc = [t \in Threads |-> "idle"]
  /\ engine = [t \in Threads |-> None]
  /\ region = [t \in Threads |-> None]
  /\ size = [t \in Threads |-> 0]
  /\ stock = [t \in Threads |-> FALSE]
  /\ text = [t \in Threads |-> None]
  /\ claimed = [t \in Threads |-> None]

-----------------------------------------------------------------------------
(* Region and the memory calls.                                            *)

Mprotect(mem, pages, mode) == [p \in Pages |-> IF p \in pages THEN mode ELSE mem[p]]
Munmap(mem, pages) == Mprotect(mem, pages, "free")

\* Region::contains.
Contains(r, x) == x.base >= r.base /\ x.base + x.len <= r.base + r.len

\* bytes.len().max(1).div_ceil(page) * page
MappedLen(n) == (((IF n = 0 THEN 1 ELSE n) + PageSize - 1) \div PageSize) * PageSize

\* What mmap may return for n bytes.
Mappings(n) ==
  {r \in {[base |-> p * PageSize, len |-> n] : p \in Pages} :
     \A p \in PagesOf(r) : p \in Pages /\ prot[p] = "free"}

\* MapJitCodeMemory::owns.
Owns(e, x) == \E r \in owned[e] : Contains(r, x)

\* unpublish_executable.
Unpublish(mem, e, x) ==
  IF x = None \/ Owns(e, x) THEN mem ELSE Mprotect(mem, PagesOf(x), "rw")

\* An Arc on engine e's hook is held by the handle and by every component.
Referenced(e, hs, cs) == hs[e] \/ \E c \in Codes : cs[c] # None /\ cs[c].engine = e

\* Dropping the last one drops the hook, and with it the regions it owns.
DropHook(e, hs, cs, mem) ==
  IF Referenced(e, hs, cs)
    THEN prot' = mem /\ UNCHANGED owned
    ELSE /\ prot' = Munmap(mem, UNION {PagesOf(r) : r \in owned[e]})
         /\ owned' = [owned EXCEPT ![e] = {}]

LeaveLoad(t) ==
  /\ pc' = [pc EXCEPT ![t] = "idle"]
  /\ engine' = [engine EXCEPT ![t] = None]
  /\ region' = [region EXCEPT ![t] = None]
  /\ size' = [size EXCEPT ![t] = 0]
  /\ stock' = [stock EXCEPT ![t] = FALSE]
  /\ text' = [text EXCEPT ![t] = None]
  /\ UNCHANGED claimed

\* The load returns a component that uses text x in mapping m.
Return(t, x, m) ==
  /\ \E c \in Codes :
       /\ code[c] = None
       /\ code' = [code EXCEPT ![c] = [engine |-> engine[t], text |-> x, mapping |-> m]]
  /\ LeaveLoad(t)

Goto(t, l) == pc' = [pc EXCEPT ![t] = l]

-----------------------------------------------------------------------------
(* Faulty variants, as in P3Session.                                       *)

\* The hook's regions are freed with the engine handle.
FaultyEngineFree(e) ==
  /\ handle[e] /\ \A t \in Threads : engine[t] # e
  /\ handle' = [handle EXCEPT ![e] = FALSE]
  /\ prot' = Munmap(prot, UNION {PagesOf(r) : r \in owned[e]})
  /\ owned' = [owned EXCEPT ![e] = {}]
  /\ UNCHANGED <<pending, code, threadVars>>

\* Dropping a component never drops the hook.
FaultyCodeFree(c) ==
  /\ code[c] # None
  /\ code' = [code EXCEPT ![c] = None]
  /\ LET k   == code[c]
         mem == Unpublish(prot, k.engine, k.text)
     IN prot' = IF k.mapping = None THEN mem ELSE Munmap(mem, PagesOf(k.mapping))
  /\ UNCHANGED <<pending, owned, handle, threadVars>>

\* The unclaimed region is forgotten instead of dropped.
FaultyTakePending(t) ==
  /\ pc[t] \in {"failed", "loaded", "empty"}
  /\ LET mine == {r \in pending : r.base = region[t].base} IN
       /\ pending' = pending \ mine
       /\ CASE pc[t] = "failed" -> LeaveLoad(t) /\ UNCHANGED code
            [] pc[t] = "loaded" /\ mine = {} -> Return(t, text[t], None)
            [] OTHER -> Return(t, None, None)
  /\ UNCHANGED <<prot, owned, handle>>

-----------------------------------------------------------------------------
(* The handles.                                                            *)

\* hwr_engine_new, p3_engine, p3s_engine: a fresh engine with a fresh hook.
EngineNew(e) ==
  /\ ~Referenced(e, handle, code)
  /\ handle' = [handle EXCEPT ![e] = TRUE]
  /\ UNCHANGED <<prot, pending, owned, code, threadVars>>

\* hwr_engine_free, or the end of a run.  The C contract (and the borrow of
\* the engine in every loader) keeps it from racing a load on that engine.
EngineFree(e) ==
  /\ handle[e] /\ \A t \in Threads : engine[t] # e
  /\ handle' = [handle EXCEPT ![e] = FALSE]
  /\ DropHook(e, handle', code, prot)
  /\ UNCHANGED <<pending, code, threadVars>>

\* hwr_instance_free, or the end of a run: Wasmtime unpublishes the text, frees
\* the mapping if it is its own, and lets go of the hook.
CodeFree(c) ==
  /\ code[c] # None
  /\ code' = [code EXCEPT ![c] = None]
  /\ LET k   == code[c]
         mem == Unpublish(prot, k.engine, k.text)
     IN DropHook(k.engine, handle, code',
                 IF k.mapping = None THEN mem ELSE Munmap(mem, PagesOf(k.mapping)))
  /\ UNCHANGED <<pending, handle, threadVars>>

-----------------------------------------------------------------------------
(* A load.                                                                 *)

\* Region::with_contents: map and copy.  (When mmap fails the load returns its
\* error and nothing has changed.)
Map(t, e, n) ==
  /\ pc[t] = "idle" /\ handle[e]
  /\ \E r \in Mappings(MappedLen(n)) :
       /\ region' = [region EXCEPT ![t] = r]
       /\ prot' = Mprotect(prot, PagesOf(r), "jit")
  /\ engine' = [engine EXCEPT ![t] = e]
  /\ size' = [size EXCEPT ![t] = n]
  /\ Goto(t, "mapped")
  /\ UNCHANGED <<pending, owned, handle, code, stock, text, claimed>>

\* A component built with plain Component::new: Wasmtime's own mapping.
StockMap(t, e, n) ==
  /\ pc[t] = "idle" /\ handle[e] /\ n > 0
  /\ \E r \in Mappings(MappedLen(n)) :
       /\ region' = [region EXCEPT ![t] = r]
       /\ prot' = Mprotect(prot, PagesOf(r), "rw")
  /\ engine' = [engine EXCEPT ![t] = e]
  /\ size' = [size EXCEPT ![t] = n]
  /\ stock' = [stock EXCEPT ![t] = TRUE]
  /\ Goto(t, "raw")
  /\ UNCHANGED <<pending, owned, handle, code, text, claimed>>

\* lock(&PENDING).push(region)
Push(t) ==
  /\ pc[t] = "mapped"
  /\ pending' = pending \cup {region[t]}
  /\ Goto(t, "raw")
  /\ UNCHANGED <<prot, owned, handle, code, engine, region, size, stock, text, claimed>>

\* Wasmtime refuses the artifact before publishing anything, or the stock
\* path's mprotect fails.
RawRefuses(t) ==
  /\ pc[t] = "raw"
  /\ IF stock[t]
       THEN prot' = Munmap(prot, PagesOf(region[t])) /\ LeaveLoad(t)
       ELSE /\ Goto(t, "failed")
            /\ UNCHANGED <<prot, engine, region, size, stock, text, claimed>>
  /\ UNCHANGED <<pending, owned, handle, code>>

\* It succeeds without publishing: the text section is empty.
RawEmpty(t) ==
  /\ pc[t] = "raw" /\ ~stock[t] /\ size[t] > 0
  /\ Goto(t, "empty")
  /\ UNCHANGED <<prot, pending, owned, handle, code, engine, region, size, stock, text, claimed>>

\* publish_executable for a page-aligned text x inside the artifact: take the
\* pending region that contains it or, if none does, mprotect.
Publish(t) ==
  /\ pc[t] = "raw"
  /\ \E x \in Ranges :
       /\ x.len > 0 /\ x.base % PageSize = 0
       /\ x.base >= region[t].base /\ x.base + x.len <= region[t].base + size[t]
       /\ text' = [text EXCEPT ![t] = x]
       /\ \/ \E r \in pending :
               /\ Contains(r, x)
               /\ pending' = pending \ {r}
               /\ claimed' = [claimed EXCEPT ![t] = r]
               /\ Goto(t, "claimed")
               /\ UNCHANGED prot
          \/ /\ \A r \in pending : ~Contains(r, x)
             /\ prot' = Mprotect(prot, PagesOf(x), "rx")
             /\ Goto(t, "published")
             /\ UNCHANGED <<pending, claimed>>
  /\ UNCHANGED <<owned, handle, code, engine, region, size, stock>>

\* lock(&self.owned).push(region), after PENDING's lock was released.
Own(t) ==
  /\ pc[t] = "claimed"
  /\ owned' = [owned EXCEPT ![engine[t]] = @ \cup {claimed[t]}]
  /\ claimed' = [claimed EXCEPT ![t] = None]
  /\ Goto(t, "published")
  /\ UNCHANGED <<prot, pending, handle, code, engine, region, size, stock, text>>

\* Wasmtime gives up after publishing: it unpublishes and reports an error.
RawFails(t) ==
  /\ pc[t] = "published"
  /\ LET mem == Unpublish(prot, engine[t], text[t]) IN
       IF stock[t]
         THEN prot' = Munmap(mem, PagesOf(region[t])) /\ LeaveLoad(t)
         ELSE /\ prot' = mem
              /\ Goto(t, "failed")
              /\ UNCHANGED <<engine, region, size, stock, text, claimed>>
  /\ UNCHANGED <<pending, owned, handle, code>>

\* It succeeds.
RawOk(t) ==
  /\ pc[t] = "published"
  /\ IF stock[t]
       THEN Return(t, text[t], region[t])
       ELSE /\ Goto(t, "loaded")
            /\ UNCHANGED <<code, engine, region, size, stock, text, claimed>>
  /\ UNCHANGED <<prot, pending, owned, handle>>

\* take_pending(|r| r.base == base) after raw() has returned.  Nothing there:
\* the hook has the region.  Otherwise the region is dropped, and a successful
\* load is repeated with the stock loader, which may fail (its code has no text).
TakePending(t) ==
  /\ pc[t] \in {"failed", "loaded", "empty"}
  /\ LET mine == {r \in pending : r.base = region[t].base} IN
       /\ pending' = pending \ mine
       /\ prot' = Munmap(prot, UNION {PagesOf(r) : r \in mine})
       /\ CASE pc[t] = "failed" -> LeaveLoad(t) /\ UNCHANGED code
            [] pc[t] = "loaded" /\ mine = {} -> Return(t, text[t], None)
            [] OTHER -> Return(t, None, None) \/ (LeaveLoad(t) /\ UNCHANGED code)
  /\ UNCHANGED <<owned, handle>>

Next ==
  \/ \E e \in Engines : EngineNew(e) \/ EngineFree(e)
  \/ \E c \in Codes : CodeFree(c)
  \/ \E t \in Threads, e \in Engines, n \in Sizes : Map(t, e, n) \/ StockMap(t, e, n)
  \/ \E t \in Threads : \/ Push(t) \/ RawRefuses(t) \/ RawEmpty(t) \/ Publish(t)
                        \/ Own(t) \/ RawFails(t) \/ RawOk(t) \/ TakePending(t)

Spec == Init /\ [][Next]_vars

-----------------------------------------------------------------------------
(* Properties.                                                             *)

PCs == {"idle", "mapped", "raw", "claimed", "published", "failed", "loaded", "empty"}

\* Every variable stays in its range; every region is whole pages.
TypeOK ==
  /\ prot \in [Pages -> {"free", "jit", "rw", "rx"}]
  /\ pending \subseteq Regions
  /\ owned \in [Engines -> SUBSET Regions]
  /\ handle \in [Engines -> BOOLEAN]
  /\ code \in [Codes -> Components \cup {None}]
  /\ pc \in [Threads -> PCs]
  /\ engine \in [Threads -> Engines \cup {None}]
  /\ region \in [Threads -> Regions \cup {None}]
  /\ size \in [Threads -> Sizes \cup {0}]
  /\ stock \in [Threads -> BOOLEAN]
  /\ text \in [Threads -> Ranges \cup {None}]
  /\ claimed \in [Threads -> Regions \cup {None}]

\* Code can be executed for as long as its component lives, whatever other
\* components and engines come and go: its pages are still mapped, and nobody
\* has changed their protection.
CodeStaysExecutable ==
  \A c \in Codes : code[c] # None /\ code[c].text # None =>
    \A p \in PagesOf(code[c].text) : prot[p] = IF code[c].mapping = None THEN "jit" ELSE "rx"

\* Who holds which MAP_JIT region: a load (before the push, or between the two
\* locks of publish_executable), PENDING, or an engine's hook.
Held ==
  {<<"load", t, region[t]>> : t \in {t \in Threads : pc[t] = "mapped"}}
    \cup {<<"load", t, claimed[t]>> : t \in {t \in Threads : pc[t] = "claimed"}}
    \cup {<<"pending", None, r>> : r \in pending}
    \cup UNION {{<<"engine", e, r>> : r \in owned[e]} : e \in Engines}

\* The holders of the region that covers page p.
Holders(p) == {h \in Held : p \in PagesOf(h[3])}

\* stats::last_alloc_pending: a load that has returned, successful or not,
\* leaves nothing of its own in PENDING.
NoPendingAtRest ==
  \A r \in pending : \E t \in Threads : pc[t] \in {"raw", "failed", "empty"} /\ region[t] = r

\* A mapped page has exactly one holder, which will unmap it, and a page that
\* is not mapped (or was mapped again by somebody else) has none: no region is
\* leaked, none is unmapped twice, and none is left in PENDING once its load
\* is over.
RegionHeldOnce ==
  /\ \A p \in Pages : Cardinality(Holders(p)) = IF prot[p] = "jit" THEN 1 ELSE 0
  /\ NoPendingAtRest

\* A mapping is freed with its engine: once every engine is gone and no load is
\* under way, no page is left.
EnginesFreeTheirMemory ==
  (/\ \A e \in Engines : ~Referenced(e, handle, code)
   /\ \A t \in Threads : pc[t] = "idle")
    => \A p \in Pages : prot[p] = "free"
=============================================================================
