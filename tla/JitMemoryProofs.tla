-------------------------- MODULE JitMemoryProofs --------------------------
(***************************************************************************)
(* Proofs about JitMemory, for every number of threads, engines, components*)
(* and pages and every page size.                                          *)
(***************************************************************************)
EXTENDS JitMemory, FiniteSetTheorems, TLAPS

-----------------------------------------------------------------------------
(* The inductive invariant.                                                *)

\* The mappings Wasmtime made itself: of a load on the stock path, or of the
\* component it became.
StockHeld ==
  {<<"stock", t, region[t]>> : t \in {t \in Threads : stock[t]}}
    \cup {<<"code", c, code[c].mapping>> :
            c \in {c \in Codes : code[c] # None /\ code[c].mapping # None}}

\* Every mapping, with whoever will unmap it.
Maps == Held \cup StockHeld

JitTags == {"load", "pending", "engine"}

\* How the pages of a mapping may be protected.
ModesOf(h) == IF h[1] \in JitTags THEN {"jit"} ELSE {"rw", "rx"}

\* The mappings M lie in the address space and do not overlap, they are all that
\* is mapped, and the pages of a MAP_JIT mapping are never reprotected.
MapsOK(M, mem) ==
  /\ \A h \in M : PagesOf(h[3]) # {} /\ PagesOf(h[3]) \subseteq Pages
  /\ \A g, h \in M : g # h => PagesOf(g[3]) \cap PagesOf(h[3]) = {}
  /\ \A h \in M, p \in Pages : p \in PagesOf(h[3]) =>
       mem[p] \in ModesOf(h)
  /\ \A p \in Pages : mem[p] # "free" => \E h \in M : p \in PagesOf(h[3])

\* Where the region of a load is at each point of the load, and that the text it
\* publishes is inside it.
LoadOK(t) ==
  /\ stock[t] => pc[t] \in {"raw", "published"}
  /\ pc[t] # "idle" => /\ region[t] \in Regions /\ size[t] <= region[t].len
                       /\ engine[t] \in Engines /\ handle[engine[t]]
  /\ pc[t] \in {"raw", "empty"} /\ ~stock[t] => region[t] \in pending
  /\ pc[t] = "claimed" => claimed[t] = region[t]
  /\ pc[t] \in {"published", "loaded"} /\ ~stock[t] => region[t] \in owned[engine[t]]
  /\ pc[t] = "failed" => region[t] \in pending \cup owned[engine[t]]
  /\ pc[t] \in {"claimed", "published", "loaded"} =>
       /\ text[t] \in Ranges /\ text[t].len > 0 /\ Contains(region[t], text[t])
  /\ pc[t] = "published" /\ stock[t] => \A p \in PagesOf(text[t]) : prot[p] = "rx"

LoadInv == \A t \in Threads : LoadOK(t)

\* Two loads never work on the same region.
DistinctInv ==
  \A s, t \in Threads : s # t /\ pc[s] # "idle" /\ pc[t] # "idle" => region[s] # region[t]

\* A region in PENDING belongs to a load that will look for it there.
PendingInv ==
  \A r \in pending : \E t \in Threads :
    pc[t] \in {"raw", "failed", "empty"} /\ ~stock[t] /\ region[t] = r

\* The text of a component is in a region its engine owns or, published by
\* mprotect, in a mapping of its own.
CodeOK(k) ==
  /\ k.mapping # None => /\ k.text # None /\ k.text.len > 0 /\ Contains(k.mapping, k.text)
                         /\ \A p \in PagesOf(k.text) : prot[p] = "rx"
  /\ k.mapping = None /\ k.text # None => Owns(k.engine, k.text)

CodeInv == \A c \in Codes : code[c] # None => CodeOK(code[c])

\* A hook nobody refers to is gone, and its regions with it.
EngineInv == \A e \in Engines : ~Referenced(e, handle, code) => owned[e] = {}

IInv ==
  /\ TypeOK /\ MapsOK(Maps, prot)
  /\ LoadInv /\ DistinctInv /\ PendingInv /\ CodeInv /\ EngineInv
-----------------------------------------------------------------------------
(* Address arithmetic.                                                     *)

\* A region is a range of positive length.
LEMMA RangeFacts ==
  /\ \A r \in Ranges : r.base \in Nat /\ r.len \in Nat
  /\ \A r \in Regions : r \in Ranges /\ r.len > 0
  BY SizesAssumption DEF Ranges, Regions

\* A range that is not empty touches a page.
LEMMA SomePage ==
  ASSUME NEW r, r.base \in Nat, r.len \in Nat, r.len > 0
  PROVE  r.base \div PageSize \in PagesOf(r)
  <1>1. r.base \in r.base .. (r.base + r.len - 1)
    OBVIOUS
  <1> QED BY <1>1 DEF PagesOf

\* Region::contains: what lies inside a region lies on its pages.
LEMMA ContainsPages ==
  ASSUME NEW r, r.base \in Nat, r.len \in Nat, NEW x, x.base \in Nat, x.len \in Nat,
         Contains(r, x)
  PROVE  PagesOf(x) \subseteq PagesOf(r)
  <1>1. x.base .. (x.base + x.len - 1) \subseteq r.base .. (r.base + r.len - 1)
    BY DEF Contains
  <1> QED BY <1>1 DEF PagesOf

\* The mapped length covers the artifact and is whole pages.
LEMMA RoundUp ==
  ASSUME NEW n \in Nat
  PROVE  /\ MappedLen(n) \in Nat /\ MappedLen(n) > 0 /\ MappedLen(n) >= n
         /\ MappedLen(n) % PageSize = 0
  <1> DEFINE m == IF n = 0 THEN 1 ELSE n
             q == (m + PageSize - 1) \div PageSize
  <1>1. m \in Nat /\ m > 0 /\ m >= n /\ PageSize \in Nat \ {0}
    BY SizesAssumption
  <1>2. q \in Nat /\ q * PageSize >= m
    BY <1>1
  <1>3. (q * PageSize) % PageSize = 0
    BY <1>1, <1>2
  <1>4. MappedLen(n) = q * PageSize
    BY DEF MappedLen
  <1>5. q * PageSize \in Nat
    BY <1>1, <1>2
  <1> HIDE DEF m, q
  <1> QED BY <1>1, <1>2, <1>3, <1>4, <1>5

\* mmap returns a region of the address space, on pages that are free.
LEMMA MmapReturns ==
  ASSUME NEW n \in Nat, n > 0, n % PageSize = 0, NEW r \in Mappings(n)
  PROVE  /\ r \in Regions /\ r.len = n
         /\ PagesOf(r) # {} /\ PagesOf(r) \subseteq Pages
         /\ \A p \in PagesOf(r) : prot[p] = "free"
  <1>1. PICK b \in Pages : r = [base |-> b * PageSize, len |-> n]
    BY DEF Mappings
  <1>2. PagesOf(r) \subseteq Pages /\ \A p \in PagesOf(r) : prot[p] = "free"
    BY DEF Mappings
  <1>3. PageSize \in Nat \ {0} /\ NumPages \in Nat /\ b \in Nat /\ b >= 1 /\ b <= NumPages
    BY SizesAssumption DEF Pages
  <1>4. r.base = b * PageSize /\ r.len = n
    BY <1>1
  <1>5. b * PageSize \in Nat /\ b * PageSize >= PageSize /\ b * PageSize <= (NumPages + 1) * PageSize
    BY <1>3
  <1>6. PagesOf(r) # {}
    BY <1>4, <1>5, SomePage
  <1>7. (b * PageSize + n - 1) \div PageSize \in PagesOf(r)
    <2>1. b * PageSize + n - 1 \in r.base .. (r.base + r.len - 1)
      BY <1>4, <1>5
    <2> QED BY <2>1 DEF PagesOf
  <1>8. (b * PageSize + n - 1) \div PageSize <= NumPages
    BY <1>2, <1>7 DEF Pages
  <1>9. n <= NumPages * PageSize
    BY <1>3, <1>8
  <1>10. (b * PageSize) % PageSize = 0
    BY <1>3
  <1>11. b * PageSize \in PageSize .. (NumPages + 1) * PageSize /\ n \in 0 .. NumPages * PageSize
    BY <1>3, <1>5, <1>9
  <1>12. r \in Ranges
    BY <1>1, <1>11 DEF Ranges
  <1> QED BY <1>2, <1>4, <1>6, <1>10, <1>12 DEF Regions

-----------------------------------------------------------------------------
(* What the memory calls do to a set of mappings.                          *)

\* The pages of r exist and are free.
FreeIn(mem, r) ==
  /\ PagesOf(r) # {} /\ PagesOf(r) \subseteq Pages
  /\ \A p \in PagesOf(r) : mem[p] = "free"

\* No page of the mappings M changes between old and new.
Keeps(M, old, new) == \A g \in M : \A p \in PagesOf(g[3]) : new[p] = old[p]

\* mmap adds a mapping on free pages.
LEMMA AddMap ==
  ASSUME NEW M, NEW mem, MapsOK(M, mem), NEW h, FreeIn(mem, h[3]), NEW mode \in ModesOf(h)
  PROVE  /\ MapsOK(M \cup {h}, Mprotect(mem, PagesOf(h[3]), mode))
         /\ Keeps(M, mem, Mprotect(mem, PagesOf(h[3]), mode))
  <1> DEFINE new == Mprotect(mem, PagesOf(h[3]), mode)
  <1>0. /\ PagesOf(h[3]) # {} /\ PagesOf(h[3]) \subseteq Pages
        /\ \A p \in PagesOf(h[3]) : mem[p] = "free"
    BY DEF FreeIn
  <1>1. \A p \in Pages : new[p] = IF p \in PagesOf(h[3]) THEN mode ELSE mem[p]
    BY DEF Mprotect
  <1>2. \A g \in M : PagesOf(g[3]) \cap PagesOf(h[3]) = {}
    <2> SUFFICES ASSUME NEW g \in M, NEW p \in PagesOf(g[3]), p \in PagesOf(h[3]) PROVE FALSE
      OBVIOUS
    <2>1. p \in Pages /\ mem[p] = "free"
      BY <1>0
    <2>2. mem[p] \in {"jit"} \/ mem[p] \in {"rw", "rx"}
      BY <2>1 DEF MapsOK, ModesOf
    <2> QED BY <2>1, <2>2
  <1> HIDE DEF new
  <1>3. \A g \in M \cup {h} : PagesOf(g[3]) # {} /\ PagesOf(g[3]) \subseteq Pages
    BY <1>0 DEF MapsOK
  <1>4. \A f, g \in M \cup {h} : f # g => PagesOf(f[3]) \cap PagesOf(g[3]) = {}
    BY <1>2 DEF MapsOK
  <1>5. \A g \in M \cup {h}, p \in Pages : p \in PagesOf(g[3]) =>
          new[p] \in ModesOf(g)
    <2> SUFFICES ASSUME NEW g \in M \cup {h}, NEW p \in Pages, p \in PagesOf(g[3])
                 PROVE  new[p] \in ModesOf(g)
      OBVIOUS
    <2>1. CASE g = h
      BY <1>1, <2>1
    <2>2. CASE g \in M
      <3>1. new[p] = mem[p]
        BY <1>1, <1>2, <2>2
      <3> QED BY <2>2, <3>1 DEF MapsOK
    <2> QED BY <2>1, <2>2
  <1>6. \A p \in Pages : new[p] # "free" => \E g \in M \cup {h} : p \in PagesOf(g[3])
    BY <1>1 DEF MapsOK
  <1>7. MapsOK(M \cup {h}, new)
    BY <1>3, <1>4, <1>5, <1>6 DEF MapsOK
  <1>8. Keeps(M, mem, new)
    BY <1>1, <1>2, <1>3 DEF Keeps
  <1> QED BY <1>7, <1>8 DEF new

\* A region that changes hands stays where it is.
LEMMA PassMap ==
  ASSUME NEW M, NEW mem, MapsOK(M, mem), NEW h \in M, NEW g, g[3] = h[3],
         g[1] \in JitTags <=> h[1] \in JitTags
  PROVE  MapsOK((M \ {h}) \cup {g}, mem)
  <1> DEFINE N == (M \ {h}) \cup {g}
  <1>1. \A f \in N : PagesOf(f[3]) # {} /\ PagesOf(f[3]) \subseteq Pages
    BY DEF MapsOK
  <1>2. \A f \in M \ {h} : PagesOf(f[3]) \cap PagesOf(g[3]) = {}
    BY DEF MapsOK
  <1>3. \A e, f \in N : e # f => PagesOf(e[3]) \cap PagesOf(f[3]) = {}
    BY <1>2 DEF MapsOK
  <1>4. \A f \in N, p \in Pages : p \in PagesOf(f[3]) =>
          mem[p] \in ModesOf(f)
    BY DEF MapsOK, ModesOf
  <1>5. \A p \in Pages : mem[p] # "free" => \E f \in N : p \in PagesOf(f[3])
    BY DEF MapsOK
  <1> QED BY <1>1, <1>3, <1>4, <1>5 DEF MapsOK

\* The pages of the mappings D.
Covers(D, ps) == \A p : p \in ps <=> \E h \in D : p \in PagesOf(h[3])

\* munmap takes mappings away and touches no page of the others.
LEMMA DropMaps ==
  ASSUME NEW M, NEW mem, MapsOK(M, mem), NEW D, D \subseteq M,
         NEW ps, Covers(D, ps)
  PROVE  /\ MapsOK(M \ D, Munmap(mem, ps))
         /\ \A h \in M \ D : \A p \in PagesOf(h[3]) : Munmap(mem, ps)[p] = mem[p]
  <1> DEFINE new == Munmap(mem, ps)
  <1>1. \A p \in Pages : new[p] = IF p \in ps THEN "free" ELSE mem[p]
    BY DEF Munmap, Mprotect
  <1>3. \A h \in M \ D : PagesOf(h[3]) \cap ps = {}
    BY DEF MapsOK, Covers
  <1>4. \A h \in M \ D : PagesOf(h[3]) # {} /\ PagesOf(h[3]) \subseteq Pages
    BY DEF MapsOK
  <1> HIDE DEF new
  <1>5. \A h \in M \ D : \A p \in PagesOf(h[3]) : new[p] = mem[p]
    BY <1>1, <1>3, <1>4
  <1>6. \A g, h \in M \ D : g # h => PagesOf(g[3]) \cap PagesOf(h[3]) = {}
    BY DEF MapsOK
  <1>7. \A h \in M \ D, p \in Pages : p \in PagesOf(h[3]) =>
          new[p] \in ModesOf(h)
    BY <1>5 DEF MapsOK
  <1>8. \A p \in Pages : new[p] # "free" => \E h \in M \ D : p \in PagesOf(h[3])
    BY <1>1 DEF MapsOK, Covers
  <1>9. MapsOK(M \ D, new)
    BY <1>4, <1>6, <1>7, <1>8 DEF MapsOK
  <1> QED BY <1>5, <1>9 DEF new

\* mprotect on pages of a mapping of Wasmtime's own touches no other mapping.
LEMMA ProtectStock ==
  ASSUME NEW M, NEW mem, MapsOK(M, mem), NEW h \in M, h[1] \notin JitTags,
         NEW ps \in SUBSET PagesOf(h[3]), NEW mode \in {"rw", "rx"}
  PROVE  /\ MapsOK(M, Mprotect(mem, ps, mode))
         /\ \A g \in M \ {h} : \A p \in PagesOf(g[3]) : Mprotect(mem, ps, mode)[p] = mem[p]
  <1> DEFINE new == Mprotect(mem, ps, mode)
  <1>1. \A p \in Pages : new[p] = IF p \in ps THEN mode ELSE mem[p]
    BY DEF Mprotect
  <1>2. \A g \in M \ {h} : PagesOf(g[3]) \cap ps = {} /\ PagesOf(g[3]) \subseteq Pages
    BY DEF MapsOK
  <1> HIDE DEF new
  <1>3. \A g \in M \ {h} : \A p \in PagesOf(g[3]) : new[p] = mem[p]
    BY <1>1, <1>2
  <1>4. \A g \in M, p \in Pages : p \in PagesOf(g[3]) =>
          new[p] \in ModesOf(g)
    <2> SUFFICES ASSUME NEW g \in M, NEW p \in Pages, p \in PagesOf(g[3])
                 PROVE  new[p] \in ModesOf(g)
      OBVIOUS
    <2>1. mem[p] \in ModesOf(g)
      BY DEF MapsOK
    <2> QED BY <1>1, <1>3, <2>1 DEF ModesOf
  <1>5. \A p \in Pages : new[p] # "free" => \E g \in M : p \in PagesOf(g[3])
    BY <1>1 DEF MapsOK
  <1>6. MapsOK(M, new)
    BY <1>4, <1>5 DEF MapsOK
  <1> QED BY <1>3, <1>6 DEF new
-----------------------------------------------------------------------------
(* Facts about a state that satisfies the invariant.                       *)

\* Who is in Maps, before a step and after it.
LEMMA InMaps ==
  \A h : h \in Maps <=>
    \/ \E t \in Threads : pc[t] = "mapped" /\ h = <<"load", t, region[t]>>
    \/ \E t \in Threads : pc[t] = "claimed" /\ h = <<"load", t, claimed[t]>>
    \/ \E r \in pending : h = <<"pending", None, r>>
    \/ \E e \in Engines : \E r \in owned[e] : h = <<"engine", e, r>>
    \/ \E t \in Threads : stock[t] /\ h = <<"stock", t, region[t]>>
    \/ \E c \in Codes : code[c] # None /\ code[c].mapping # None /\ h = <<"code", c, code[c].mapping>>
  BY DEF Maps, Held, StockHeld

\* The same of the next state.
LEMMA InMapsNext ==
  \A h : h \in Maps' <=>
    \/ \E t \in Threads : pc'[t] = "mapped" /\ h = <<"load", t, region'[t]>>
    \/ \E t \in Threads : pc'[t] = "claimed" /\ h = <<"load", t, claimed'[t]>>
    \/ \E r \in pending' : h = <<"pending", None, r>>
    \/ \E e \in Engines : \E r \in owned'[e] : h = <<"engine", e, r>>
    \/ \E t \in Threads : stock'[t] /\ h = <<"stock", t, region'[t]>>
    \/ \E c \in Codes : code'[c] # None /\ code'[c].mapping # None /\ h = <<"code", c, code'[c].mapping>>
  BY DEF Maps, Held, StockHeld

\* Two mappings with a page in common are the same one, held by one holder.
LEMMA SameMap ==
  ASSUME MapsOK(Maps, prot), NEW g \in Maps, NEW h \in Maps, NEW p,
         p \in PagesOf(g[3]), p \in PagesOf(h[3])
  PROVE  g = h
  BY DEF MapsOK

\* The region of a load is mapped for as long as the load lasts.
LEMMA LoadIsMapped ==
  ASSUME IInv, NEW t \in Threads, pc[t] # "idle"
  PROVE  \E h \in Maps : h[3] = region[t] /\ (h[1] \in JitTags <=> ~stock[t])
  <1> USE DEF IInv
  <1>1. /\ stock[t] \in BOOLEAN
        /\ pc[t] \in {"mapped", "raw", "claimed", "published", "failed", "loaded", "empty"}
        /\ (stock[t] => pc[t] \in {"raw", "published"})
    BY DEF TypeOK, PCs, LoadInv, LoadOK
  <1>2. CASE stock[t]
    <2>1. <<"stock", t, region[t]>> \in Maps
      BY <1>2, InMaps
    <2> QED BY <1>2, <2>1 DEF JitTags
  <1>3. CASE ~stock[t]
    <2>1. \/ pc[t] = "mapped" \/ (pc[t] = "claimed" /\ claimed[t] = region[t])
          \/ region[t] \in pending \/ (engine[t] \in Engines /\ region[t] \in owned[engine[t]])
      <3>1. LoadOK(t)
        BY DEF LoadInv
      <3>2. pc[t] \in {"raw", "empty"} => region[t] \in pending
        BY <1>3, <3>1 DEF LoadOK
      <3>3. pc[t] = "claimed" => claimed[t] = region[t]
        BY <3>1 DEF LoadOK
      <3>4. pc[t] \in {"published", "loaded"} => region[t] \in owned[engine[t]]
        BY <1>3, <3>1 DEF LoadOK
      <3>5. pc[t] = "failed" => region[t] \in pending \cup owned[engine[t]]
        BY <3>1 DEF LoadOK
      <3>6. engine[t] \in Engines
        BY <3>1 DEF LoadOK
      <3> QED BY <1>1, <3>2, <3>3, <3>4, <3>5, <3>6
    <2>2. CASE pc[t] = "mapped" \/ (pc[t] = "claimed" /\ claimed[t] = region[t])
      <3>1. <<"load", t, region[t]>> \in Maps
        BY <2>2, InMaps
      <3> QED BY <1>3, <3>1 DEF JitTags
    <2>3. CASE region[t] \in pending
      <3>1. <<"pending", None, region[t]>> \in Maps
        BY <2>3, InMaps
      <3> QED BY <1>3, <3>1 DEF JitTags
    <2>4. CASE engine[t] \in Engines /\ region[t] \in owned[engine[t]]
      <3>1. <<"engine", engine[t], region[t]>> \in Maps
        BY <2>4, InMaps
      <3> QED BY <1>3, <3>1 DEF JitTags
    <2> QED BY <2>1, <2>2, <2>3, <2>4
  <1> QED BY <1>1, <1>2, <1>3

\* A pending region with the base of a load's region is that region.
LEMMA SameBase ==
  ASSUME IInv, NEW t \in Threads, pc[t] # "idle", NEW r \in pending, r.base = region[t].base
  PROVE  r = region[t]
  <1> USE DEF IInv
  <1>1. r \in Regions /\ region[t] \in Regions
    BY DEF TypeOK, LoadInv, LoadOK
  <1>2. r.base \div PageSize \in PagesOf(r) /\ r.base \div PageSize \in PagesOf(region[t])
    BY <1>1, RangeFacts, SomePage
  <1>3. PICK h \in Maps : h[3] = region[t]
    BY LoadIsMapped
  <1>4. <<"pending", None, r>> \in Maps
    BY InMaps
  <1>5. <<"pending", None, r>>[3] = r
    OBVIOUS
  <1>6. h = <<"pending", None, r>>
    BY <1>2, <1>3, <1>4, <1>5, SameMap
  <1> QED BY <1>3, <1>5, <1>6

\* A text inside a load's region, or inside a pending region, has pages, all of
\* them pages of that region.
LEMMA TextPages ==
  ASSUME NEW r \in Regions, NEW x \in Ranges, x.len > 0, Contains(r, x)
  PROVE  PagesOf(x) # {} /\ PagesOf(x) \subseteq PagesOf(r)
  BY RangeFacts, SomePage, ContainsPages

\* publish_executable finds no region but the load's own, and none for a text
\* in a mapping of Wasmtime's.
LEMMA ClaimsItsOwn ==
  ASSUME IInv, NEW t \in Threads, pc[t] # "idle", NEW x \in Ranges, x.len > 0,
         Contains(region[t], x), NEW r \in pending, Contains(r, x)
  PROVE  ~stock[t] /\ r = region[t]
  <1> USE DEF IInv
  <1>1. r \in Regions /\ region[t] \in Regions /\ stock[t] \in BOOLEAN
    BY DEF TypeOK, LoadInv, LoadOK
  <1>2. PagesOf(x) # {} /\ PagesOf(x) \subseteq PagesOf(r) /\ PagesOf(x) \subseteq PagesOf(region[t])
    BY <1>1, TextPages
  <1>3. PICK p : p \in PagesOf(x)
    BY <1>2
  <1>4. PICK h \in Maps : h[3] = region[t] /\ (h[1] \in JitTags <=> ~stock[t])
    BY LoadIsMapped
  <1>5. <<"pending", None, r>> \in Maps
    BY InMaps
  <1>6. <<"pending", None, r>>[3] = r /\ <<"pending", None, r>>[1] \in JitTags
    BY DEF JitTags
  <1>7. h = <<"pending", None, r>>
    BY <1>2, <1>3, <1>4, <1>5, <1>6, SameMap
  <1> QED BY <1>1, <1>4, <1>6, <1>7

\* No engine owns a text that lies in a mapping of Wasmtime's.
LEMMA StockIsNotOwned ==
  ASSUME IInv, NEW e \in Engines, NEW h \in Maps, h[1] \notin JitTags, h[3] \in Regions,
         NEW x \in Ranges, x.len > 0, Contains(h[3], x)
  PROVE  ~Owns(e, x)
  <1> USE DEF IInv
  <1> SUFFICES ASSUME NEW r \in owned[e], Contains(r, x) PROVE FALSE
    BY DEF Owns
  <1>1. r \in Regions
    BY DEF TypeOK
  <1>2. PICK p : p \in PagesOf(r) /\ p \in PagesOf(h[3])
    BY <1>1, TextPages
  <1>3. <<"engine", e, r>> \in Maps
    BY InMaps
  <1>4. <<"engine", e, r>>[3] = r /\ <<"engine", e, r>>[1] \in JitTags
    BY DEF JitTags
  <1> QED BY <1>2, <1>3, <1>4, SameMap

\* A load that does not take part in a step keeps what it relies on.
LEMMA LoadFrame ==
  ASSUME NEW s \in Threads, LoadOK(s),
         pc'[s] = pc[s], engine'[s] = engine[s], region'[s] = region[s], size'[s] = size[s],
         stock'[s] = stock[s], text'[s] = text[s], claimed'[s] = claimed[s],
         pc[s] # "idle" => handle'[engine[s]] /\ owned[engine[s]] \subseteq owned'[engine[s]],
         pc[s] # "idle" /\ region[s] \in pending => region[s] \in pending',
         stock[s] => \A p \in PagesOf(region[s]) : prot'[p] = prot[p]
  PROVE  LoadOK(s)'
  <1>1. pc[s] = "published" /\ stock[s] => \A p \in PagesOf(text[s]) : prot'[p] = "rx"
    <2> SUFFICES ASSUME pc[s] = "published", stock[s], NEW p \in PagesOf(text[s]) PROVE prot'[p] = "rx"
      OBVIOUS
    <2>1. /\ region[s] \in Regions /\ text[s] \in Ranges /\ text[s].len > 0
          /\ Contains(region[s], text[s]) /\ prot[p] = "rx"
      BY DEF LoadOK
    <2>2. p \in PagesOf(region[s])
      BY <2>1, TextPages
    <2> QED BY <2>1, <2>2
  <1>2. Contains(region[s], text[s])' <=> Contains(region[s], text[s])
    BY DEF Contains
  <1> QED BY <1>1, <1>2 DEF LoadOK

\* So does a component.
LEMMA CodeFrame ==
  ASSUME NEW k \in Components, CodeOK(k),
         owned[k.engine] \subseteq owned'[k.engine],
         k.mapping # None => \A p \in PagesOf(k.mapping) : prot'[p] = prot[p]
  PROVE  CodeOK(k)'
  <1>1. k.mapping # None => \A p \in PagesOf(k.text) : prot'[p] = "rx"
    <2> SUFFICES ASSUME k.mapping # None, NEW p \in PagesOf(k.text) PROVE prot'[p] = "rx"
      OBVIOUS
    <2>1. /\ k.mapping \in Regions /\ k.text \in Ranges /\ k.text.len > 0
          /\ Contains(k.mapping, k.text) /\ prot[p] = "rx"
      BY DEF CodeOK, Components
    <2>2. p \in PagesOf(k.mapping)
      BY <2>1, TextPages
    <2> QED BY <2>1, <2>2
  <1>2. Owns(k.engine, k.text) => Owns(k.engine, k.text)'
    BY DEF Owns
  <1> QED BY <1>1, <1>2 DEF CodeOK

\* Changing the protection of pages keeps the type of memory.
LEMMA MemoryType ==
  ASSUME NEW mem \in [Pages -> {"free", "jit", "rw", "rx"}], NEW ps,
         NEW mode \in {"free", "jit", "rw", "rx"}
  PROVE  /\ Mprotect(mem, ps, mode) \in [Pages -> {"free", "jit", "rw", "rx"}]
         /\ Munmap(mem, ps) \in [Pages -> {"free", "jit", "rw", "rx"}]
  BY DEF Mprotect, Munmap

-----------------------------------------------------------------------------
(* The steps.                                                              *)

\* Nothing is mapped and nobody loads.
LEMMA InitInv == Init => IInv
  <1> SUFFICES ASSUME Init PROVE IInv
    OBVIOUS
  <1> USE DEF Init
  <1>1. TypeOK
    BY DEF TypeOK, PCs
  <1>2. Maps = {}
    BY InMaps
  <1>3. MapsOK(Maps, prot)
    BY <1>2 DEF MapsOK
  <1>4. LoadInv /\ DistinctInv /\ PendingInv /\ CodeInv
    BY DEF LoadInv, LoadOK, DistinctInv, PendingInv, CodeInv
  <1>5. EngineInv
    BY DEF EngineInv
  <1> QED BY <1>1, <1>3, <1>4, <1>5 DEF IInv

\* A fresh engine starts without regions.
LEMMA EngineNewInv ==
  ASSUME IInv, NEW e \in Engines, EngineNew(e)
  PROVE  IInv'
  <1> USE DEF IInv, EngineNew, threadVars
  <1>1. TypeOK'
    BY DEF TypeOK
  <1>2. Maps' = Maps
    BY DEF Maps, Held, StockHeld
  <1>3. MapsOK(Maps, prot)'
    BY <1>2 DEF MapsOK
  <1>4. \A d \in Engines : handle[d] => handle'[d]
    BY DEF TypeOK
  <1>5. LoadInv'
    <2> SUFFICES ASSUME NEW t \in Threads PROVE LoadOK(t)'
      BY DEF LoadInv
    <2>1. LoadOK(t) /\ (pc[t] # "idle" => engine[t] \in Engines /\ handle[engine[t]])
      BY DEF LoadInv, LoadOK
    <2> QED BY <1>4, <2>1, LoadFrame
  <1>6. DistinctInv' /\ PendingInv'
    BY DEF DistinctInv, PendingInv
  <1>7. CodeInv'
    <2> SUFFICES ASSUME NEW c \in Codes, code[c] # None PROVE CodeOK(code[c])'
      BY DEF CodeInv
    <2>1. PICK k \in Components : k = code[c]
      BY DEF TypeOK
    <2>2. CodeOK(k)'
      BY <2>1, CodeFrame DEF CodeInv
    <2> QED BY <2>1, <2>2
  <1>8. EngineInv'
    BY <1>4 DEF EngineInv, Referenced
  <1> QED BY <1>1, <1>3, <1>5, <1>6, <1>7, <1>8

\* The mappings of an engine's hook.
HookMaps(e) == {<<"engine", e, r>> : r \in owned[e]}

\* What dropping a reference to a hook does to the mappings M that are there.
LEMMA HookDrop ==
  ASSUME NEW M, NEW mem, MapsOK(M, mem), NEW e \in Engines, NEW hs, NEW cs,
         mem \in [Pages -> {"free", "jit", "rw", "rx"}],
         HookMaps(e) \subseteq M, DropHook(e, hs, cs, mem)
  PROVE  \/ Referenced(e, hs, cs) /\ prot' = mem /\ owned' = owned
         \/ /\ ~Referenced(e, hs, cs) /\ owned' = [owned EXCEPT ![e] = {}]
            /\ prot' \in [Pages -> {"free", "jit", "rw", "rx"}]
            /\ MapsOK(M \ HookMaps(e), prot')
            /\ \A h \in M \ HookMaps(e) : \A p \in PagesOf(h[3]) : prot'[p] = mem[p]
  <1>1. CASE Referenced(e, hs, cs)
    BY <1>1 DEF DropHook
  <1>2. CASE ~Referenced(e, hs, cs)
    <2> DEFINE ps == UNION {PagesOf(r) : r \in owned[e]}
    <2>1. prot' = Munmap(mem, ps) /\ owned' = [owned EXCEPT ![e] = {}]
      BY <1>2 DEF DropHook
    <2>2. \A p : p \in ps <=> \E h \in HookMaps(e) : p \in PagesOf(h[3])
      <3>1. \A r : <<"engine", e, r>>[3] = r
        OBVIOUS
      <3>2. \A p : p \in ps <=> \E r \in owned[e] : p \in PagesOf(r)
        OBVIOUS
      <3>3. \A h : h \in HookMaps(e) <=> \E r \in owned[e] : h = <<"engine", e, r>>
        BY DEF HookMaps
      <3> QED BY <3>1, <3>2, <3>3
    <2> HIDE DEF ps
    <2>3. /\ MapsOK(M \ HookMaps(e), Munmap(mem, ps))
          /\ \A h \in M \ HookMaps(e) : \A p \in PagesOf(h[3]) : Munmap(mem, ps)[p] = mem[p]
      <3>1. HookMaps(e) \in SUBSET M
        OBVIOUS
      <3>2. PICK D, q : D = HookMaps(e) /\ q = ps
        OBVIOUS
      <3>3. D \subseteq M /\ Covers(D, q)
        BY <2>2, <3>1, <3>2 DEF Covers
      <3>4. /\ MapsOK(M \ D, Munmap(mem, q))
            /\ \A h \in M \ D : \A p \in PagesOf(h[3]) : Munmap(mem, q)[p] = mem[p]
        BY <3>3, DropMaps
      <3> QED BY <3>2, <3>4
    <2>4. Munmap(mem, ps) \in [Pages -> {"free", "jit", "rw", "rx"}]
      BY MemoryType
    <2> QED BY <1>2, <2>1, <2>3, <2>4
  <1> QED BY <1>1, <1>2

\* The engine handle is freed: its regions go with it unless a component still
\* refers to the hook.
LEMMA EngineFreeInv ==
  ASSUME IInv, NEW e \in Engines, EngineFree(e)
  PROVE  IInv'
  <1> USE DEF IInv, EngineFree, threadVars
  <1>1. HookMaps(e) \subseteq Maps
    BY InMaps DEF HookMaps
  <1>2. /\ handle' = [handle EXCEPT ![e] = FALSE] /\ handle' \in [Engines -> BOOLEAN]
        /\ \A d \in Engines \ {e} : handle'[d] = handle[d]
    BY DEF TypeOK
  <1>3. \/ Referenced(e, handle', code) /\ prot' = prot /\ owned' = owned
        \/ /\ ~Referenced(e, handle', code) /\ owned' = [owned EXCEPT ![e] = {}]
           /\ prot' \in [Pages -> {"free", "jit", "rw", "rx"}]
           /\ MapsOK(Maps \ HookMaps(e), prot')
           /\ \A h \in Maps \ HookMaps(e) : \A p \in PagesOf(h[3]) : prot'[p] = prot[p]
    <2>1. /\ MapsOK(Maps, prot) /\ DropHook(e, handle', code, prot)
          /\ prot \in [Pages -> {"free", "jit", "rw", "rx"}]
      BY DEF TypeOK
    <2>2. PICK M, mem, hs, cs : M = Maps /\ mem = prot /\ hs = handle' /\ cs = code
      OBVIOUS
    <2> QED BY <1>1, <2>1, <2>2, HookDrop
  <1>4. /\ owned' \in [Engines -> SUBSET Regions]
        /\ \A d \in Engines \ {e} : owned'[d] = owned[d]
        /\ Referenced(e, handle', code) => owned' = owned
        /\ ~Referenced(e, handle', code) => owned'[e] = {}
    BY <1>3 DEF TypeOK
  <1>5. TypeOK'
    <2>1. prot' \in [Pages -> {"free", "jit", "rw", "rx"}]
      BY <1>3, MemoryType DEF TypeOK
    <2> QED BY <1>2, <1>4, <2>1 DEF TypeOK
  <1>6. MapsOK(Maps, prot)'
    <2>1. CASE owned' = owned /\ prot' = prot
      <3>1. Maps' = Maps
        BY <2>1 DEF Maps, Held, StockHeld
      <3> QED BY <2>1, <3>1 DEF MapsOK
    <2>2. CASE owned' = [owned EXCEPT ![e] = {}] /\ MapsOK(Maps \ HookMaps(e), prot')
      <3>1. Maps' = Maps \ HookMaps(e)
        <4>1. \A h : h \in Maps' <=> h \in Maps /\ h \notin HookMaps(e)
          BY <1>4, <2>2, InMaps, InMapsNext DEF HookMaps, TypeOK
        <4> QED BY <4>1
      <3> QED BY <2>2, <3>1 DEF MapsOK
    <2> QED BY <1>3, <2>1, <2>2
  <1>7. \A h \in Maps : h[1] # "engine" => \A p \in PagesOf(h[3]) : prot'[p] = prot[p]
    <2>1. \A h \in HookMaps(e) : h[1] = "engine"
      BY DEF HookMaps
    <2> QED BY <1>3, <2>1
  <1>8. LoadInv'
    <2> SUFFICES ASSUME NEW t \in Threads PROVE LoadOK(t)'
      BY DEF LoadInv
    <2>1. LoadOK(t) /\ (pc[t] # "idle" => engine[t] \in Engines /\ handle[engine[t]])
      BY DEF LoadInv, LoadOK
    <2>2. pc[t] # "idle" => handle'[engine[t]] /\ owned[engine[t]] \subseteq owned'[engine[t]]
      BY <1>2, <1>4, <2>1
    <2>3. stock[t] => \A p \in PagesOf(region[t]) : prot'[p] = prot[p]
      <3>1. stock[t] => <<"stock", t, region[t]>> \in Maps
        BY InMaps
      <3> QED BY <1>7, <3>1
    <2> QED BY <2>1, <2>2, <2>3, LoadFrame
  <1>9. DistinctInv' /\ PendingInv'
    BY DEF DistinctInv, PendingInv
  <1>10. CodeInv'
    <2> SUFFICES ASSUME NEW c \in Codes, code[c] # None PROVE CodeOK(code[c])'
      BY DEF CodeInv
    <2>1. PICK k \in Components : k = code[c]
      BY DEF TypeOK
    <2>2. owned[k.engine] \subseteq owned'[k.engine]
      BY <1>4, <2>1 DEF Components, Referenced
    <2>3. k.mapping # None => \A p \in PagesOf(k.mapping) : prot'[p] = prot[p]
      <3>1. k.mapping # None => <<"code", c, k.mapping>> \in Maps
        BY <2>1, InMaps
      <3> QED BY <1>7, <3>1
    <2>4. CodeOK(k)'
      BY <2>1, <2>2, <2>3, CodeFrame DEF CodeInv
    <2> QED BY <2>1, <2>4
  <1>11. EngineInv'
    <2> SUFFICES ASSUME NEW d \in Engines, ~Referenced(d, handle', code) PROVE owned'[d] = {}
      BY DEF EngineInv
    <2>1. CASE d = e
      BY <1>4, <2>1
    <2>2. CASE d # e
      <3>1. ~Referenced(d, handle, code)
        BY <1>2, <2>2 DEF Referenced
      <3> QED BY <1>4, <2>2, <3>1 DEF EngineInv
    <2> QED BY <2>1, <2>2
  <1> QED BY <1>5, <1>6, <1>8, <1>9, <1>10, <1>11

\* munmap of one mapping, after its text was made writable again.
LEMMA FreeStock ==
  ASSUME NEW M, NEW mem, MapsOK(M, mem), mem \in [Pages -> {"free", "jit", "rw", "rx"}],
         NEW h \in M, h[1] \notin JitTags, NEW ps, ps \subseteq PagesOf(h[3])
  PROVE  LET new == Munmap(Mprotect(mem, ps, "rw"), PagesOf(h[3]))
         IN  /\ MapsOK(M \ {h}, new) /\ new \in [Pages -> {"free", "jit", "rw", "rx"}]
             /\ \A g \in M \ {h} : \A p \in PagesOf(g[3]) : new[p] = mem[p]
  <1> DEFINE mid == Mprotect(mem, ps, "rw")
             new == Munmap(mid, PagesOf(h[3]))
  <1>1. /\ MapsOK(M, mid) /\ mid \in [Pages -> {"free", "jit", "rw", "rx"}]
        /\ \A g \in M \ {h} : \A p \in PagesOf(g[3]) : mid[p] = mem[p]
    BY ProtectStock, MemoryType
  <1> HIDE DEF mid
  <1>2. Covers({h}, PagesOf(h[3])) /\ {h} \subseteq M
    BY DEF Covers
  <1>3. /\ MapsOK(M \ {h}, new)
        /\ \A g \in M \ {h} : \A p \in PagesOf(g[3]) : new[p] = mid[p]
    <2>1. PICK D, qs, m : D = {h} /\ qs = PagesOf(h[3]) /\ m = mid
      OBVIOUS
    <2>2. D \subseteq M /\ Covers(D, qs) /\ MapsOK(M, m)
      BY <1>1, <1>2, <2>1
    <2>3. /\ MapsOK(M \ D, Munmap(m, qs))
          /\ \A g \in M \ D : \A p \in PagesOf(g[3]) : Munmap(m, qs)[p] = m[p]
      BY <2>2, DropMaps
    <2> QED BY <2>1, <2>3
  <1>4. new \in [Pages -> {"free", "jit", "rw", "rx"}]
    BY <1>1, MemoryType
  <1> HIDE DEF new
  <1>5. /\ MapsOK(M \ {h}, new) /\ new \in [Pages -> {"free", "jit", "rw", "rx"}]
        /\ \A g \in M \ {h} : \A p \in PagesOf(g[3]) : new[p] = mem[p]
    BY <1>1, <1>3, <1>4
  <1> QED BY <1>5 DEF new, mid

\* What unpublish_executable and the drop of the mapping leave behind.
LEMMA CodeUnmapped ==
  ASSUME IInv, NEW c \in Codes, NEW k \in Components, k = code[c], code[c] # None
  PROVE  LET mem == Unpublish(prot, k.engine, k.text)
             new == IF k.mapping = None THEN mem ELSE Munmap(mem, PagesOf(k.mapping))
             M   == IF k.mapping = None THEN Maps ELSE Maps \ {<<"code", c, k.mapping>>}
         IN  /\ MapsOK(M, new) /\ new \in [Pages -> {"free", "jit", "rw", "rx"}]
             /\ \A h \in M : \A p \in PagesOf(h[3]) : new[p] = prot[p]
  <1> USE DEF IInv
  <1>1. MapsOK(Maps, prot) /\ prot \in [Pages -> {"free", "jit", "rw", "rx"}] /\ CodeOK(k)
    BY DEF TypeOK, CodeInv
  <1>2. CASE k.mapping = None
    <2>1. Unpublish(prot, k.engine, k.text) = prot
      BY <1>1, <1>2 DEF CodeOK, Unpublish
    <2> QED BY <1>1, <1>2, <2>1
  <1>3. CASE k.mapping # None
    <2>1. PICK h \in Maps : h = <<"code", c, k.mapping>>
      BY <1>3, InMaps
    <2>2. h[3] = k.mapping /\ h[1] \notin JitTags
      BY <2>1 DEF JitTags
    <2>3. /\ k.mapping \in Regions /\ k.text \in Ranges /\ k.text # None /\ k.text.len > 0
          /\ Contains(k.mapping, k.text) /\ k.engine \in Engines
      BY <1>1, <1>3 DEF CodeOK, Components
    <2>4. ~Owns(k.engine, k.text)
      BY <2>2, <2>3, StockIsNotOwned
    <2>5. Unpublish(prot, k.engine, k.text) = Mprotect(prot, PagesOf(k.text), "rw")
      BY <2>3, <2>4 DEF Unpublish
    <2>6. PagesOf(k.text) \subseteq PagesOf(h[3])
      BY <2>2, <2>3, TextPages
    <2>7. PICK M, mem : M = Maps /\ mem = prot
      OBVIOUS
    <2>8. /\ MapsOK(M \ {h}, Munmap(Mprotect(mem, PagesOf(k.text), "rw"), PagesOf(h[3])))
          /\ Munmap(Mprotect(mem, PagesOf(k.text), "rw"), PagesOf(h[3]))
               \in [Pages -> {"free", "jit", "rw", "rx"}]
          /\ \A g \in M \ {h} : \A p \in PagesOf(g[3]) :
               Munmap(Mprotect(mem, PagesOf(k.text), "rw"), PagesOf(h[3]))[p] = mem[p]
      <3>1. MapsOK(M, mem) /\ mem \in [Pages -> {"free", "jit", "rw", "rx"}] /\ h \in M
        BY <1>1, <2>7
      <3>2. PICK ps : ps = PagesOf(k.text)
        OBVIOUS
      <3>3. ps \subseteq PagesOf(h[3]) /\ h[1] \notin JitTags
        BY <2>2, <2>6, <3>2
      <3>4. /\ MapsOK(M \ {h}, Munmap(Mprotect(mem, ps, "rw"), PagesOf(h[3])))
            /\ Munmap(Mprotect(mem, ps, "rw"), PagesOf(h[3]))
                 \in [Pages -> {"free", "jit", "rw", "rx"}]
            /\ \A g \in M \ {h} : \A p \in PagesOf(g[3]) :
                 Munmap(Mprotect(mem, ps, "rw"), PagesOf(h[3]))[p] = mem[p]
        BY <3>1, <3>3, FreeStock
      <3> QED BY <3>2, <3>4
    <2> QED BY <1>3, <2>1, <2>2, <2>5, <2>7, <2>8
  <1> QED BY <1>2, <1>3

\* A component is freed, and with the last one of a freed engine its regions.
LEMMA CodeFreeInv ==
  ASSUME IInv, NEW c \in Codes, CodeFree(c)
  PROVE  IInv'
  <1> USE DEF IInv, CodeFree, threadVars
  <1>1. PICK k \in Components : k = code[c]
    BY DEF TypeOK
  <1>2. k.engine \in Engines
    BY DEF Components
  <1>3. PICK mem, M :
          /\ mem = LET m == Unpublish(prot, k.engine, k.text)
                   IN  IF k.mapping = None THEN m ELSE Munmap(m, PagesOf(k.mapping))
          /\ M = IF k.mapping = None THEN Maps ELSE Maps \ {<<"code", c, k.mapping>>}
    OBVIOUS
  <1>4. /\ MapsOK(M, mem) /\ mem \in [Pages -> {"free", "jit", "rw", "rx"}]
        /\ \A h \in M : \A p \in PagesOf(h[3]) : mem[p] = prot[p]
    BY <1>1, <1>3, CodeUnmapped
  <1>5. HookMaps(k.engine) \subseteq M
    BY <1>2, <1>3, InMaps DEF HookMaps
  <1>6. PICK hs, cs : hs = handle /\ cs = code'
    OBVIOUS
  <1>7. \/ Referenced(k.engine, hs, cs) /\ prot' = mem /\ owned' = owned
        \/ /\ ~Referenced(k.engine, hs, cs) /\ owned' = [owned EXCEPT ![k.engine] = {}]
           /\ prot' \in [Pages -> {"free", "jit", "rw", "rx"}]
           /\ MapsOK(M \ HookMaps(k.engine), prot')
           /\ \A h \in M \ HookMaps(k.engine) : \A p \in PagesOf(h[3]) : prot'[p] = mem[p]
    <2>1. DropHook(k.engine, hs, cs, mem)
      BY <1>1, <1>3, <1>6
    <2> QED BY <1>2, <1>4, <1>5, <2>1, HookDrop
  <1>8. /\ owned' \in [Engines -> SUBSET Regions]
        /\ \A d \in Engines \ {k.engine} : owned'[d] = owned[d]
        /\ Referenced(k.engine, handle, code') => owned' = owned
        /\ ~Referenced(k.engine, handle, code') => owned'[k.engine] = {}
    BY <1>2, <1>6, <1>7 DEF TypeOK
  <1>9. code' = [code EXCEPT ![c] = None] /\ code' \in [Codes -> Components \cup {None}]
    BY DEF TypeOK
  <1>10. TypeOK'
    BY <1>4, <1>7, <1>8, <1>9 DEF TypeOK
  <1>11. \A h \in M : h[1] # "engine" => \A p \in PagesOf(h[3]) : prot'[p] = prot[p]
    <2>1. \A h \in HookMaps(k.engine) : h[1] = "engine"
      BY DEF HookMaps
    <2> QED BY <1>4, <1>7, <2>1
  <1>12. \A h : h \in M <=> /\ h \in Maps
                            /\ ~(code[c].mapping # None /\ h = <<"code", c, code[c].mapping>>)
    BY <1>1, <1>3
  <1>13. MapsOK(Maps, prot)'
    <2>1. \A h : (/\ h \in Maps
                  /\ ~(code[c].mapping # None /\ h = <<"code", c, code[c].mapping>>)) <=>
            \/ \E t \in Threads : pc[t] = "mapped" /\ h = <<"load", t, region[t]>>
            \/ \E t \in Threads : pc[t] = "claimed" /\ h = <<"load", t, claimed[t]>>
            \/ \E r \in pending : h = <<"pending", None, r>>
            \/ \E e \in Engines : \E r \in owned[e] : h = <<"engine", e, r>>
            \/ \E t \in Threads : stock[t] /\ h = <<"stock", t, region[t]>>
            \/ \E d \in Codes : code'[d] # None /\ code'[d].mapping # None /\ h = <<"code", d, code'[d].mapping>>
      BY <1>9, InMaps DEF TypeOK
    <2>2. CASE owned' = owned /\ prot' = mem
      <3>1. \A h : h \in Maps' <=> h \in M
        BY <1>12, <2>1, <2>2, InMapsNext
      <3>2. Maps' = M
        BY <3>1
      <3> QED BY <1>4, <2>2, <3>2
    <2>3. CASE owned' = [owned EXCEPT ![k.engine] = {}] /\ MapsOK(M \ HookMaps(k.engine), prot')
      <3>1. \A h : h \in Maps' <=> h \in M /\ h \notin HookMaps(k.engine)
        BY <1>2, <1>8, <1>12, <2>1, <2>3, InMapsNext DEF HookMaps, TypeOK
      <3>2. Maps' = M \ HookMaps(k.engine)
        BY <3>1
      <3> QED BY <2>3, <3>2
    <2> QED BY <1>7, <2>2, <2>3
  <1>14. LoadInv'
    <2> SUFFICES ASSUME NEW t \in Threads PROVE LoadOK(t)'
      BY DEF LoadInv
    <2>1. LoadOK(t) /\ (pc[t] # "idle" => engine[t] \in Engines /\ handle[engine[t]])
      BY DEF LoadInv, LoadOK
    <2>2. pc[t] # "idle" => handle'[engine[t]] /\ owned[engine[t]] \subseteq owned'[engine[t]]
      BY <1>8, <2>1 DEF Referenced
    <2>3. stock[t] => \A p \in PagesOf(region[t]) : prot'[p] = prot[p]
      <3>1. stock[t] => <<"stock", t, region[t]>> \in M
        BY <1>12, InMaps
      <3> QED BY <1>11, <3>1
    <2> QED BY <2>1, <2>2, <2>3, LoadFrame
  <1>15. DistinctInv' /\ PendingInv'
    BY DEF DistinctInv, PendingInv
  <1>16. CodeInv'
    <2> SUFFICES ASSUME NEW d \in Codes, code'[d] # None PROVE CodeOK(code[d])'
      BY DEF CodeInv
    <2>0. d # c /\ code'[d] = code[d]
      BY <1>9 DEF TypeOK
    <2>1. PICK j \in Components : j = code[d]
      BY <2>0 DEF TypeOK
    <2>2. owned[j.engine] \subseteq owned'[j.engine]
      BY <1>8, <2>0, <2>1 DEF Components, Referenced
    <2>3. j.mapping # None => \A p \in PagesOf(j.mapping) : prot'[p] = prot[p]
      <3>1. j.mapping # None => <<"code", d, j.mapping>> \in M
        BY <1>12, <2>0, <2>1, InMaps
      <3> QED BY <1>11, <3>1
    <2>4. CodeOK(j)'
      BY <2>0, <2>1, <2>2, <2>3, CodeFrame DEF CodeInv
    <2> QED BY <2>0, <2>1, <2>4
  <1>17. EngineInv'
    <2> SUFFICES ASSUME NEW d \in Engines, ~Referenced(d, handle, code') PROVE owned'[d] = {}
      BY DEF EngineInv
    <2>1. CASE d = k.engine
      BY <1>8, <2>1
    <2>2. CASE d # k.engine
      <3>1. ~Referenced(d, handle, code)
        BY <1>1, <1>9, <2>2 DEF Referenced, TypeOK
      <3> QED BY <1>8, <2>2, <3>1 DEF EngineInv
    <2> QED BY <2>1, <2>2
  <1> QED BY <1>10, <1>13, <1>14, <1>15, <1>16, <1>17

\* mmap does not return the region of a load under way.
LEMMA FreshRegion ==
  ASSUME IInv, NEW s \in Threads, pc[s] # "idle",
         NEW r, PagesOf(r) # {}, \A p \in PagesOf(r) : prot[p] = "free"
  PROVE  region[s] # r
  <1> SUFFICES ASSUME region[s] = r PROVE FALSE
    OBVIOUS
  <1>1. PICK h \in Maps : h[3] = r
    BY LoadIsMapped
  <1>2. PICK p : p \in PagesOf(h[3]) /\ p \in Pages /\ prot[p] = "free"
    BY <1>1 DEF IInv, MapsOK
  <1>3. prot[p] \in {"jit"} \/ prot[p] \in {"rw", "rx"}
    BY <1>2 DEF IInv, MapsOK, ModesOf
  <1> QED BY <1>2, <1>3

\* A load begins with a new mapping: a MAP_JIT one that the load holds, or
\* Wasmtime's own.
LEMMA NewMapInv ==
  ASSUME IInv, NEW t \in Threads, NEW e \in Engines, NEW n \in Sizes, NEW tag \in {"load", "stock"},
         pc[t] = "idle", handle[e], NEW r \in Mappings(MappedLen(n)),
         prot' = Mprotect(prot, PagesOf(r), IF tag = "load" THEN "jit" ELSE "rw"),
         pc' = [pc EXCEPT ![t] = IF tag = "load" THEN "mapped" ELSE "raw"],
         stock' = [stock EXCEPT ![t] = (tag = "stock")],
         region' = [region EXCEPT ![t] = r], engine' = [engine EXCEPT ![t] = e],
         size' = [size EXCEPT ![t] = n],
         UNCHANGED <<pending, owned, handle, code, text, claimed>>
  PROVE  IInv'
  <1> USE DEF IInv
  <1>1. n \in Nat
    BY SizesAssumption
  <1>2. /\ r \in Regions /\ r.len >= n /\ PagesOf(r) # {} /\ PagesOf(r) \subseteq Pages
        /\ \A p \in PagesOf(r) : prot[p] = "free"
    BY <1>1, RoundUp, MmapReturns
  <1>3. stock[t] = FALSE
    BY DEF LoadInv, LoadOK, TypeOK
  <1>4. TypeOK'
    <2>1. prot' \in [Pages -> {"free", "jit", "rw", "rx"}]
      BY MemoryType DEF TypeOK
    <2>2. pc' \in [Threads -> PCs] /\ stock' \in [Threads -> BOOLEAN]
      BY DEF TypeOK, PCs
    <2> QED BY <1>2, <2>1, <2>2 DEF TypeOK
  <1>5. PICK h : h = <<tag, t, r>>
    OBVIOUS
  <1>6. h[3] = r /\ (h[1] \in JitTags <=> tag = "load")
    BY <1>5 DEF JitTags
  <1>7. Maps' = Maps \cup {h}
    <2>1. \A g : g \in Maps' <=> g \in Maps \/ g = h
      BY <1>3, <1>5, InMaps, InMapsNext DEF TypeOK
    <2> QED BY <2>1
  <1>8. /\ MapsOK(Maps \cup {h}, prot')
        /\ \A g \in Maps : \A p \in PagesOf(g[3]) : prot'[p] = prot[p]
    <2>1. PICK M, mem, mode : M = Maps /\ mem = prot /\ mode = IF tag = "load" THEN "jit" ELSE "rw"
      OBVIOUS
    <2>2. MapsOK(M, mem) /\ FreeIn(mem, h[3]) /\ mode \in ModesOf(h)
      BY <1>2, <1>6, <2>1 DEF ModesOf, FreeIn
    <2>3. /\ MapsOK(M \cup {h}, Mprotect(mem, PagesOf(h[3]), mode))
          /\ Keeps(M, mem, Mprotect(mem, PagesOf(h[3]), mode))
      BY <2>2, AddMap
    <2> QED BY <1>6, <2>1, <2>3 DEF Keeps
  <1>9. MapsOK(Maps, prot)'
    BY <1>7, <1>8
  <1>10. LoadInv'
    <2> SUFFICES ASSUME NEW s \in Threads PROVE LoadOK(s)'
      BY DEF LoadInv
    <2>1. CASE s = t
      BY <1>2, <2>1 DEF LoadOK, TypeOK
    <2>2. CASE s # t
      <3>1. LoadOK(s) /\ (pc[s] # "idle" => handle[engine[s]])
        BY DEF LoadInv, LoadOK
      <3>2. /\ pc'[s] = pc[s] /\ engine'[s] = engine[s] /\ region'[s] = region[s] /\ size'[s] = size[s]
            /\ stock'[s] = stock[s] /\ text'[s] = text[s] /\ claimed'[s] = claimed[s]
        BY <2>2 DEF TypeOK
      <3>3. stock[s] => \A p \in PagesOf(region[s]) : prot'[p] = prot[p]
        <4>1. stock[s] => <<"stock", s, region[s]>> \in Maps
          BY InMaps
        <4> QED BY <1>8, <4>1
      <3> QED BY <3>1, <3>2, <3>3, LoadFrame
    <2> QED BY <2>1, <2>2
  <1>11. DistinctInv'
    <2>1. \A s \in Threads : pc[s] # "idle" => region[s] # r
      BY <1>2, FreshRegion
    <2> QED BY <2>1 DEF DistinctInv, TypeOK
  <1>12. PendingInv'
    <2> SUFFICES ASSUME NEW q \in pending
                 PROVE  \E s \in Threads : pc'[s] \in {"raw", "failed", "empty"} /\ ~stock'[s] /\ region'[s] = q
      BY DEF PendingInv
    <2>1. PICK s \in Threads : pc[s] \in {"raw", "failed", "empty"} /\ ~stock[s] /\ region[s] = q
      BY DEF PendingInv
    <2> QED BY <2>1 DEF TypeOK
  <1>13. CodeInv'
    <2> SUFFICES ASSUME NEW c \in Codes, code[c] # None PROVE CodeOK(code[c])'
      BY DEF CodeInv
    <2>1. PICK k \in Components : k = code[c]
      BY DEF TypeOK
    <2>2. k.mapping # None => \A p \in PagesOf(k.mapping) : prot'[p] = prot[p]
      <3>1. k.mapping # None => <<"code", c, k.mapping>> \in Maps
        BY <2>1, InMaps
      <3> QED BY <1>8, <3>1
    <2>3. CodeOK(k)'
      BY <2>1, <2>2, CodeFrame DEF CodeInv
    <2> QED BY <2>1, <2>3
  <1>14. EngineInv'
    BY DEF EngineInv
  <1> QED BY <1>4, <1>9, <1>10, <1>11, <1>12, <1>13, <1>14

\* Region::with_contents, or Wasmtime's own mapping on the stock path.
LEMMA MapInv ==
  ASSUME IInv, NEW t \in Threads, NEW e \in Engines, NEW n \in Sizes, Map(t, e, n) \/ StockMap(t, e, n)
  PROVE  IInv'
  <1>1. CASE Map(t, e, n)
    <2>1. PICK r \in Mappings(MappedLen(n)) :
            region' = [region EXCEPT ![t] = r] /\ prot' = Mprotect(prot, PagesOf(r), "jit")
      BY <1>1 DEF Map
    <2>2. stock' = [stock EXCEPT ![t] = ("load" = "stock")]
      BY <1>1 DEF Map, IInv, LoadInv, LoadOK, TypeOK
    <2> QED BY <1>1, <2>1, <2>2, NewMapInv DEF Map, Goto
  <1>2. CASE StockMap(t, e, n)
    <2>1. PICK r \in Mappings(MappedLen(n)) :
            region' = [region EXCEPT ![t] = r] /\ prot' = Mprotect(prot, PagesOf(r), "rw")
      BY <1>2 DEF StockMap
    <2> QED BY <1>2, <2>1, NewMapInv DEF StockMap, Goto
  <1> QED BY <1>1, <1>2

\* The variables of the loads other than t's.
OthersSame(t) ==
  \A s \in Threads \ {t} :
    /\ pc'[s] = pc[s] /\ engine'[s] = engine[s] /\ region'[s] = region[s] /\ size'[s] = size[s]
    /\ stock'[s] = stock[s] /\ text'[s] = text[s] /\ claimed'[s] = claimed[s]

\* The pages that stock loads other than t's and stock components live on.
StockSame(t) ==
  /\ \A s \in Threads \ {t} : stock[s] => \A p \in PagesOf(region[s]) : prot'[p] = prot[p]
  /\ \A c \in Codes : code[c] # None /\ code[c].mapping # None =>
       \A p \in PagesOf(code[c].mapping) : prot'[p] = prot[p]

\* A step of load t that leaves PENDING to the other loads does not disturb them.
LEMMA OtherLoads ==
  ASSUME IInv, NEW t \in Threads, pc[t] # "idle", OthersSame(t), StockSame(t), handle' = handle,
         \A e \in Engines : owned[e] \subseteq owned'[e],
         \A r \in pending : r # region[t] => r \in pending',
         NEW s \in Threads, s # t
  PROVE  LoadOK(s)'
  <1>1. LoadOK(s) /\ (pc[s] # "idle" => engine[s] \in Engines /\ handle[engine[s]])
    BY DEF IInv, LoadInv, LoadOK
  <1>2. pc[s] # "idle" => handle'[engine[s]] /\ owned[engine[s]] \subseteq owned'[engine[s]]
    BY <1>1
  <1>3. pc[s] # "idle" /\ region[s] \in pending => region[s] \in pending'
    BY DEF IInv, DistinctInv
  <1>4. stock[s] => \A p \in PagesOf(region[s]) : prot'[p] = prot[p]
    BY DEF StockSame
  <1>5. /\ pc'[s] = pc[s] /\ engine'[s] = engine[s] /\ region'[s] = region[s] /\ size'[s] = size[s]
        /\ stock'[s] = stock[s] /\ text'[s] = text[s] /\ claimed'[s] = claimed[s]
    BY DEF OthersSame
  <1> QED BY <1>1, <1>2, <1>3, <1>4, <1>5, LoadFrame

\* Nor does it disturb a component that stays.
LEMMA OtherCode ==
  ASSUME IInv, NEW t, StockSame(t), NEW c \in Codes, code[c] # None, code'[c] = code[c],
         \A e \in Engines : owned[e] \subseteq owned'[e]
  PROVE  CodeOK(code[c])'
  <1>1. PICK k \in Components : k = code[c]
    BY DEF IInv, TypeOK
  <1>2. k.engine \in Engines
    BY DEF Components
  <1>3. k.mapping # None => \A p \in PagesOf(k.mapping) : prot'[p] = prot[p]
    BY <1>1 DEF StockSame
  <1>4. CodeOK(k)
    BY <1>1 DEF IInv, CodeInv
  <1>5. CodeOK(k)'
    BY <1>2, <1>3, <1>4, CodeFrame
  <1> QED BY <1>1, <1>5

\* A load goes on.
LEMMA StepInv ==
  ASSUME IInv, NEW t \in Threads, pc[t] # "idle", pc'[t] # "idle", OthersSame(t), StockSame(t),
         UNCHANGED <<handle, code, region, stock>>,
         TypeOK', MapsOK(Maps, prot)', LoadOK(t)',
         \A e \in Engines : owned[e] \subseteq owned'[e] /\ (owned'[e] # owned[e] => handle[e]),
         \A r \in pending : r # region[t] => r \in pending',
         \A r \in pending' : r # region[t] => r \in pending,
         region[t] \in pending' => pc'[t] \in {"raw", "failed", "empty"} /\ ~stock[t]
  PROVE  IInv'
  <1>1. LoadInv'
    <2> SUFFICES ASSUME NEW s \in Threads PROVE LoadOK(s)'
      BY DEF LoadInv
    <2>1. CASE s = t
      BY <2>1
    <2>2. CASE s # t
      BY <2>2, OtherLoads
    <2> QED BY <2>1, <2>2
  <1>2. DistinctInv'
    BY DEF DistinctInv, OthersSame, IInv
  <1>3. PendingInv'
    <2> SUFFICES ASSUME NEW r \in pending'
                 PROVE  \E s \in Threads : pc'[s] \in {"raw", "failed", "empty"} /\ ~stock'[s] /\ region'[s] = r
      BY DEF PendingInv
    <2>1. CASE r = region[t]
      BY <2>1
    <2>2. CASE r # region[t]
      <3>1. PICK s \in Threads : pc[s] \in {"raw", "failed", "empty"} /\ ~stock[s] /\ region[s] = r
        BY <2>2 DEF IInv, PendingInv
      <3> QED BY <2>2, <3>1 DEF OthersSame
    <2> QED BY <2>1, <2>2
  <1>4. CodeInv'
    <2> SUFFICES ASSUME NEW c \in Codes, code[c] # None PROVE CodeOK(code[c])'
      BY DEF CodeInv
    <2> QED BY OtherCode
  <1>5. EngineInv'
    BY DEF EngineInv, IInv, Referenced
  <1> QED BY <1>1, <1>2, <1>3, <1>4, <1>5 DEF IInv

\* A load returns, with a component or without.
LEMMA LeaveInv ==
  ASSUME IInv, NEW t \in Threads, pc[t] # "idle", LeaveLoad(t), StockSame(t),
         UNCHANGED <<owned, handle>>,
         prot' \in [Pages -> {"free", "jit", "rw", "rx"}], MapsOK(Maps, prot)',
         pending' \subseteq pending, \A r \in pending : r # region[t] => r \in pending',
         stock[t] \/ region[t] \notin pending',
         \/ code' = code
         \/ \E c \in Codes, k \in Components :
              code[c] = None /\ code' = [code EXCEPT ![c] = k] /\ CodeOK(k)'
  PROVE  IInv'
  <1> USE DEF LeaveLoad
  <1>1. code' \in [Codes -> Components \cup {None}]
    BY DEF IInv, TypeOK
  <1>2. TypeOK'
    BY <1>1 DEF IInv, TypeOK, PCs
  <1>3. OthersSame(t)
    BY DEF OthersSame, IInv, TypeOK
  <1>4. pc'[t] = "idle" /\ stock'[t] = FALSE
    BY DEF IInv, TypeOK
  <1>5. LoadInv'
    <2> SUFFICES ASSUME NEW s \in Threads PROVE LoadOK(s)'
      BY DEF LoadInv
    <2>1. CASE s = t
      BY <1>4, <2>1 DEF LoadOK
    <2>2. CASE s # t
      <3>1. \A e \in Engines : owned[e] \subseteq owned'[e]
        OBVIOUS
      <3> QED BY <1>3, <2>2, <3>1, OtherLoads
    <2> QED BY <2>1, <2>2
  <1>6. DistinctInv'
    BY <1>3, <1>4 DEF DistinctInv, OthersSame, IInv
  <1>7. PendingInv'
    <2> SUFFICES ASSUME NEW r \in pending'
                 PROVE  \E s \in Threads : pc'[s] \in {"raw", "failed", "empty"} /\ ~stock'[s] /\ region'[s] = r
      BY DEF PendingInv
    <2>1. PICK s \in Threads : pc[s] \in {"raw", "failed", "empty"} /\ ~stock[s] /\ region[s] = r
      BY DEF IInv, PendingInv
    <2>2. s # t
      BY <2>1
    <2> QED BY <1>3, <2>1, <2>2 DEF OthersSame
  <1>8. \A e \in Engines : owned[e] \subseteq owned'[e]
    OBVIOUS
  <1>9. CodeInv'
    <2> SUFFICES ASSUME NEW c \in Codes, code'[c] # None PROVE CodeOK(code[c])'
      BY DEF CodeInv
    <2>1. CASE code'[c] = code[c]
      BY <1>8, <2>1, OtherCode
    <2>2. CASE code'[c] # code[c]
      <3>1. PICK k \in Components : code'[c] = k /\ CodeOK(k)'
        BY <2>2 DEF IInv, TypeOK
      <3> QED BY <3>1
    <2> QED BY <2>1, <2>2
  <1>10. EngineInv'
    <2> SUFFICES ASSUME NEW e \in Engines, ~Referenced(e, handle', code') PROVE owned[e] = {}
      BY DEF EngineInv
    <2>1. ~Referenced(e, handle, code)
      <3>1. \A c \in Codes : code[c] # None => code'[c] = code[c]
        BY DEF IInv, TypeOK
      <3> QED BY <3>1 DEF Referenced
    <2> QED BY <2>1 DEF IInv, EngineInv
  <1> QED BY <1>2, <1>5, <1>6, <1>7, <1>9, <1>10 DEF IInv

\* A load moves on and the memory stays as it is.
LEMMA QuietInv ==
  ASSUME IInv, NEW t \in Threads, NEW l \in {"failed", "loaded", "empty"},
         pc[t] \in {"raw", "published"}, ~stock[t], Goto(t, l),
         UNCHANGED <<prot, pending, owned, handle, code, engine, region, size, stock, text, claimed>>,
         LoadOK(t)', region[t] \in pending => l \in {"failed", "empty"}
  PROVE  IInv'
  <1> USE DEF Goto
  <1>1. TypeOK'
    BY DEF IInv, TypeOK, PCs
  <1>2. pc'[t] = l /\ OthersSame(t)
    BY DEF IInv, TypeOK, OthersSame
  <1>3. StockSame(t)
    BY DEF StockSame
  <1>4. Maps' = Maps
    <2>1. \A h : h \in Maps' <=> h \in Maps
      BY <1>2, InMaps, InMapsNext DEF OthersSame
    <2> QED BY <2>1
  <1>5. MapsOK(Maps, prot)'
    BY <1>4 DEF IInv, MapsOK
  <1> QED BY <1>1, <1>2, <1>3, <1>5, StepInv

\* A region changes hands: the memory stays as it is.
LEMMA Passed ==
  ASSUME MapsOK(Maps, prot), prot' = prot, NEW h \in Maps, NEW g, g[3] = h[3],
         g[1] \in JitTags <=> h[1] \in JitTags,
         \A x : x \in Maps' <=> (x \in Maps /\ x # h) \/ x = g
  PROVE  MapsOK(Maps, prot)'
  <1>1. PICK M, mem : M = Maps /\ mem = prot
    OBVIOUS
  <1>2. MapsOK((M \ {h}) \cup {g}, mem)
    BY <1>1, PassMap
  <1>3. Maps' = (M \ {h}) \cup {g}
    BY <1>1
  <1> QED BY <1>1, <1>2, <1>3

\* The region goes from the load to PENDING.
LEMMA PushInv ==
  ASSUME IInv, NEW t \in Threads, Push(t)
  PROVE  IInv'
  <1> USE DEF Push, Goto
  <1>1. /\ LoadOK(t) /\ region[t] \in Regions /\ stock[t] = FALSE
    BY DEF IInv, LoadInv, LoadOK, TypeOK
  <1>2. TypeOK'
    BY <1>1 DEF IInv, TypeOK, PCs
  <1>3. pc'[t] = "raw" /\ OthersSame(t)
    BY DEF IInv, TypeOK, OthersSame
  <1>4. StockSame(t)
    BY DEF StockSame
  <1>5. MapsOK(Maps, prot)'
    <2>1. PICK h, g : h = <<"load", t, region[t]>> /\ g = <<"pending", None, region[t]>>
      OBVIOUS
    <2>2. h \in Maps /\ g[3] = h[3] /\ h[1] \in JitTags /\ g[1] \in JitTags
      BY <2>1, InMaps DEF JitTags
    <2>3. \A x : x \in Maps' <=> (x \in Maps /\ x # h) \/ x = g
      BY <1>3, <2>1, InMaps, InMapsNext DEF OthersSame
    <2> QED BY <2>2, <2>3, Passed DEF IInv
  <1>6. LoadOK(t)'
    BY <1>1, <1>3 DEF LoadOK
  <1> QED BY <1>1, <1>2, <1>3, <1>4, <1>5, <1>6, StepInv

\* A stock load fails: its mapping goes, and nothing else.
LEMMA StockGone ==
  ASSUME IInv, NEW t \in Threads, pc[t] # "idle", stock[t], LeaveLoad(t),
         NEW ps, ps \subseteq PagesOf(region[t]),
         prot' = Munmap(Mprotect(prot, ps, "rw"), PagesOf(region[t])),
         UNCHANGED <<pending, owned, handle, code>>
  PROVE  IInv'
  <1>1. PICK M, mem, h : M = Maps /\ mem = prot /\ h = <<"stock", t, region[t]>>
    OBVIOUS
  <1>2. h \in M /\ h[1] \notin JitTags /\ h[3] = region[t]
    BY <1>1, InMaps DEF JitTags
  <1>3. /\ MapsOK(M \ {h}, prot') /\ prot' \in [Pages -> {"free", "jit", "rw", "rx"}]
        /\ \A g \in M \ {h} : \A p \in PagesOf(g[3]) : prot'[p] = mem[p]
    <2>1. MapsOK(M, mem) /\ mem \in [Pages -> {"free", "jit", "rw", "rx"}] /\ ps \subseteq PagesOf(h[3])
      BY <1>1, <1>2 DEF IInv, TypeOK
    <2>2. prot' = Munmap(Mprotect(mem, ps, "rw"), PagesOf(h[3]))
      BY <1>1, <1>2
    <2>3. /\ MapsOK(M \ {h}, Munmap(Mprotect(mem, ps, "rw"), PagesOf(h[3])))
          /\ Munmap(Mprotect(mem, ps, "rw"), PagesOf(h[3])) \in [Pages -> {"free", "jit", "rw", "rx"}]
          /\ \A g \in M \ {h} : \A p \in PagesOf(g[3]) :
               Munmap(Mprotect(mem, ps, "rw"), PagesOf(h[3]))[p] = mem[p]
      BY <1>2, <2>1, FreeStock
    <2> QED BY <2>2, <2>3
  <1>4. /\ pc'[t] = "idle" /\ stock'[t] = FALSE
        /\ \A s \in Threads \ {t} : /\ pc'[s] = pc[s] /\ stock'[s] = stock[s]
                                    /\ region'[s] = region[s] /\ claimed'[s] = claimed[s]
    BY DEF LeaveLoad, IInv, TypeOK
  <1>5. pc[t] \notin {"mapped", "claimed"}
    BY DEF IInv, LoadInv, LoadOK
  <1>6. Maps' = M \ {h}
    <2>1. \A x : x \in Maps' <=> x \in Maps /\ x # h
      BY <1>1, <1>4, <1>5, InMaps, InMapsNext
    <2> QED BY <1>1, <2>1
  <1>7. MapsOK(Maps, prot)'
    BY <1>3, <1>6
  <1>8. StockSame(t)
    <2>1. \A s \in Threads \ {t} : stock[s] => <<"stock", s, region[s]>> \in M \ {h}
      BY <1>1, InMaps
    <2>2. \A c \in Codes : code[c] # None /\ code[c].mapping # None =>
            <<"code", c, code[c].mapping>> \in M \ {h}
      BY <1>1, InMaps
    <2>3. \A g \in M \ {h} : \A p \in PagesOf(g[3]) : prot'[p] = prot[p]
      BY <1>1, <1>3
    <2>4. \A s \in Threads \ {t} : stock[s] => \A p \in PagesOf(region[s]) : prot'[p] = prot[p]
      <3>1. \A s : <<"stock", s, region[s]>>[3] = region[s]
        OBVIOUS
      <3> QED BY <2>1, <2>3, <3>1
    <2>5. \A c \in Codes : code[c] # None /\ code[c].mapping # None =>
            \A p \in PagesOf(code[c].mapping) : prot'[p] = prot[p]
      <3>1. \A c : <<"code", c, code[c].mapping>>[3] = code[c].mapping
        OBVIOUS
      <3> QED BY <2>2, <2>3, <3>1
    <2> QED BY <2>4, <2>5 DEF StockSame
  <1>9. pending' \subseteq pending /\ (\A r \in pending : r # region[t] => r \in pending')
    OBVIOUS
  <1> QED BY <1>3, <1>7, <1>8, <1>9, LeaveInv

\* Wasmtime refuses the artifact.
LEMMA RawRefusesInv ==
  ASSUME IInv, NEW t \in Threads, RawRefuses(t)
  PROVE  IInv'
  <1>1. pc[t] = "raw" /\ UNCHANGED <<pending, owned, handle, code>> /\ LoadOK(t) /\ stock[t] \in BOOLEAN
    BY DEF RawRefuses, IInv, LoadInv, TypeOK
  <1>2. CASE stock[t]
    <2>1. prot' = Munmap(prot, PagesOf(region[t])) /\ LeaveLoad(t)
      BY <1>2 DEF RawRefuses
    <2>2. Mprotect(prot, {}, "rw") = prot
      BY DEF Mprotect, IInv, TypeOK
    <2> QED BY <1>1, <1>2, <2>1, <2>2, StockGone
  <1>3. CASE ~stock[t]
    <2>1. /\ Goto(t, "failed")
          /\ UNCHANGED <<prot, engine, region, size, stock, text, claimed>>
      BY <1>3 DEF RawRefuses
    <2>2. pc'[t] = "failed"
      BY <2>1 DEF Goto, IInv, TypeOK
    <2>3. LoadOK(t)'
      BY <1>1, <1>3, <2>1, <2>2 DEF LoadOK
    <2> QED BY <1>1, <1>3, <2>1, <2>3, QuietInv
  <1> QED BY <1>1, <1>2, <1>3

\* Raw succeeds without publishing.
LEMMA RawEmptyInv ==
  ASSUME IInv, NEW t \in Threads, RawEmpty(t)
  PROVE  IInv'
  <1>1. /\ pc[t] = "raw" /\ ~stock[t] /\ Goto(t, "empty") /\ LoadOK(t)
        /\ UNCHANGED <<prot, pending, owned, handle, code, engine, region, size, stock, text, claimed>>
    BY DEF RawEmpty, IInv, LoadInv
  <1>2. pc'[t] = "empty"
    BY <1>1 DEF Goto, IInv, TypeOK
  <1>3. LoadOK(t)'
    BY <1>1, <1>2 DEF LoadOK
  <1> QED BY <1>1, <1>3, QuietInv

\* PENDING holds the region of no load but those that will take it back.
LEMMA NotPending ==
  ASSUME IInv, NEW t \in Threads, pc[t] # "idle",
         stock[t] \/ pc[t] \notin {"raw", "failed", "empty"}
  PROVE  region[t] \notin pending
  <1> SUFFICES ASSUME region[t] \in pending PROVE FALSE
    OBVIOUS
  <1>1. PICK s \in Threads :
          pc[s] \in {"raw", "failed", "empty"} /\ ~stock[s] /\ region[s] = region[t]
    BY DEF IInv, PendingInv
  <1>2. s # t
    BY <1>1
  <1> QED BY <1>1, <1>2 DEF IInv, DistinctInv

\* A step that leaves the pages of every mapping but load t's own.
LEMMA StockStays ==
  ASSUME NEW t \in Threads, NEW h, h = <<"stock", t, region[t]>>,
         \A g \in Maps : g # h => \A p \in PagesOf(g[3]) : prot'[p] = prot[p]
  PROVE  StockSame(t)
  <1>1. \A s \in Threads \ {t} : stock[s] => \A p \in PagesOf(region[s]) : prot'[p] = prot[p]
    <2> SUFFICES ASSUME NEW s \in Threads \ {t}, stock[s]
                 PROVE  \A p \in PagesOf(region[s]) : prot'[p] = prot[p]
      OBVIOUS
    <2>1. <<"stock", s, region[s]>> \in Maps /\ <<"stock", s, region[s]>> # h
      BY InMaps
    <2> QED BY <2>1
  <1>2. \A c \in Codes : code[c] # None /\ code[c].mapping # None =>
          \A p \in PagesOf(code[c].mapping) : prot'[p] = prot[p]
    <2> SUFFICES ASSUME NEW c \in Codes, code[c] # None, code[c].mapping # None
                 PROVE  \A p \in PagesOf(code[c].mapping) : prot'[p] = prot[p]
      OBVIOUS
    <2>1. <<"code", c, code[c].mapping>> \in Maps /\ <<"code", c, code[c].mapping>> # h
      BY InMaps
    <2> QED BY <2>1
  <1> QED BY <1>1, <1>2 DEF StockSame

\* publish_executable: a load takes its own region out of PENDING, or a stock
\* load reprotects pages of its own mapping.
LEMMA PublishInv ==
  ASSUME IInv, NEW t \in Threads, Publish(t)
  PROVE  IInv'
  <1>1. PICK x \in Ranges :
          /\ x.len > 0 /\ x.base % PageSize = 0
          /\ x.base >= region[t].base /\ x.base + x.len <= region[t].base + size[t]
          /\ text' = [text EXCEPT ![t] = x]
          /\ \/ \E r \in pending :
                  /\ Contains(r, x)
                  /\ pending' = pending \ {r}
                  /\ claimed' = [claimed EXCEPT ![t] = r]
                  /\ Goto(t, "claimed")
                  /\ UNCHANGED prot
             \/ /\ \A r \in pending : ~Contains(r, x)
                /\ prot' = Mprotect(prot, PagesOf(x), "rx")
                /\ Goto(t, "published")
                /\ UNCHANGED <<pending, claimed>>
    BY DEF Publish
  <1>2. pc[t] = "raw" /\ UNCHANGED <<owned, handle, code, engine, region, size, stock>>
    BY DEF Publish
  <1>3. LoadOK(t) /\ region[t] \in Regions /\ size[t] <= region[t].len /\ stock[t] \in BOOLEAN
    BY <1>2 DEF IInv, LoadInv, LoadOK, TypeOK
  <1>4. Contains(region[t], x)
    <2>1. size[t] \in Nat
      <3>1. size[t] \in Sizes \cup {0}
        BY DEF IInv, TypeOK
      <3>2. \A n \in Sizes : n \in Nat
        BY SizesAssumption
      <3>3. 0 \in Nat
        OBVIOUS
      <3> QED BY <3>1, <3>2, <3>3
    <2>2. x.base \in Nat /\ x.len \in Nat /\ region[t].base \in Nat /\ region[t].len \in Nat
      BY <1>3, RangeFacts
    <2> QED BY <1>1, <1>3, <2>1, <2>2 DEF Contains
  <1>5. PagesOf(x) # {} /\ PagesOf(x) \subseteq PagesOf(region[t])
    BY <1>1, <1>3, <1>4, TextPages
  <1>6. CASE \E r \in pending :
               /\ Contains(r, x)
               /\ pending' = pending \ {r}
               /\ claimed' = [claimed EXCEPT ![t] = r]
               /\ Goto(t, "claimed")
               /\ UNCHANGED prot
    <2>1. PICK r \in pending :
               /\ Contains(r, x)
               /\ pending' = pending \ {r}
               /\ claimed' = [claimed EXCEPT ![t] = r]
               /\ Goto(t, "claimed")
               /\ UNCHANGED prot
      BY <1>6
    <2>2. ~stock[t] /\ r = region[t]
      BY <1>1, <1>2, <1>4, <2>1, ClaimsItsOwn
    <2>3. TypeOK'
      BY <1>1, <1>2, <1>3, <2>1, <2>2 DEF IInv, TypeOK, PCs, Goto
    <2>4. pc'[t] = "claimed" /\ claimed'[t] = region[t] /\ text'[t] = x /\ OthersSame(t)
      BY <1>1, <1>2, <2>1, <2>2 DEF IInv, TypeOK, OthersSame, Goto
    <2>5. StockSame(t)
      BY <2>1 DEF StockSame
    <2>6. MapsOK(Maps, prot)'
      <3>1. PICK h, g : h = <<"pending", None, r>> /\ g = <<"load", t, r>>
        OBVIOUS
      <3>2. h \in Maps /\ g[3] = h[3] /\ h[1] \in JitTags /\ g[1] \in JitTags
        BY <3>1, InMaps DEF JitTags
      <3>3. \A y : y \in Maps' <=> (y \in Maps /\ y # h) \/ y = g
        BY <1>2, <2>1, <2>2, <2>4, <3>1, InMaps, InMapsNext DEF OthersSame
      <3> QED BY <2>1, <3>2, <3>3, Passed DEF IInv
    <2>7. Contains(region[t], text[t])'
      BY <1>2, <1>4, <2>4 DEF Contains
    <2>8. LoadOK(t)'
      BY <1>1, <1>2, <1>3, <2>2, <2>4, <2>7 DEF LoadOK
    <2> QED BY <1>2, <2>1, <2>2, <2>3, <2>4, <2>5, <2>6, <2>8, StepInv
  <1>7. CASE /\ \A r \in pending : ~Contains(r, x)
             /\ prot' = Mprotect(prot, PagesOf(x), "rx")
             /\ Goto(t, "published")
             /\ UNCHANGED <<pending, claimed>>
    <2>1. stock[t]
      <3> SUFFICES ASSUME ~stock[t] PROVE FALSE
        BY <1>3
      <3>1. region[t] \in pending
        BY <1>2, <1>3 DEF LoadOK
      <3> QED BY <1>4, <1>7, <3>1
    <2>2. pc'[t] = "published" /\ text'[t] = x /\ OthersSame(t)
      BY <1>1, <1>2, <1>7 DEF IInv, TypeOK, OthersSame, Goto
    <2>3. TypeOK'
      <3>1. prot' \in [Pages -> {"free", "jit", "rw", "rx"}]
        BY <1>7, MemoryType DEF IInv, TypeOK
      <3> QED BY <1>1, <1>2, <1>7, <3>1 DEF IInv, TypeOK, PCs, Goto
    <2>4. PICK M, mem, h, ps : M = Maps /\ mem = prot /\ h = <<"stock", t, region[t]>> /\ ps = PagesOf(x)
      OBVIOUS
    <2>5. h \in M /\ h[1] \notin JitTags /\ h[3] = region[t]
      BY <2>1, <2>4, InMaps DEF JitTags
    <2>6. /\ MapsOK(M, Mprotect(mem, ps, "rx"))
          /\ \A g \in M \ {h} : \A p \in PagesOf(g[3]) : Mprotect(mem, ps, "rx")[p] = mem[p]
      <3>1. MapsOK(M, mem) /\ ps \in SUBSET PagesOf(h[3])
        BY <1>5, <2>4, <2>5 DEF IInv
      <3> QED BY <2>5, <3>1, ProtectStock
    <2>7. prot' = Mprotect(mem, ps, "rx")
      BY <1>7, <2>4
    <2>8. \A g \in Maps : g # h => \A p \in PagesOf(g[3]) : prot'[p] = prot[p]
      BY <2>4, <2>6, <2>7
    <2>9. StockSame(t)
      BY <2>4, <2>8, StockStays
    <2>10. Maps' = M
      <3>1. \A y : y \in Maps' <=> y \in Maps
        BY <1>2, <1>7, <2>2, InMaps, InMapsNext DEF OthersSame
      <3> QED BY <2>4, <3>1
    <2>11. MapsOK(Maps, prot)'
      BY <2>6, <2>7, <2>10
    <2>12. \A p \in PagesOf(x) : prot'[p] = "rx"
      <3>1. PagesOf(x) \subseteq Pages
        BY <1>5, <2>4, <2>5 DEF IInv, MapsOK
      <3> QED BY <1>7, <3>1 DEF Mprotect
    <2>13. Contains(region[t], text[t])'
      BY <1>2, <1>4, <2>2 DEF Contains
    <2>14. LoadOK(t)'
      <3>1. \A p \in PagesOf(text'[t]) : prot'[p] = "rx"
        BY <2>2, <2>12
      <3>2. PagesOf(text[t])' = PagesOf(text'[t])
        BY DEF PagesOf
      <3> QED BY <1>1, <1>2, <1>3, <2>1, <2>2, <2>13, <3>1, <3>2 DEF LoadOK
    <2>15. region[t] \notin pending'
      BY <1>2, <1>7, <2>1, NotPending
    <2> QED BY <1>2, <1>7, <2>2, <2>3, <2>9, <2>11, <2>14, <2>15, StepInv
  <1> QED BY <1>1, <1>6, <1>7

\* The region goes from the load to its engine's hook.
LEMMA OwnInv ==
  ASSUME IInv, NEW t \in Threads, Own(t)
  PROVE  IInv'
  <1> USE DEF Own, Goto
  <1>1. /\ LoadOK(t) /\ region[t] \in Regions /\ stock[t] = FALSE /\ claimed[t] = region[t]
        /\ engine[t] \in Engines /\ handle[engine[t]]
    BY DEF IInv, LoadInv, LoadOK, TypeOK
  <1>2. /\ \A e \in Engines : owned'[e] = IF e = engine[t] THEN owned[e] \cup {region[t]} ELSE owned[e]
        /\ owned' \in [Engines -> SUBSET Regions]
    <2>1. owned \in [Engines -> SUBSET Regions]
      BY DEF IInv, TypeOK
    <2>2. owned' = [owned EXCEPT ![engine[t]] = owned[engine[t]] \cup {region[t]}]
      BY <1>1
    <2>3. owned[engine[t]] \cup {region[t]} \in SUBSET Regions
      BY <1>1, <2>1
    <2> HIDE DEF Own
    <2>4. PICK own : own = owned[engine[t]] \cup {region[t]}
      OBVIOUS
    <2> QED BY <1>1, <2>1, <2>2, <2>3, <2>4
  <1>3. TypeOK'
    BY <1>1, <1>2 DEF IInv, TypeOK, PCs
  <1>4. pc'[t] = "published" /\ OthersSame(t)
    BY DEF IInv, TypeOK, OthersSame
  <1>5. StockSame(t)
    BY DEF StockSame
  <1>6. MapsOK(Maps, prot)'
    <2>1. PICK h, g : h = <<"load", t, region[t]>> /\ g = <<"engine", engine[t], region[t]>>
      OBVIOUS
    <2>2. h \in Maps /\ g[3] = h[3] /\ h[1] \in JitTags /\ g[1] \in JitTags
      BY <1>1, <2>1, InMaps DEF JitTags
    <2>3. \A x : x \in Maps' <=> (x \in Maps /\ x # h) \/ x = g
      BY <1>1, <1>2, <1>4, <2>1, InMaps, InMapsNext DEF OthersSame
    <2> QED BY <2>2, <2>3, Passed DEF IInv
  <1>7. Contains(region[t], text[t])' <=> Contains(region[t], text[t])
    BY DEF Contains
  <1>8. LoadOK(t)'
    BY <1>1, <1>2, <1>4, <1>7 DEF LoadOK
  <1>9. region[t] \notin pending
    BY NotPending
  <1> QED BY <1>1, <1>2, <1>3, <1>4, <1>5, <1>6, <1>8, <1>9, StepInv

\* Wasmtime gives up: the hook keeps an owned text as it is, a stock mapping goes.
LEMMA RawFailsInv ==
  ASSUME IInv, NEW t \in Threads, RawFails(t)
  PROVE  IInv'
  <1>1. /\ pc[t] = "published" /\ UNCHANGED <<pending, owned, handle, code>>
        /\ LoadOK(t) /\ stock[t] \in BOOLEAN
    BY DEF RawFails, IInv, LoadInv, TypeOK
  <1>2. /\ text[t] \in Ranges /\ text[t].len > 0 /\ Contains(region[t], text[t]) /\ text[t] # None
        /\ region[t] \in Regions /\ engine[t] \in Engines
    BY <1>1, NoneAssumption DEF LoadOK
  <1>3. CASE stock[t]
    <2>1. /\ prot' = Munmap(Unpublish(prot, engine[t], text[t]), PagesOf(region[t])) /\ LeaveLoad(t)
      BY <1>3 DEF RawFails
    <2>2. PICK h \in Maps : h = <<"stock", t, region[t]>>
      BY <1>3, InMaps
    <2>3. h[3] = region[t] /\ h[1] \notin JitTags
      BY <2>2 DEF JitTags
    <2>4. ~Owns(engine[t], text[t])
      BY <1>2, <2>3, StockIsNotOwned
    <2>5. Unpublish(prot, engine[t], text[t]) = Mprotect(prot, PagesOf(text[t]), "rw")
      BY <1>2, <2>4 DEF Unpublish
    <2>6. PagesOf(text[t]) \subseteq PagesOf(region[t])
      BY <1>2, TextPages
    <2> QED BY <1>1, <1>3, <2>1, <2>5, <2>6, StockGone
  <1>4. CASE ~stock[t]
    <2>1. region[t] \in owned[engine[t]]
      BY <1>1, <1>4 DEF LoadOK
    <2>2. Unpublish(prot, engine[t], text[t]) = prot
      BY <1>2, <2>1 DEF Unpublish, Owns
    <2>3. /\ prot' = prot /\ Goto(t, "failed")
          /\ UNCHANGED <<engine, region, size, stock, text, claimed>>
      BY <1>4, <2>2 DEF RawFails
    <2>4. pc'[t] = "failed"
      BY <2>3 DEF Goto, IInv, TypeOK
    <2>5. LoadOK(t)'
      BY <1>1, <1>4, <2>1, <2>3, <2>4 DEF LoadOK
    <2> QED BY <1>1, <1>4, <2>3, <2>5, QuietInv
  <1> QED BY <1>1, <1>3, <1>4

\* Raw succeeds: a stock load returns its component with its mapping.
LEMMA RawOkInv ==
  ASSUME IInv, NEW t \in Threads, RawOk(t)
  PROVE  IInv'
  <1>1. /\ pc[t] = "published" /\ UNCHANGED <<prot, pending, owned, handle>>
        /\ LoadOK(t) /\ stock[t] \in BOOLEAN
    BY DEF RawOk, IInv, LoadInv, TypeOK
  <1>2. /\ text[t] \in Ranges /\ text[t].len > 0 /\ Contains(region[t], text[t])
        /\ region[t] \in Regions /\ engine[t] \in Engines
    BY <1>1 DEF LoadOK
  <1>3. text[t] # None /\ region[t] # None
    BY <1>2, RangeFacts, NoneAssumption
  <1>4. CASE stock[t]
    <2>0. PICK k : k = [engine |-> engine[t], text |-> text[t], mapping |-> region[t]]
      OBVIOUS
    <2>1. PICK c \in Codes : code[c] = None /\ code' = [code EXCEPT ![c] = k]
      BY <1>4, <2>0 DEF RawOk, Return
    <2>2. LeaveLoad(t)
      BY <1>4 DEF RawOk, Return
    <2>3. k.engine = engine[t] /\ k.text = text[t] /\ k.mapping = region[t] /\ k \in Components
      BY <1>2, <2>0 DEF Components
    <2>4. k # None
      BY <2>3, NoneAssumption
    <2>5. /\ pc'[t] = "idle" /\ stock'[t] = FALSE
          /\ \A s \in Threads \ {t} : /\ pc'[s] = pc[s] /\ stock'[s] = stock[s]
                                      /\ region'[s] = region[s] /\ claimed'[s] = claimed[s]
      BY <2>2 DEF LeaveLoad, IInv, TypeOK
    <2>6. code'[c] = k /\ \A d \in Codes \ {c} : code'[d] = code[d]
      BY <2>1 DEF IInv, TypeOK
    <2>7. MapsOK(Maps, prot)'
      <3>1. PICK h, g : h = <<"stock", t, region[t]>> /\ g = <<"code", c, region[t]>>
        OBVIOUS
      <3>2. h \in Maps /\ g[3] = h[3] /\ h[1] \notin JitTags /\ g[1] \notin JitTags
        BY <1>4, <3>1, InMaps DEF JitTags
      <3>3. \A x : x \in Maps' <=> (x \in Maps /\ x # h) \/ x = g
        BY <1>1, <1>3, <2>1, <2>3, <2>4, <2>5, <2>6, <3>1, InMaps, InMapsNext
      <3> QED BY <1>1, <3>2, <3>3, Passed DEF IInv
    <2>8. CodeOK(k)'
      <3>1. \A p \in PagesOf(text[t]) : prot'[p] = "rx"
        BY <1>1, <1>4 DEF LoadOK
      <3> QED BY <1>2, <1>3, <2>3, <3>1 DEF CodeOK
    <2>9. StockSame(t)
      BY <1>1 DEF StockSame
    <2>10. prot' \in [Pages -> {"free", "jit", "rw", "rx"}]
      BY <1>1 DEF IInv, TypeOK
    <2>11. \/ code' = code
           \/ \E b \in Codes, j \in Components :
                code[b] = None /\ code' = [code EXCEPT ![b] = j] /\ CodeOK(j)'
      BY <2>1, <2>3, <2>8
    <2> QED BY <1>1, <1>4, <2>2, <2>7, <2>9, <2>10, <2>11, LeaveInv
  <1>5. CASE ~stock[t]
    <2>1. /\ Goto(t, "loaded") /\ UNCHANGED <<code, engine, region, size, stock, text, claimed>>
      BY <1>5 DEF RawOk
    <2>2. pc'[t] = "loaded"
      BY <2>1 DEF Goto, IInv, TypeOK
    <2>3. Contains(region[t], text[t])' <=> Contains(region[t], text[t])
      BY <2>1 DEF Contains
    <2>4. LoadOK(t)'
      BY <1>1, <1>5, <2>1, <2>2, <2>3 DEF LoadOK
    <2>5. region[t] \notin pending
      BY <1>1, NotPending
    <2> QED BY <1>1, <1>5, <2>1, <2>4, <2>5, QuietInv
  <1> QED BY <1>1, <1>4, <1>5

\* take_pending by base: the load gets its own region back, if it is still there,
\* and unmaps it.
LEMMA TakePendingInv ==
  ASSUME IInv, NEW t \in Threads, TakePending(t)
  PROVE  IInv'
  <1>1. pc[t] \in {"failed", "loaded", "empty"} /\ UNCHANGED <<owned, handle>>
    BY DEF TakePending
  <1>2. LoadOK(t) /\ region[t] \in Regions /\ stock[t] = FALSE /\ engine[t] \in Engines
    BY <1>1 DEF IInv, LoadInv, LoadOK, TypeOK
  <1>3. PICK mine : mine = {r \in pending : r.base = region[t].base}
    OBVIOUS
  <1>4. /\ pending' = pending \ mine
        /\ prot' = Munmap(prot, UNION {PagesOf(r) : r \in mine})
    BY <1>3 DEF TakePending
  <1>5. \A r : r \in mine <=> r \in pending /\ r = region[t]
    BY <1>1, <1>3, SameBase
  <1>6. LeaveLoad(t)
    BY <1>1 DEF TakePending, Return
  <1>7. \/ code' = code
        \/ \E c \in Codes, x \in {text[t], None} :
             /\ code[c] = None
             /\ code' = [code EXCEPT ![c] = [engine |-> engine[t], text |-> x, mapping |-> None]]
             /\ x = text[t] => pc[t] = "loaded" \/ x = None
    BY <1>1, <1>3 DEF TakePending, Return
  <1>8. PICK M, mem, D, ps : /\ M = Maps /\ mem = prot /\ ps = UNION {PagesOf(r) : r \in mine}
                             /\ D = {<<"pending", None, r>> : r \in mine}
    OBVIOUS
  <1>9. /\ MapsOK(M \ D, Munmap(mem, ps))
        /\ \A h \in M \ D : \A p \in PagesOf(h[3]) : Munmap(mem, ps)[p] = mem[p]
    <2>1. \A h : h \in D <=> \E r \in mine : h = <<"pending", None, r>>
      BY <1>8
    <2>2. D \subseteq M
      BY <1>5, <1>8, <2>1, InMaps
    <2>3. \A p : p \in ps <=> \E r \in mine : p \in PagesOf(r)
      BY <1>8
    <2>4. \A r : <<"pending", None, r>>[3] = r
      OBVIOUS
    <2>5. Covers(D, ps)
      BY <2>1, <2>3, <2>4 DEF Covers
    <2>6. MapsOK(M, mem)
      BY <1>8 DEF IInv
    <2> QED BY <2>2, <2>5, <2>6, DropMaps
  <1>10. /\ pc'[t] = "idle"
         /\ \A s \in Threads \ {t} : /\ pc'[s] = pc[s] /\ region'[s] = region[s]
         /\ stock' = stock /\ claimed' = claimed
    BY <1>2, <1>6 DEF LeaveLoad, IInv, TypeOK
  <1>11. \A c \in Codes : code[c] # None => code'[c] = code[c]
    BY <1>7 DEF IInv, TypeOK
  <1>12. \A c \in Codes : code[c] = None => code'[c] = None \/ code'[c].mapping = None
    BY <1>7 DEF IInv, TypeOK
  <1>13. MapsOK(Maps, prot)'
    <2>1. \A h : h \in D <=> \E r \in mine : h = <<"pending", None, r>>
      BY <1>8
    <2>2. \A s \in Threads : stock[s] => region'[s] = region[s]
      BY <1>2, <1>10
    <2>3. \A c \in Codes : (code'[c] # None /\ code'[c].mapping # None) <=>
                           (code[c] # None /\ code[c].mapping # None)
      BY <1>11, <1>12
    <2>4. \A h : h \in Maps' <=> h \in Maps /\ h \notin D
      BY <1>1, <1>4, <1>10, <1>11, <2>1, <2>2, <2>3, InMaps, InMapsNext
    <2>5. Maps' = M \ D
      BY <1>8, <2>4
    <2> QED BY <1>4, <1>8, <1>9, <2>5
  <1>14. StockSame(t)
    <2>1. PICK h : h = <<"stock", t, region[t]>>
      OBVIOUS
    <2>2. \A g \in Maps : g \notin D => \A p \in PagesOf(g[3]) : prot'[p] = prot[p]
      BY <1>4, <1>8, <1>9
    <2>3. \A s \in Threads : stock[s] =>
            <<"stock", s, region[s]>> \in Maps /\ <<"stock", s, region[s]>> \notin D
      BY <1>8, InMaps
    <2>4. \A c \in Codes : code[c] # None /\ code[c].mapping # None =>
            <<"code", c, code[c].mapping>> \in Maps /\ <<"code", c, code[c].mapping>> \notin D
      BY <1>8, InMaps
    <2>5. \A s \in Threads \ {t} : stock[s] => \A p \in PagesOf(region[s]) : prot'[p] = prot[p]
      <3>1. \A s : <<"stock", s, region[s]>>[3] = region[s]
        OBVIOUS
      <3> QED BY <2>2, <2>3, <3>1
    <2>6. \A c \in Codes : code[c] # None /\ code[c].mapping # None =>
            \A p \in PagesOf(code[c].mapping) : prot'[p] = prot[p]
      <3>1. \A c : <<"code", c, code[c].mapping>>[3] = code[c].mapping
        OBVIOUS
      <3> QED BY <2>2, <2>4, <3>1
    <2> QED BY <2>5, <2>6 DEF StockSame
  <1>15. \/ code' = code
         \/ \E c \in Codes, k \in Components :
              code[c] = None /\ code' = [code EXCEPT ![c] = k] /\ CodeOK(k)'
    <2> SUFFICES ASSUME code' # code
                 PROVE  \E c \in Codes, k \in Components :
                          code[c] = None /\ code' = [code EXCEPT ![c] = k] /\ CodeOK(k)'
      OBVIOUS
    <2>1. PICK c \in Codes, x \in {text[t], None} :
             /\ code[c] = None
             /\ code' = [code EXCEPT ![c] = [engine |-> engine[t], text |-> x, mapping |-> None]]
             /\ x = text[t] => pc[t] = "loaded" \/ x = None
      BY <1>7
    <2>2. PICK k : k = [engine |-> engine[t], text |-> x, mapping |-> None]
      OBVIOUS
    <2>3. k.engine = engine[t] /\ k.text = x /\ k.mapping = None /\ k \in Components
      BY <1>2, <2>1, <2>2 DEF Components, IInv, TypeOK
    <2>4. CodeOK(k)'
      <3>1. CASE x = None
        BY <2>3, <3>1 DEF CodeOK
      <3>2. CASE x # None
        <4>1. x = text[t] /\ pc[t] = "loaded"
          BY <2>1, <3>2
        <4>2. region[t] \in owned[engine[t]] /\ Contains(region[t], x)
          BY <1>2, <4>1 DEF LoadOK
        <4>3. Owns(k.engine, k.text)'
          BY <1>1, <2>3, <4>2 DEF Owns
        <4> QED BY <2>3, <4>3 DEF CodeOK
      <3> QED BY <3>1, <3>2
    <2> QED BY <2>1, <2>2, <2>3, <2>4
  <1>16. prot' \in [Pages -> {"free", "jit", "rw", "rx"}]
    BY <1>4, MemoryType DEF IInv, TypeOK
  <1>17. /\ pending' \subseteq pending /\ region[t] \notin pending'
         /\ \A r \in pending : r # region[t] => r \in pending'
    BY <1>4, <1>5
  <1> QED BY <1>1, <1>6, <1>13, <1>14, <1>15, <1>16, <1>17, LeaveInv

\* A step that changes nothing.
LEMMA StutterInv ==
  ASSUME IInv, UNCHANGED vars
  PROVE  IInv'
  <1> USE DEF vars, threadVars
  <1>1. TypeOK'
    BY DEF IInv, TypeOK
  <1>2. Maps' = Maps
    BY DEF Maps, Held, StockHeld
  <1>3. MapsOK(Maps, prot)'
    BY <1>2 DEF IInv
  <1>4. LoadInv'
    BY DEF IInv, LoadInv, LoadOK, Contains
  <1>5. DistinctInv' /\ PendingInv' /\ EngineInv'
    BY DEF IInv, DistinctInv, PendingInv, EngineInv, Referenced
  <1>6. CodeInv'
    BY DEF IInv, CodeInv, CodeOK, Owns, Contains
  <1> QED BY <1>1, <1>3, <1>4, <1>5, <1>6 DEF IInv

\* The mappings stay disjoint and each keeps exactly one holder, whatever the
\* loads, the engines and the components do.
THEOREM Invariance == Spec => []IInv
  <1>1. Init => IInv
    BY InitInv
  <1>2. IInv /\ [Next]_vars => IInv'
    <2> SUFFICES ASSUME IInv, [Next]_vars PROVE IInv'
      OBVIOUS
    <2>1. ASSUME NEW e \in Engines, EngineNew(e) PROVE IInv'
      BY <2>1, EngineNewInv
    <2>2. ASSUME NEW e \in Engines, EngineFree(e) PROVE IInv'
      BY <2>2, EngineFreeInv
    <2>3. ASSUME NEW c \in Codes, CodeFree(c) PROVE IInv'
      BY <2>3, CodeFreeInv
    <2>4. ASSUME NEW t \in Threads, NEW e \in Engines, NEW n \in Sizes,
                 Map(t, e, n) \/ StockMap(t, e, n)
          PROVE IInv'
      BY <2>4, MapInv
    <2>5. ASSUME NEW t \in Threads, Push(t) PROVE IInv'
      BY <2>5, PushInv
    <2>6. ASSUME NEW t \in Threads, RawRefuses(t) PROVE IInv'
      BY <2>6, RawRefusesInv
    <2>7. ASSUME NEW t \in Threads, RawEmpty(t) PROVE IInv'
      BY <2>7, RawEmptyInv
    <2>8. ASSUME NEW t \in Threads, Publish(t) PROVE IInv'
      BY <2>8, PublishInv
    <2>9. ASSUME NEW t \in Threads, Own(t) PROVE IInv'
      BY <2>9, OwnInv
    <2>10. ASSUME NEW t \in Threads, RawFails(t) PROVE IInv'
      BY <2>10, RawFailsInv
    <2>11. ASSUME NEW t \in Threads, RawOk(t) PROVE IInv'
      BY <2>11, RawOkInv
    <2>12. ASSUME NEW t \in Threads, TakePending(t) PROVE IInv'
      BY <2>12, TakePendingInv
    <2>13. CASE UNCHANGED vars
      BY <2>13, StutterInv
    <2> QED BY <2>1, <2>2, <2>3, <2>4, <2>5, <2>6, <2>7, <2>8, <2>9, <2>10, <2>11, <2>12, <2>13 DEF Next
  <1> QED BY <1>1, <1>2, PTL DEF Spec

-----------------------------------------------------------------------------
(* The properties.                                                         *)

\* Every variable keeps its type and every region is whole pages.
THEOREM TypeCorrect == Spec => []TypeOK
  <1>1. IInv => TypeOK
    BY DEF IInv
  <1> QED BY <1>1, Invariance, PTL

\* publish_executable, unpublish_executable and the drops of hooks and mappings
\* never take the execute permission from a live component's text.
THEOREM ExecutableWhileAlive == Spec => []CodeStaysExecutable
  <1>1. IInv => CodeStaysExecutable
    <2> SUFFICES ASSUME IInv, NEW c \in Codes, code[c] # None, code[c].text # None,
                        NEW p \in PagesOf(code[c].text)
                 PROVE  prot[p] = IF code[c].mapping = None THEN "jit" ELSE "rx"
      BY DEF CodeStaysExecutable
    <2>1. PICK k \in Components : k = code[c]
      BY DEF IInv, TypeOK
    <2>2. CodeOK(k) /\ k.text \in Ranges /\ k.engine \in Engines
      BY <2>1 DEF IInv, CodeInv, Components
    <2>3. CASE k.mapping # None
      BY <2>1, <2>2, <2>3 DEF CodeOK
    <2>4. CASE k.mapping = None
      <3>1. PICK r \in owned[k.engine] : Contains(r, k.text)
        BY <2>1, <2>2, <2>4 DEF CodeOK, Owns
      <3>2. r \in Regions
        BY <2>2, <3>1 DEF IInv, TypeOK
      <3>3. p \in PagesOf(r)
        BY <2>1, <2>2, <3>1, <3>2, RangeFacts, ContainsPages
      <3>4. PICK h \in Maps : h = <<"engine", k.engine, r>>
        BY <2>2, <3>1, InMaps
      <3>5. h[3] = r /\ ModesOf(h) = {"jit"}
        BY <3>4 DEF ModesOf, JitTags
      <3>6. p \in Pages /\ prot[p] \in ModesOf(h)
        BY <3>3, <3>5 DEF IInv, MapsOK
      <3> QED BY <2>1, <2>4, <3>5, <3>6
    <2> QED BY <2>3, <2>4
  <1> QED BY <1>1, Invariance, PTL

\* Every page of a MAP_JIT region has exactly one holder, a page that is not
\* mapped so has none, and PENDING holds no region of a load that is over.
THEOREM HeldExactlyOnce == Spec => []RegionHeldOnce
  <1>1. IInv => RegionHeldOnce
    <2> SUFFICES ASSUME IInv PROVE RegionHeldOnce
      OBVIOUS
    <2>1. NoPendingAtRest
      BY DEF NoPendingAtRest, IInv, PendingInv
    <2>2. \A h : h \in Held <=> h \in Maps /\ h[1] \in JitTags
      <3>1. \A h \in Held : h[1] \in JitTags
        BY DEF Held, JitTags
      <3>2. \A h \in StockHeld : h[1] \notin JitTags
        BY DEF StockHeld, JitTags
      <3> QED BY <3>1, <3>2 DEF Maps
    <2>3. \A p \in Pages : Cardinality(Holders(p)) = IF prot[p] = "jit" THEN 1 ELSE 0
      <3> SUFFICES ASSUME NEW p \in Pages
                   PROVE  Cardinality(Holders(p)) = IF prot[p] = "jit" THEN 1 ELSE 0
        OBVIOUS
      <3>1. CASE prot[p] = "jit"
        <4>1. PICK h \in Maps : p \in PagesOf(h[3])
          BY <3>1 DEF IInv, MapsOK
        <4>2. h \in Held
          <5>1. prot[p] \in ModesOf(h)
            BY <4>1 DEF IInv, MapsOK
          <5>2. h[1] \in JitTags
            BY <3>1, <5>1 DEF ModesOf
          <5> QED BY <2>2, <5>2
        <4>3. \A g \in Held : p \in PagesOf(g[3]) => g = h
          BY <2>2, <4>1, SameMap DEF IInv
        <4>4. Holders(p) = {h}
          BY <4>1, <4>2, <4>3 DEF Holders
        <4> QED BY <3>1, <4>4, FS_Singleton
      <3>2. CASE prot[p] # "jit"
        <4>1. \A h \in Held : p \notin PagesOf(h[3])
          <5> SUFFICES ASSUME NEW h \in Held, p \in PagesOf(h[3]) PROVE FALSE
            OBVIOUS
          <5>1. h \in Maps /\ ModesOf(h) = {"jit"}
            BY <2>2 DEF ModesOf
          <5> QED BY <3>2, <5>1 DEF IInv, MapsOK
        <4>2. Holders(p) = {}
          BY <4>1 DEF Holders
        <4> QED BY <3>2, <4>2, FS_EmptySet
      <3> QED BY <3>1, <3>2
    <2> QED BY <2>1, <2>3 DEF RegionHeldOnce
  <1> QED BY <1>1, Invariance, PTL

\* Once every engine is unreferenced and no load is under way nothing is mapped:
\* the drop of each hook and of each component freed all of it.
THEOREM NothingLeaks == Spec => []EnginesFreeTheirMemory
  <1>1. IInv => EnginesFreeTheirMemory
    <2> SUFFICES ASSUME IInv, \A e \in Engines : ~Referenced(e, handle, code),
                        \A t \in Threads : pc[t] = "idle", NEW p \in Pages
                 PROVE  prot[p] = "free"
      BY DEF EnginesFreeTheirMemory
    <2>1. \A e \in Engines : owned[e] = {}
      BY DEF IInv, EngineInv
    <2>2. \A t \in Threads : ~stock[t]
      BY DEF IInv, LoadInv, LoadOK
    <2>3. pending = {}
      BY DEF IInv, PendingInv
    <2>4. \A c \in Codes : code[c] = None
      <3> SUFFICES ASSUME NEW c \in Codes, code[c] # None PROVE FALSE
        OBVIOUS
      <3>1. code[c].engine \in Engines
        BY DEF IInv, TypeOK, Components
      <3> QED BY <3>1 DEF Referenced
    <2>5. Maps = {}
      <3>1. \A h : h \notin Maps
        BY <2>1, <2>2, <2>3, <2>4, InMaps
      <3> QED BY <3>1
    <2> QED BY <2>5 DEF IInv, MapsOK
  <1> QED BY <1>1, Invariance, PTL
=============================================================================
