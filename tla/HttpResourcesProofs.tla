------------------------ MODULE HttpResourcesProofs ------------------------
(***************************************************************************)
(* Proofs about HttpResources, for every set of names, values, lines and   *)
(* timeouts and any number of reps in each table.                          *)
(***************************************************************************)
EXTENDS HttpResources, FiniteSetTheorems, TLAPS

-----------------------------------------------------------------------------
(* The inductive invariant.                                                *)

\* A FieldsData.  (What its entries are is left open: no proof depends on it.)
IsFields(data) == \E es : \E imm \in BOOLEAN : data = FieldsData(es, imm)

\* What the entries of the tables look like.
TablesOK ==
  /\ \A f \in DOMAIN fields : f \in Reps /\ IsFields(fields[f])
  /\ \A o \in DOMAIN options :
       o \in Reps /\ options[o] \in [timeouts : Timeouts, immutable : BOOLEAN]
  /\ \A q \in DOMAIN requests :
       q \in Reps /\ requests[q] \in [headers : Reps, options : Reps \cup {None},
                                      line : Lines, stash : BOOLEAN]
  /\ \A p \in DOMAIN responses :
       p \in Reps /\ responses[p] \in [headers : Reps, status : StatusCodes,
                                       stash : BOOLEAN, trailers : Reps \cup {None}]
  /\ next \in [Kinds -> Nat \ {0}]
  /\ owned \in [Kinds -> [Reps -> Nat]]

\* An entry of table k that is there, or was dropped by the guest.
Valid(k, table, rep) == rep \in DOMAIN table \/ <<k, rep>> \in dropped

\* A rep that table k has allocated.
Used(k, rep) == rep < next[k]

\* The handles on table k: on allocated, valid reps, and at most one on an entry
\* that may still change.
HandlesOK(k, table) ==
  /\ \A r \in DOMAIN table : Used(k, r)
  /\ \A r \in Reps : Owns(k, r) => Used(k, r) /\ Valid(k, table, r)
  /\ \A r \in DOMAIN table : ~table[r].immutable => owned[k][r] <= 1

\* What a request or a response may rely on of the rep it refers to: nobody has
\* a handle on it that could change it.
Kept(k, table, rep) ==
  /\ Used(k, rep) /\ Valid(k, table, rep)
  /\ rep \in DOMAIN table /\ ~table[rep].immutable => ~Owns(k, rep)

HeadersKept(f, es) ==
  Kept("fields", fields, f) /\ (f \in DOMAIN fields => fields[f].entries = es)

OptionsKept(o, ts) ==
  o # None => Kept("options", options, o) /\ (o \in DOMAIN options => options[o].timeouts = ts)

TrailersKept(t) ==
  t # None => /\ Used("fields", t) /\ Valid("fields", fields, t)
              /\ t \in DOMAIN fields => fields[t].immutable

RequestOK(q) ==
  /\ Used("requests", q)
  /\ HeadersKept(requests[q].headers, given.requests[q].headers)
  /\ OptionsKept(requests[q].options, given.requests[q].timeouts)
  /\ requests[q].stash => Owns("requests", q) \/ q \in rejected

ResponseOK(p) ==
  /\ Used("responses", p)
  /\ HeadersKept(responses[p].headers, given.responses[p])
  /\ TrailersKept(responses[p].trailers)
  /\ responses[p].stash => Owns("responses", p)

RequestsOK == \A q \in DOMAIN requests : RequestOK(q)
ResponsesOK == \A p \in DOMAIN responses : ResponseOK(p)

\* A request or a response has one handle at most, and its entry is there.
OneHandle(k, table) ==
  \A r \in Reps : owned[k][r] <= 1 /\ (Owns(k, r) => Used(k, r) /\ r \in DOMAIN table)

\* The history of what parents were given, of their reps only.
GivenOK ==
  /\ given = [requests |-> given.requests, responses |-> given.responses]
  /\ DOMAIN requests \subseteq DOMAIN given.requests
  /\ DOMAIN responses \subseteq DOMAIN given.responses

IInv ==
  /\ TablesOK /\ GivenOK
  /\ HandlesOK("fields", fields) /\ HandlesOK("options", options)
  /\ OneHandle("requests", requests) /\ OneHandle("responses", responses)
  /\ RequestsOK /\ ResponsesOK
-----------------------------------------------------------------------------
(* Tables and handles.                                                     *)

\* The allocator of a table that is not full.
LEMMA NextFacts ==
  ASSUME TablesOK, NEW k \in Kinds
  PROVE  /\ next[k] \in Nat /\ (CanInsert(k) => next[k] \in Reps)
         /\ Allocated(k) \in [Kinds -> Nat \ {0}] /\ Allocated(k)[k] = next[k] + 1
         /\ \A j \in Kinds : j # k => Allocated(k)[j] = next[j]
  <1>1. next \in [Kinds -> Nat \ {0}]
    BY DEF TablesOK
  <1>2. CanInsert(k) => next[k] \in 1 .. MaxRep[k]
    BY <1>1, ResourcesAssumption DEF CanInsert
  <1>3. CanInsert(k) => next[k] \in Reps
    BY <1>2 DEF Reps
  <1>4. /\ Allocated(k) \in [Kinds -> Nat \ {0}] /\ Allocated(k)[k] = next[k] + 1
        /\ \A j \in Kinds : j # k => Allocated(k)[j] = next[j]
    BY <1>1 DEF Allocated
  <1> QED BY <1>1, <1>3, <1>4

\* Reps are positive numbers.
LEMMA RepsAreNumbers == /\ \A r \in Reps : r \in Nat /\ r # None
                        /\ "fields" \in Kinds /\ "requests" \in Kinds
                        /\ "responses" \in Kinds /\ "options" \in Kinds
  BY ResourcesAssumption DEF Reps, None, Kinds

-----------------------------------------------------------------------------
(* What a step may do to what parents rely on.                             *)

\* fields: new entries are on new reps, an entry goes only by its drop, and only
\* the one handle on an entry that is not flagged changes it.
FieldsStep ==
  /\ next["fields"] <= next'["fields"] /\ dropped \subseteq dropped'
  /\ \A f \in DOMAIN fields' : f \in DOMAIN fields \/ ~Used("fields", f)
  /\ \A f \in DOMAIN fields : f \in DOMAIN fields' \/ <<"fields", f>> \in dropped'
  /\ \A f \in DOMAIN fields : f \in DOMAIN fields' =>
       /\ fields[f].immutable => fields'[f].immutable
       /\ \/ fields'[f].entries = fields[f].entries
          \/ ~fields[f].immutable /\ Owns("fields", f)
       /\ ~fields'[f].immutable => owned'["fields"][f] <= owned["fields"][f]

\* request-options: the same.
OptionsStep ==
  /\ next["options"] <= next'["options"] /\ dropped \subseteq dropped'
  /\ \A o \in DOMAIN options' : o \in DOMAIN options \/ ~Used("options", o)
  /\ \A o \in DOMAIN options : o \in DOMAIN options' \/ <<"options", o>> \in dropped'
  /\ \A o \in DOMAIN options : o \in DOMAIN options' =>
       /\ options[o].immutable => options'[o].immutable
       /\ \/ options'[o].timeouts = options[o].timeouts
          \/ ~options[o].immutable /\ Owns("options", o)
       /\ ~options'[o].immutable => owned'["options"][o] <= owned["options"][o]

\* requests: an old one keeps its headers and options, and its streams only with
\* its handle, or when its head was refused; a new one is as it should be.
SameRequest(q) ==
  /\ q \in DOMAIN requests
  /\ requests'[q].headers = requests[q].headers /\ requests'[q].options = requests[q].options
  /\ given'.requests[q] = given.requests[q]
  /\ requests'[q].stash => /\ requests[q].stash
                           /\ owned["requests"][q] <= owned'["requests"][q] \/ q \in rejected'

RequestsStep ==
  /\ next["requests"] <= next'["requests"] /\ rejected \subseteq rejected'
  /\ \A q \in DOMAIN requests' : SameRequest(q) \/ RequestOK(q)'

\* responses: the same.
SameResponse(p) ==
  /\ p \in DOMAIN responses
  /\ responses'[p].headers = responses[p].headers /\ responses'[p].trailers = responses[p].trailers
  /\ given'.responses[p] = given.responses[p]
  /\ responses'[p].stash => /\ responses[p].stash
                            /\ owned["responses"][p] <= owned'["responses"][p]

ResponsesStep ==
  /\ next["responses"] <= next'["responses"]
  /\ \A p \in DOMAIN responses' : SameResponse(p) \/ ResponseOK(p)'

\* Headers and trailers stay as they are.
LEMMA FieldsStay ==
  ASSUME IInv, TablesOK', FieldsStep, NEW f \in Reps
  PROVE  /\ \A es : HeadersKept(f, es) => HeadersKept(f, es)'
         /\ TrailersKept(f) => TrailersKept(f)'
  <1>1. /\ next["fields"] \in Nat /\ next'["fields"] \in Nat /\ f \in Nat
        /\ owned["fields"][f] \in Nat /\ owned'["fields"][f] \in Nat
    BY RepsAreNumbers DEF IInv, TablesOK
  <1>2. ASSUME Used("fields", f), Valid("fields", fields, f)
        PROVE  Used("fields", f)' /\ Valid("fields", fields, f)'
    BY <1>1, <1>2 DEF Used, Valid, FieldsStep
  <1>3. ASSUME Used("fields", f), f \in DOMAIN fields' PROVE f \in DOMAIN fields
    BY <1>3 DEF FieldsStep
  <1>4. ASSUME NEW es, HeadersKept(f, es) PROVE HeadersKept(f, es)'
    <2>1. Used("fields", f) /\ Valid("fields", fields, f)
      BY <1>4 DEF HeadersKept, Kept
    <2>2. CASE f \in DOMAIN fields'
      <3>1. f \in DOMAIN fields
        BY <1>3, <2>1, <2>2
      <3>2. fields[f].entries = es /\ (~fields[f].immutable => ~Owns("fields", f))
        BY <1>4, <3>1 DEF HeadersKept, Kept
      <3>3. fields'[f].entries = es
        BY <2>2, <3>1, <3>2 DEF FieldsStep
      <3>4. ~fields'[f].immutable => ~Owns("fields", f)'
        BY <1>1, <2>2, <3>1, <3>2 DEF FieldsStep, Owns
      <3> QED BY <1>2, <2>1, <3>3, <3>4 DEF HeadersKept, Kept
    <2>3. CASE f \notin DOMAIN fields'
      BY <1>2, <2>1, <2>3 DEF HeadersKept, Kept
    <2> QED BY <2>2, <2>3
  <1>5. ASSUME TrailersKept(f) PROVE TrailersKept(f)'
    <2>1. f # None
      BY RepsAreNumbers
    <2>2. Used("fields", f) /\ Valid("fields", fields, f) /\ (f \in DOMAIN fields => fields[f].immutable)
      BY <1>5, <2>1 DEF TrailersKept
    <2>3. f \in DOMAIN fields' => fields'[f].immutable
      BY <1>3, <2>2 DEF FieldsStep
    <2> QED BY <1>2, <2>2, <2>3 DEF TrailersKept
  <1> QED BY <1>4, <1>5

\* So do options.
LEMMA OptionsStay ==
  ASSUME IInv, TablesOK', OptionsStep, NEW o \in Reps, NEW ts, OptionsKept(o, ts)
  PROVE  OptionsKept(o, ts)'
  <1>1. /\ next["options"] \in Nat /\ next'["options"] \in Nat /\ o \in Nat /\ o # None
        /\ owned["options"][o] \in Nat /\ owned'["options"][o] \in Nat
    BY RepsAreNumbers DEF IInv, TablesOK
  <1>2. Used("options", o) /\ Valid("options", options, o)
    BY <1>1 DEF OptionsKept, Kept
  <1>3. Used("options", o)' /\ Valid("options", options, o)'
    BY <1>1, <1>2 DEF Used, Valid, OptionsStep
  <1>4. CASE o \in DOMAIN options'
    <2>1. o \in DOMAIN options
      BY <1>2, <1>4 DEF OptionsStep
    <2>2. options[o].timeouts = ts /\ (~options[o].immutable => ~Owns("options", o))
      BY <1>1, <2>1 DEF OptionsKept, Kept
    <2>3. options'[o].timeouts = ts
      BY <1>4, <2>1, <2>2 DEF OptionsStep
    <2>4. ~options'[o].immutable => ~Owns("options", o)'
      BY <1>1, <1>4, <2>1, <2>2 DEF OptionsStep, Owns
    <2> QED BY <1>3, <2>3, <2>4 DEF OptionsKept, Kept
  <1>5. CASE o \notin DOMAIN options'
    BY <1>3, <1>5 DEF OptionsKept, Kept
  <1> QED BY <1>4, <1>5

\* A step that respects the tables keeps the promise to every parent.
LEMMA ParentsStay ==
  ASSUME IInv, TablesOK', GivenOK',
         HandlesOK("fields", fields)', HandlesOK("options", options)',
         OneHandle("requests", requests)', OneHandle("responses", responses)',
         FieldsStep, OptionsStep, RequestsStep, ResponsesStep
  PROVE  IInv'
  <1>1. RequestsOK'
    <2> SUFFICES ASSUME NEW q \in DOMAIN requests', SameRequest(q) PROVE RequestOK(q)'
      BY DEF RequestsOK, RequestsStep
    <2>1. /\ q \in DOMAIN requests /\ RequestOK(q) /\ q \in Nat /\ requests[q].headers \in Reps
          /\ q \in Reps /\ requests[q].options \in Reps \cup {None}
      BY RepsAreNumbers DEF IInv, RequestsOK, SameRequest, TablesOK
    <2>2. PICK f, o, g : f = requests[q].headers /\ o = requests[q].options /\ g = given.requests[q]
      OBVIOUS
    <2>3. f = requests'[q].headers /\ o = requests'[q].options /\ g = given'.requests[q]
      BY <2>2 DEF SameRequest
    <2>4. HeadersKept(f, g.headers)'
      BY <2>1, <2>2, FieldsStay DEF RequestOK
    <2>5. OptionsKept(o, g.timeouts)'
      <3>1. CASE o = None
        BY <3>1 DEF OptionsKept
      <3>2. CASE o # None
        <4>1. PICK ts : ts = g.timeouts
          OBVIOUS
        <4>2. OptionsKept(o, ts)
          BY <2>1, <2>2, <4>1 DEF RequestOK
        <4>3. OptionsKept(o, ts)'
          BY <2>1, <2>2, <3>2, <4>2, OptionsStay
        <4> QED BY <4>1, <4>3
      <3> QED BY <3>1, <3>2
    <2>6. Used("requests", q)'
      <3>1. next["requests"] \in Nat /\ next'["requests"] \in Nat
        BY RepsAreNumbers DEF IInv, TablesOK
      <3> QED BY <2>1, <3>1 DEF RequestOK, Used, RequestsStep
    <2>7. requests'[q].stash => Owns("requests", q)' \/ q \in rejected'
      <3>1. owned["requests"][q] \in Nat /\ owned'["requests"][q] \in Nat
        BY <2>1, RepsAreNumbers DEF IInv, TablesOK
      <3> QED BY <2>1, <3>1 DEF RequestOK, SameRequest, RequestsStep, Owns
    <2> QED BY <2>3, <2>4, <2>5, <2>6, <2>7 DEF RequestOK
  <1>2. ResponsesOK'
    <2> SUFFICES ASSUME NEW p \in DOMAIN responses', SameResponse(p) PROVE ResponseOK(p)'
      BY DEF ResponsesOK, ResponsesStep
    <2>1. /\ p \in DOMAIN responses /\ ResponseOK(p) /\ p \in Nat /\ responses[p].headers \in Reps
          /\ p \in Reps /\ responses[p].trailers \in Reps \cup {None}
      BY RepsAreNumbers DEF IInv, ResponsesOK, SameResponse, TablesOK
    <2>2. PICK f, t, g : f = responses[p].headers /\ t = responses[p].trailers /\ g = given.responses[p]
      OBVIOUS
    <2>3. f = responses'[p].headers /\ t = responses'[p].trailers /\ g = given'.responses[p]
      BY <2>2 DEF SameResponse
    <2>4. HeadersKept(f, g)'
      BY <2>1, <2>2, FieldsStay DEF ResponseOK
    <2>5. TrailersKept(t)'
      <3>1. CASE t = None
        BY <3>1 DEF TrailersKept
      <3>2. CASE t # None
        BY <2>1, <2>2, <3>2, FieldsStay DEF ResponseOK
      <3> QED BY <3>1, <3>2
    <2>6. Used("responses", p)'
      <3>1. next["responses"] \in Nat /\ next'["responses"] \in Nat
        BY RepsAreNumbers DEF IInv, TablesOK
      <3> QED BY <2>1, <3>1 DEF ResponseOK, Used, ResponsesStep
    <2>7. responses'[p].stash => Owns("responses", p)'
      <3>1. owned["responses"][p] \in Nat /\ owned'["responses"][p] \in Nat
        BY <2>1, RepsAreNumbers DEF IInv, TablesOK
      <3> QED BY <2>1, <3>1 DEF ResponseOK, SameResponse, Owns
    <2> QED BY <2>3, <2>4, <2>5, <2>6, <2>7 DEF ResponseOK
  <1> QED BY <1>1, <1>2 DEF IInv

\* A step that leaves the fields table and its handles alone.
LEMMA FieldsFrame ==
  ASSUME IInv, fields' = fields, dropped \subseteq dropped', next'["fields"] = next["fields"],
         owned'["fields"] = owned["fields"]
  PROVE  HandlesOK("fields", fields)' /\ FieldsStep
  <1>1. HandlesOK("fields", fields)
    BY DEF IInv
  <1>2. HandlesOK("fields", fields)'
    BY <1>1 DEF HandlesOK, Owns, Used, Valid
  <1>3. next["fields"] \in Nat /\ owned["fields"] \in [Reps -> Nat] /\ DOMAIN fields \subseteq Reps
    BY RepsAreNumbers DEF IInv, TablesOK
  <1>4. FieldsStep
    BY <1>3 DEF FieldsStep
  <1> QED BY <1>2, <1>4

\* The options table.
LEMMA OptionsFrame ==
  ASSUME IInv, options' = options, dropped \subseteq dropped', next'["options"] = next["options"],
         owned'["options"] = owned["options"]
  PROVE  HandlesOK("options", options)' /\ OptionsStep
  <1>1. HandlesOK("options", options)
    BY DEF IInv
  <1>2. HandlesOK("options", options)'
    BY <1>1 DEF HandlesOK, Owns, Used, Valid
  <1>3. next["options"] \in Nat /\ owned["options"] \in [Reps -> Nat] /\ DOMAIN options \subseteq Reps
    BY RepsAreNumbers DEF IInv, TablesOK
  <1>4. OptionsStep
    BY <1>3 DEF OptionsStep
  <1> QED BY <1>2, <1>4

\* The requests table.
LEMMA RequestsFrame ==
  ASSUME IInv, requests' = requests, given'.requests = given.requests, rejected' = rejected,
         next'["requests"] = next["requests"], owned'["requests"] = owned["requests"]
  PROVE  OneHandle("requests", requests)' /\ RequestsStep
  <1>1. OneHandle("requests", requests)'
    BY DEF IInv, OneHandle, Owns, Used
  <1>2. next["requests"] \in Nat /\ owned["requests"] \in [Reps -> Nat] /\ DOMAIN requests \subseteq Reps
    BY RepsAreNumbers DEF IInv, TablesOK
  <1>3. RequestsStep
    BY <1>2 DEF RequestsStep, SameRequest
  <1> QED BY <1>1, <1>3

\* The responses table.
LEMMA ResponsesFrame ==
  ASSUME IInv, responses' = responses, given'.responses = given.responses,
         next'["responses"] = next["responses"], owned'["responses"] = owned["responses"]
  PROVE  OneHandle("responses", responses)' /\ ResponsesStep
  <1>1. OneHandle("responses", responses)'
    BY DEF IInv, OneHandle, Owns, Used
  <1>2. next["responses"] \in Nat /\ owned["responses"] \in [Reps -> Nat] /\ DOMAIN responses \subseteq Reps
    BY RepsAreNumbers DEF IInv, TablesOK
  <1>3. ResponsesStep
    BY <1>2 DEF ResponsesStep, SameResponse
  <1> QED BY <1>1, <1>3

\* The parts of a FieldsData.
LEMMA PartFacts ==
  ASSUME NEW es, NEW imm
  PROVE  FieldsData(es, imm).entries = es /\ FieldsData(es, imm).immutable = imm
  BY DEF FieldsData

\* The parts of one that is flagged.
LEMMA FlaggedParts ==
  ASSUME NEW es
  PROVE  FieldsData(es, TRUE).immutable /\ FieldsData(es, TRUE).entries = es
  BY DEF FieldsData

\* A fields entry is made of its parts.
LEMMA EntryFacts ==
  ASSUME NEW data, IsFields(data)
  PROVE  data.immutable \in BOOLEAN /\ data = FieldsData(data.entries, data.immutable)
  <1>1. PICK fs : \E imm \in BOOLEAN : data = FieldsData(fs, imm)
    BY DEF IsFields
  <1>2. PICK imm \in BOOLEAN : data = FieldsData(fs, imm)
    BY <1>1
  <1>3. data.entries = fs /\ data.immutable = imm
    BY <1>2, PartFacts
  <1> QED BY <1>2, <1>3

\* Flagging an entry keeps its contents.
LEMMA FlagFacts ==
  ASSUME NEW data, IsFields(data), NEW b, NEW new, new = [data EXCEPT !.immutable = b]
  PROVE  new = FieldsData(data.entries, b)
  <1>1. PICK fs : \E imm \in BOOLEAN : data = FieldsData(fs, imm)
    BY DEF IsFields
  <1>2. PICK imm \in BOOLEAN : data = FieldsData(fs, imm)
    BY <1>1
  <1>3. data.entries = fs
    BY <1>2, PartFacts
  <1>4. [FieldsData(fs, imm) EXCEPT !.immutable = b] = FieldsData(fs, b)
    BY DEF FieldsData
  <1> QED BY <1>2, <1>3, <1>4, Zenon

-----------------------------------------------------------------------------
(* The steps.                                                              *)

\* The tables start empty.
LEMMA InitInv == Init => IInv
  <1> SUFFICES ASSUME Init PROVE IInv
    OBVIOUS
  <1> USE DEF Init, EmptyTable
  <1>1. /\ DOMAIN fields = {} /\ DOMAIN requests = {} /\ DOMAIN responses = {} /\ DOMAIN options = {}
        /\ DOMAIN given.requests = {} /\ DOMAIN given.responses = {}
    OBVIOUS
  <1>2. \A k \in Kinds, r \in Reps : owned[k][r] = 0
    OBVIOUS
  <1>3. TablesOK
    BY <1>1 DEF TablesOK
  <1>4. GivenOK
    BY <1>1 DEF GivenOK
  <1>5. RequestsOK /\ ResponsesOK
    BY <1>1 DEF RequestsOK, ResponsesOK
  <1>6. HandlesOK("fields", fields) /\ HandlesOK("options", options)
    BY <1>1, <1>2 DEF HandlesOK, Owns, Kinds
  <1>7. OneHandle("requests", requests) /\ OneHandle("responses", responses)
    BY <1>1, <1>2 DEF OneHandle, Owns, Kinds
  <1> QED BY <1>3, <1>4, <1>5, <1>6, <1>7 DEF IInv

\* A new fields entry: constructor, from-list or clone.
LEMMA InsertFieldsInv ==
  ASSUME IInv, NEW data, IsFields(data), CanInsert("fields"),
         fields' = Insert(fields, "fields", data),
         next' = Allocated("fields"), owned' = Lower(owned, "fields", next["fields"]),
         UNCHANGED <<requests, responses, options, inbound, history>>
  PROVE  IInv'
  <1>0. PICK n \in Nat : n = next["fields"]
    BY NextFacts, RepsAreNumbers DEF IInv
  <1>1. /\ n \in Nat /\ n \in Reps /\ next' \in [Kinds -> Nat \ {0}] /\ next'["fields"] = n + 1
        /\ next'["options"] = next["options"] /\ next'["requests"] = next["requests"]
        /\ next'["responses"] = next["responses"]
    BY <1>0, NextFacts, RepsAreNumbers DEF IInv
  <1>2. /\ owned' \in [Kinds -> [Reps -> Nat]]
        /\ owned'["options"] = owned["options"] /\ owned'["requests"] = owned["requests"]
        /\ owned'["responses"] = owned["responses"]
        /\ \A r \in Reps : owned'["fields"][r] = IF r = n THEN owned["fields"][r] + 1 ELSE owned["fields"][r]
    BY <1>0, <1>1, RepsAreNumbers DEF IInv, TablesOK, Lower
  <1>3. /\ DOMAIN fields' = DOMAIN fields \cup {n} /\ fields'[n] = data
        /\ \A r \in DOMAIN fields : r # n => fields'[r] = fields[r]
    BY <1>0 DEF Insert, Put
  <1>4. /\ n \notin DOMAIN fields /\ owned["fields"] \in [Reps -> Nat] /\ owned["fields"][n] = 0
        /\ DOMAIN fields \subseteq Reps
    BY <1>0, <1>1, RepsAreNumbers DEF IInv, TablesOK, HandlesOK, Owns, Used
  <1>5. TablesOK'
    <2>1. \A f \in DOMAIN fields' :
            f \in Reps /\ IsFields(fields'[f])
      <3> SUFFICES ASSUME NEW f \in DOMAIN fields'
                   PROVE  f \in Reps /\ IsFields(fields'[f])
        OBVIOUS
      <3>1. CASE f = n
        BY <1>1, <1>3, <3>1
      <3>2. CASE f # n
        BY <1>3, <3>2 DEF IInv, TablesOK
      <3> QED BY <3>1, <3>2
    <2> QED BY <1>1, <1>2, <2>1 DEF IInv, TablesOK
  <1>6. GivenOK'
    BY DEF IInv, GivenOK, history
  <1>7. HandlesOK("fields", fields)'
    <2>1. /\ \A r \in DOMAIN fields : r \in Reps /\ r \in Nat /\ r < n
          /\ \A r \in Reps : owned["fields"][r] > 0 =>
               r < n /\ (r \in DOMAIN fields \/ <<"fields", r>> \in dropped)
          /\ \A r \in DOMAIN fields : ~fields[r].immutable => owned["fields"][r] <= 1
      BY <1>0, <1>4, RepsAreNumbers DEF IInv, HandlesOK, Used, Valid, Owns
    <2>2. \A r \in DOMAIN fields' : Used("fields", r)'
      BY <1>1, <1>3, <2>1 DEF Used
    <2>3. \A r \in Reps : Owns("fields", r)' => Used("fields", r)' /\ Valid("fields", fields, r)'
      <3> SUFFICES ASSUME NEW r \in Reps, owned'["fields"][r] > 0
                   PROVE  r < n + 1 /\ (r \in DOMAIN fields' \/ <<"fields", r>> \in dropped')
        BY <1>1 DEF Used, Valid, Owns
      <3>1. r \in Nat
        BY RepsAreNumbers
      <3>2. CASE r = n
        BY <1>3, <3>2
      <3>3. CASE r # n
        BY <1>2, <1>3, <2>1, <3>1, <3>3 DEF history
      <3> QED BY <3>2, <3>3
    <2>4. \A r \in DOMAIN fields' : ~fields'[r].immutable => owned'["fields"][r] <= 1
      <3> SUFFICES ASSUME NEW r \in DOMAIN fields', ~fields'[r].immutable PROVE owned'["fields"][r] <= 1
        OBVIOUS
      <3>1. CASE r = n
        BY <1>1, <1>2, <1>4, <3>1
      <3>2. CASE r # n
        BY <1>2, <1>3, <2>1, <3>2
      <3> QED BY <3>1, <3>2
    <2> QED BY <2>2, <2>3, <2>4 DEF HandlesOK
  <1>8. FieldsStep
    <2>1. \A f \in DOMAIN fields : f # n /\ fields'[f] = fields[f] /\ owned'["fields"][f] = owned["fields"][f]
      BY <1>2, <1>3, <1>4
    <2>2. \A f \in DOMAIN fields : owned["fields"][f] \in Nat
      BY <1>4
    <2>3. ~Used("fields", n) /\ next["fields"] <= next'["fields"] /\ dropped \subseteq dropped'
      BY <1>0, <1>1 DEF Used, history
    <2> QED BY <1>3, <2>1, <2>2, <2>3 DEF FieldsStep
  <1>9. HandlesOK("options", options)' /\ OptionsStep
    BY <1>1, <1>2, OptionsFrame DEF history
  <1>10. OneHandle("requests", requests)' /\ RequestsStep
    BY <1>1, <1>2, RequestsFrame DEF history
  <1>11. OneHandle("responses", responses)' /\ ResponsesStep
    BY <1>1, <1>2, ResponsesFrame DEF history
  <1> QED BY <1>5, <1>6, <1>7, <1>8, <1>9, <1>10, <1>11, ParentsStay

\* set, append and delete change an entry that is not flagged.
LEMMA MutateInv ==
  ASSUME IInv, NEW f \in Reps, NEW es, Mutate(f, es)
  PROVE  IInv'
  <1>0. UNCHANGED <<requests, responses, options, next, owned, inbound, given, sent, dropped, rejected>>
    BY DEF Mutate, history
  <1>1. /\ f \in DOMAIN fields /\ ~fields[f].immutable /\ Owns("fields", f)
        /\ DOMAIN fields' = DOMAIN fields /\ fields'[f] = FieldsData(es, fields[f].immutable)
        /\ \A r \in DOMAIN fields : r # f => fields'[r] = fields[r]
    <2>1. f \in DOMAIN fields /\ ~fields[f].immutable /\ Owns("fields", f)
      BY DEF Mutable, Mutate
    <2>2. /\ DOMAIN fields' = DOMAIN fields /\ fields'[f] = FieldsData(es, fields[f].immutable)
          /\ \A r \in DOMAIN fields : r # f => fields'[r] = fields[r]
      BY <2>1 DEF Mutate
    <2> QED BY <2>1, <2>2
  <1>2. /\ fields[f].immutable \in BOOLEAN /\ fields'[f].immutable = fields[f].immutable
        /\ IsFields(fields'[f])
    <2>1. IsFields(fields[f])
      BY <1>1 DEF IInv, TablesOK
    <2>2. fields[f].immutable \in BOOLEAN
      BY <2>1, EntryFacts
    <2>3. PICK imm \in BOOLEAN : imm = fields[f].immutable
      BY <2>2
    <2>4. fields'[f] = FieldsData(es, imm)
      BY <1>1, <2>3
    <2> QED BY <2>3, <2>4, PartFacts DEF IsFields
  <1>3. TablesOK'
    BY <1>0, <1>1, <1>2 DEF IInv, TablesOK
  <1>4. GivenOK'
    BY <1>0 DEF IInv, GivenOK
  <1>5. HandlesOK("fields", fields)'
    BY <1>0, <1>1, <1>2 DEF IInv, HandlesOK, Used, Valid, Owns
  <1>6. FieldsStep
    <2>1. next["fields"] \in Nat /\ owned["fields"] \in [Reps -> Nat] /\ DOMAIN fields \subseteq Reps
      BY RepsAreNumbers DEF IInv, TablesOK
    <2> QED BY <1>0, <1>1, <1>2, <2>1 DEF FieldsStep
  <1>7. HandlesOK("options", options)' /\ OptionsStep
    BY <1>0, OptionsFrame
  <1>8. OneHandle("requests", requests)' /\ RequestsStep
    BY <1>0, RequestsFrame
  <1>9. OneHandle("responses", responses)' /\ ResponsesStep
    BY <1>0, ResponsesFrame
  <1> QED BY <1>3, <1>4, <1>5, <1>6, <1>7, <1>8, <1>9, ParentsStay

\* The drop of a fields handle removes the entry.
LEMMA DropFieldsInv ==
  ASSUME IInv, NEW f \in Reps, DropFields(f)
  PROVE  IInv'
  <1> USE DEF DropFields, history
  <1>1. /\ owned' \in [Kinds -> [Reps -> Nat]]
        /\ owned'["options"] = owned["options"] /\ owned'["requests"] = owned["requests"]
        /\ owned'["responses"] = owned["responses"]
        /\ \A r \in Reps : owned'["fields"][r] = IF r = f THEN owned["fields"][r] - 1 ELSE owned["fields"][r]
    <2>1. owned \in [Kinds -> [Reps -> Nat]] /\ owned["fields"][f] - 1 \in Nat
      BY RepsAreNumbers DEF IInv, TablesOK, Owns
    <2> QED BY <2>1, RepsAreNumbers DEF Lift
  <1>2. /\ DOMAIN fields' = DOMAIN fields \ {f}
        /\ \A r \in DOMAIN fields : r # f => fields'[r] = fields[r]
    BY DEF Remove
  <1>3. TablesOK'
    BY <1>1, <1>2 DEF IInv, TablesOK
  <1>4. GivenOK'
    BY DEF IInv, GivenOK
  <1>5. next["fields"] \in Nat /\ owned["fields"] \in [Reps -> Nat] /\ DOMAIN fields \subseteq Reps
    BY RepsAreNumbers DEF IInv, TablesOK
  <1>6. HandlesOK("fields", fields)'
    BY <1>1, <1>2, <1>5 DEF IInv, HandlesOK, Used, Valid, Owns
  <1>7. FieldsStep
    BY <1>1, <1>2, <1>5 DEF FieldsStep
  <1>8. HandlesOK("options", options)' /\ OptionsStep
    BY <1>1, OptionsFrame
  <1>9. OneHandle("requests", requests)' /\ RequestsStep
    BY <1>1, RequestsFrame
  <1>10. OneHandle("responses", responses)' /\ ResponsesStep
    BY <1>1, ResponsesFrame
  <1> QED BY <1>3, <1>4, <1>6, <1>7, <1>8, <1>9, <1>10, ParentsStay

\* get-headers of a request or a response: the entry is flagged as it is shared.
LEMMA ShareFieldsInv ==
  ASSUME IInv, NEW f \in Reps, Used("fields", f), Valid("fields", fields, f),
         fields' = Flagged(fields, f), owned' = Lower(owned, "fields", f),
         UNCHANGED <<requests, responses, options, next, inbound, history>>
  PROVE  IInv'
  <1> USE DEF history
  <1>1. /\ owned' \in [Kinds -> [Reps -> Nat]]
        /\ owned'["options"] = owned["options"] /\ owned'["requests"] = owned["requests"]
        /\ owned'["responses"] = owned["responses"]
        /\ \A r \in Reps : owned'["fields"][r] = IF r = f THEN owned["fields"][r] + 1 ELSE owned["fields"][r]
    BY RepsAreNumbers DEF IInv, TablesOK, Lower
  <1>2. /\ DOMAIN fields' = DOMAIN fields
        /\ f \in DOMAIN fields => fields'[f] = FieldsData(fields[f].entries, TRUE)
        /\ \A r \in DOMAIN fields : r # f => fields'[r] = fields[r]
    <2>1. /\ DOMAIN fields' = DOMAIN fields
          /\ f \in DOMAIN fields => fields'[f] = [fields[f] EXCEPT !.immutable = TRUE]
          /\ \A r \in DOMAIN fields : r # f => fields'[r] = fields[r]
      BY DEF Flagged
    <2>2. ASSUME f \in DOMAIN fields PROVE fields'[f] = FieldsData(fields[f].entries, TRUE)
      <3>1. PICK data, b, new : data = fields[f] /\ b = TRUE /\ new = fields'[f]
        OBVIOUS
      <3>2. new = [data EXCEPT !.immutable = b]
        BY <2>1, <2>2, <3>1, Zenon
      <3>3. IsFields(data)
        BY <2>2, <3>1 DEF IInv, TablesOK
      <3>4. new = FieldsData(data.entries, b)
        BY <3>2, <3>3, FlagFacts, Zenon
      <3> QED BY <3>1, <3>4, Zenon
    <2> QED BY <2>1, <2>2
  <1>3. f \in DOMAIN fields => /\ fields'[f].immutable /\ fields'[f].entries = fields[f].entries
                               /\ IsFields(fields'[f])
    <2> SUFFICES ASSUME f \in DOMAIN fields
                 PROVE  /\ fields'[f].immutable /\ fields'[f].entries = fields[f].entries
                        /\ IsFields(fields'[f])
      OBVIOUS
    <2>1. fields'[f] = FieldsData(fields[f].entries, TRUE)
      BY <1>2
    <2>2. TRUE \in BOOLEAN
      OBVIOUS
    <2> QED BY <2>1, <2>2, FlaggedParts DEF IsFields
  <1>4. TablesOK'
    <2>1. \A r \in DOMAIN fields' :
            r \in Reps /\ IsFields(fields'[r])
      <3> SUFFICES ASSUME NEW r \in DOMAIN fields'
                   PROVE  r \in Reps /\ IsFields(fields'[r])
        OBVIOUS
      <3>1. CASE r = f
        BY <1>2, <1>3, <3>1
      <3>2. CASE r # f
        BY <1>2, <3>2 DEF IInv, TablesOK
      <3> QED BY <3>1, <3>2
    <2> QED BY <1>1, <2>1 DEF IInv, TablesOK
  <1>5. GivenOK'
    BY DEF IInv, GivenOK
  <1>6. next["fields"] \in Nat /\ owned["fields"] \in [Reps -> Nat] /\ DOMAIN fields \subseteq Reps
    BY RepsAreNumbers DEF IInv, TablesOK
  <1>7. HandlesOK("fields", fields)'
    BY <1>1, <1>2, <1>3, <1>6 DEF IInv, HandlesOK, Used, Valid, Owns
  <1>8. FieldsStep
    BY <1>1, <1>2, <1>3, <1>6 DEF FieldsStep
  <1>9. HandlesOK("options", options)' /\ OptionsStep
    BY <1>1, OptionsFrame
  <1>10. OneHandle("requests", requests)' /\ RequestsStep
    BY <1>1, RequestsFrame
  <1>11. OneHandle("responses", responses)' /\ ResponsesStep
    BY <1>1, ResponsesFrame
  <1> QED BY <1>4, <1>5, <1>7, <1>8, <1>9, <1>10, <1>11, ParentsStay

\* New request-options: constructor or clone.
LEMMA InsertOptionsInv ==
  ASSUME IInv, NEW data \in [timeouts : Timeouts, immutable : BOOLEAN], CanInsert("options"),
         options' = Insert(options, "options", data),
         next' = Allocated("options"), owned' = Lower(owned, "options", next["options"]),
         UNCHANGED <<fields, requests, responses, inbound, history>>
  PROVE  IInv'
  <1>0. PICK n \in Nat : n = next["options"]
    BY NextFacts, RepsAreNumbers DEF IInv
  <1>1. /\ n \in Nat /\ n \in Reps /\ next' \in [Kinds -> Nat \ {0}] /\ next'["options"] = n + 1
        /\ next'["fields"] = next["fields"] /\ next'["requests"] = next["requests"]
        /\ next'["responses"] = next["responses"]
    BY <1>0, NextFacts, RepsAreNumbers DEF IInv
  <1>2. /\ owned' \in [Kinds -> [Reps -> Nat]]
        /\ owned'["fields"] = owned["fields"] /\ owned'["requests"] = owned["requests"]
        /\ owned'["responses"] = owned["responses"]
        /\ \A r \in Reps : owned'["options"][r] = IF r = n THEN owned["options"][r] + 1 ELSE owned["options"][r]
    BY <1>0, <1>1, RepsAreNumbers DEF IInv, TablesOK, Lower
  <1>3. /\ DOMAIN options' = DOMAIN options \cup {n} /\ options'[n] = data
        /\ \A r \in DOMAIN options : r # n => options'[r] = options[r]
    BY <1>0 DEF Insert, Put
  <1>4. /\ n \notin DOMAIN options /\ owned["options"] \in [Reps -> Nat] /\ owned["options"][n] = 0
        /\ DOMAIN options \subseteq Reps
    BY <1>0, <1>1, RepsAreNumbers DEF IInv, TablesOK, HandlesOK, Owns, Used
  <1>5. TablesOK'
    <2>1. \A o \in DOMAIN options' :
            o \in Reps /\ options'[o] \in [timeouts : Timeouts, immutable : BOOLEAN]
      <3> SUFFICES ASSUME NEW o \in DOMAIN options'
                   PROVE  o \in Reps /\ options'[o] \in [timeouts : Timeouts, immutable : BOOLEAN]
        OBVIOUS
      <3>1. CASE o = n
        BY <1>1, <1>3, <3>1
      <3>2. CASE o # n
        BY <1>3, <3>2 DEF IInv, TablesOK
      <3> QED BY <3>1, <3>2
    <2> QED BY <1>1, <1>2, <2>1 DEF IInv, TablesOK
  <1>6. GivenOK'
    BY DEF IInv, GivenOK, history
  <1>7. HandlesOK("options", options)'
    <2>1. /\ \A r \in DOMAIN options : r \in Reps /\ r \in Nat /\ r < n
          /\ \A r \in Reps : owned["options"][r] > 0 =>
               r < n /\ (r \in DOMAIN options \/ <<"options", r>> \in dropped)
          /\ \A r \in DOMAIN options : ~options[r].immutable => owned["options"][r] <= 1
      BY <1>0, <1>4, RepsAreNumbers DEF IInv, HandlesOK, Used, Valid, Owns
    <2>2. \A r \in DOMAIN options' : Used("options", r)'
      BY <1>1, <1>3, <2>1 DEF Used
    <2>3. \A r \in Reps : Owns("options", r)' => Used("options", r)' /\ Valid("options", options, r)'
      <3> SUFFICES ASSUME NEW r \in Reps, owned'["options"][r] > 0
                   PROVE  r < n + 1 /\ (r \in DOMAIN options' \/ <<"options", r>> \in dropped')
        BY <1>1 DEF Used, Valid, Owns
      <3>1. r \in Nat
        BY RepsAreNumbers
      <3>2. CASE r = n
        BY <1>3, <3>2
      <3>3. CASE r # n
        BY <1>2, <1>3, <2>1, <3>1, <3>3 DEF history
      <3> QED BY <3>2, <3>3
    <2>4. \A r \in DOMAIN options' : ~options'[r].immutable => owned'["options"][r] <= 1
      <3> SUFFICES ASSUME NEW r \in DOMAIN options', ~options'[r].immutable PROVE owned'["options"][r] <= 1
        OBVIOUS
      <3>1. CASE r = n
        BY <1>1, <1>2, <1>4, <3>1
      <3>2. CASE r # n
        BY <1>2, <1>3, <2>1, <3>2
      <3> QED BY <3>1, <3>2
    <2> QED BY <2>2, <2>3, <2>4 DEF HandlesOK
  <1>8. OptionsStep
    <2>1. \A o \in DOMAIN options : /\ o # n /\ options'[o] = options[o]
                                    /\ owned'["options"][o] = owned["options"][o]
      BY <1>2, <1>3, <1>4
    <2>2. \A o \in DOMAIN options : owned["options"][o] \in Nat
      BY <1>4
    <2>3. ~Used("options", n) /\ next["options"] <= next'["options"] /\ dropped \subseteq dropped'
      BY <1>0, <1>1 DEF Used, history
    <2> QED BY <1>3, <2>1, <2>2, <2>3 DEF OptionsStep
  <1>9. HandlesOK("fields", fields)' /\ FieldsStep
    BY <1>1, <1>2, FieldsFrame DEF history
  <1>10. OneHandle("requests", requests)' /\ RequestsStep
    BY <1>1, <1>2, RequestsFrame DEF history
  <1>11. OneHandle("responses", responses)' /\ ResponsesStep
    BY <1>1, <1>2, ResponsesFrame DEF history
  <1> QED BY <1>5, <1>6, <1>7, <1>8, <1>9, <1>10, <1>11, ParentsStay

\* The setters change options that are not flagged.
LEMMA SetTimeoutsInv ==
  ASSUME IInv, NEW o \in Reps, NEW t \in Timeouts, SetTimeouts(o, t)
  PROVE  IInv'
  <1> USE DEF SetTimeouts, history
  <1>1. /\ o \in DOMAIN options /\ ~options[o].immutable /\ Owns("options", o)
    BY DEF Mutable
  <1>2. \A r \in DOMAIN options : options[r] \in [timeouts : Timeouts, immutable : BOOLEAN]
    BY DEF IInv, TablesOK
  <1>3. /\ DOMAIN options' = DOMAIN options
        /\ options'[o] \in [timeouts : Timeouts, immutable : BOOLEAN]
        /\ options'[o].immutable = options[o].immutable
        /\ \A r \in DOMAIN options : r # o => options'[r] = options[r]
    BY <1>1, <1>2
  <1>4. TablesOK'
    BY <1>3 DEF IInv, TablesOK
  <1>5. GivenOK'
    BY DEF IInv, GivenOK
  <1>6. HandlesOK("options", options)'
    BY <1>1, <1>3 DEF IInv, HandlesOK, Used, Valid, Owns
  <1>7. OptionsStep
    <2>1. next["options"] \in Nat /\ owned["options"] \in [Reps -> Nat] /\ DOMAIN options \subseteq Reps
      BY RepsAreNumbers DEF IInv, TablesOK
    <2> QED BY <1>1, <1>3, <2>1 DEF OptionsStep
  <1>8. HandlesOK("fields", fields)' /\ FieldsStep
    BY FieldsFrame
  <1>9. OneHandle("requests", requests)' /\ RequestsStep
    BY RequestsFrame
  <1>10. OneHandle("responses", responses)' /\ ResponsesStep
    BY ResponsesFrame
  <1> QED BY <1>4, <1>5, <1>6, <1>7, <1>8, <1>9, <1>10, ParentsStay

\* The drop of an options handle removes the entry.
LEMMA DropOptionsInv ==
  ASSUME IInv, NEW o \in Reps, DropOptions(o)
  PROVE  IInv'
  <1> USE DEF DropOptions, history
  <1>1. /\ owned' \in [Kinds -> [Reps -> Nat]]
        /\ owned'["fields"] = owned["fields"] /\ owned'["requests"] = owned["requests"]
        /\ owned'["responses"] = owned["responses"]
        /\ \A r \in Reps : owned'["options"][r] = IF r = o THEN owned["options"][r] - 1 ELSE owned["options"][r]
    <2>1. owned \in [Kinds -> [Reps -> Nat]] /\ owned["options"][o] - 1 \in Nat
      BY RepsAreNumbers DEF IInv, TablesOK, Owns
    <2> QED BY <2>1, RepsAreNumbers DEF Lift
  <1>2. /\ DOMAIN options' = DOMAIN options \ {o}
        /\ \A r \in DOMAIN options : r # o => options'[r] = options[r]
    BY DEF Remove
  <1>3. TablesOK'
    BY <1>1, <1>2 DEF IInv, TablesOK
  <1>4. GivenOK'
    BY DEF IInv, GivenOK
  <1>5. next["options"] \in Nat /\ owned["options"] \in [Reps -> Nat] /\ DOMAIN options \subseteq Reps
    BY RepsAreNumbers DEF IInv, TablesOK
  <1>6. HandlesOK("options", options)'
    BY <1>1, <1>2, <1>5 DEF IInv, HandlesOK, Used, Valid, Owns
  <1>7. OptionsStep
    BY <1>1, <1>2, <1>5 DEF OptionsStep
  <1>8. HandlesOK("fields", fields)' /\ FieldsStep
    BY <1>1, FieldsFrame
  <1>9. OneHandle("requests", requests)' /\ RequestsStep
    BY <1>1, RequestsFrame
  <1>10. OneHandle("responses", responses)' /\ ResponsesStep
    BY <1>1, ResponsesFrame
  <1> QED BY <1>3, <1>4, <1>6, <1>7, <1>8, <1>9, <1>10, ParentsStay

\* get-options: the entry is flagged as it is shared.
LEMMA GetOptionsInv ==
  ASSUME IInv, NEW q \in DOMAIN requests, GetOptions(q)
  PROVE  IInv'
  <1> USE DEF history
  <1>0. PICK o : o = requests[q].options
    OBVIOUS
  <1>1. /\ o \in Reps /\ Used("options", o) /\ Valid("options", options, o)
        /\ options' = Flagged(options, o) /\ owned' = Lower(owned, "options", o)
        /\ UNCHANGED <<fields, requests, responses, next, inbound, history>>
    <2>1. o # None /\ o \in Reps \cup {None} /\ RequestOK(q)
      BY <1>0 DEF GetOptions, IInv, TablesOK, RequestsOK
    <2>2. Used("options", o) /\ Valid("options", options, o)
      BY <1>0, <2>1 DEF RequestOK, OptionsKept, Kept
    <2> QED BY <1>0, <2>1, <2>2 DEF GetOptions
  <1>2. /\ owned' \in [Kinds -> [Reps -> Nat]]
        /\ owned'["fields"] = owned["fields"] /\ owned'["requests"] = owned["requests"]
        /\ owned'["responses"] = owned["responses"]
        /\ \A r \in Reps : owned'["options"][r] = IF r = o THEN owned["options"][r] + 1 ELSE owned["options"][r]
    BY <1>1, RepsAreNumbers DEF IInv, TablesOK, Lower
  <1>3. /\ DOMAIN options' = DOMAIN options
        /\ \A r \in DOMAIN options : r # o => options'[r] = options[r]
        /\ o \in DOMAIN options => /\ options'[o] \in [timeouts : Timeouts, immutable : BOOLEAN]
                                   /\ options'[o].immutable
                                   /\ options'[o].timeouts = options[o].timeouts
    <2>1. \A r \in DOMAIN options : options[r] \in [timeouts : Timeouts, immutable : BOOLEAN]
      BY DEF IInv, TablesOK
    <2> QED BY <1>1, <2>1 DEF Flagged
  <1>4. TablesOK'
    BY <1>1, <1>2, <1>3 DEF IInv, TablesOK
  <1>5. GivenOK'
    BY <1>1 DEF IInv, GivenOK
  <1>6. next["options"] \in Nat /\ owned["options"] \in [Reps -> Nat] /\ DOMAIN options \subseteq Reps
    BY RepsAreNumbers DEF IInv, TablesOK
  <1>7. HandlesOK("options", options)'
    BY <1>1, <1>2, <1>3, <1>6 DEF IInv, HandlesOK, Used, Valid, Owns
  <1>8. OptionsStep
    BY <1>1, <1>2, <1>3, <1>6 DEF OptionsStep
  <1>9. HandlesOK("fields", fields)' /\ FieldsStep
    BY <1>1, <1>2, FieldsFrame
  <1>10. OneHandle("requests", requests)' /\ RequestsStep
    BY <1>1, <1>2, RequestsFrame
  <1>11. OneHandle("responses", responses)' /\ ResponsesStep
    BY <1>1, <1>2, ResponsesFrame
  <1> QED BY <1>4, <1>5, <1>7, <1>8, <1>9, <1>10, <1>11, ParentsStay

\* A step on one request: it may change its line, lose its streams or go.
LEMMA OneRequestInv ==
  ASSUME IInv, UNCHANGED <<fields, responses, options, next, given, dropped>>,
         owned' \in [Kinds -> [Reps -> Nat]], owned'["fields"] = owned["fields"],
         owned'["options"] = owned["options"], owned'["responses"] = owned["responses"],
         DOMAIN requests' \subseteq DOMAIN requests,
         \A r \in DOMAIN requests' :
           requests'[r] \in [headers : Reps, options : Reps \cup {None}, line : Lines, stash : BOOLEAN],
         OneHandle("requests", requests)', RequestsStep
  PROVE  IInv'
  <1>1. TablesOK'
    BY DEF IInv, TablesOK
  <1>2. GivenOK'
    BY DEF IInv, GivenOK
  <1>3. HandlesOK("fields", fields)' /\ FieldsStep
    BY FieldsFrame
  <1>4. HandlesOK("options", options)' /\ OptionsStep
    BY OptionsFrame
  <1>5. OneHandle("responses", responses)' /\ ResponsesStep
    BY ResponsesFrame
  <1> QED BY <1>1, <1>2, <1>3, <1>4, <1>5, ParentsStay

\* What a request looks like in a state that satisfies the invariant.
LEMMA RequestFacts ==
  ASSUME IInv
  PROVE  /\ \A r \in DOMAIN requests : r \in Reps /\ r < next["requests"] /\
              requests[r] \in [headers : Reps, options : Reps \cup {None}, line : Lines, stash : BOOLEAN]
         /\ next["requests"] \in Nat /\ owned["requests"] \in [Reps -> Nat]
         /\ \A r \in Reps : /\ owned["requests"][r] <= 1
                            /\ owned["requests"][r] > 0 => r < next["requests"] /\ r \in DOMAIN requests
  <1>1. /\ \A r \in DOMAIN requests : r \in Reps /\
              requests[r] \in [headers : Reps, options : Reps \cup {None}, line : Lines, stash : BOOLEAN]
        /\ next["requests"] \in Nat /\ owned["requests"] \in [Reps -> Nat]
    BY RepsAreNumbers DEF IInv, TablesOK
  <1>2. \A r \in DOMAIN requests : r < next["requests"]
    BY DEF IInv, RequestsOK, RequestOK, Used
  <1>3. \A r \in Reps : /\ owned["requests"][r] <= 1
                        /\ owned["requests"][r] > 0 => r < next["requests"] /\ r \in DOMAIN requests
    BY DEF IInv, OneHandle, Used, Owns
  <1> QED BY <1>1, <1>2, <1>3

\* The guest gives its one handle on a request away.
LEMMA GiveRequest ==
  ASSUME IInv, NEW q \in DOMAIN requests, Owns("requests", q), owned' = Lift(owned, "requests", q)
  PROVE  /\ owned' \in [Kinds -> [Reps -> Nat]] /\ owned'["fields"] = owned["fields"]
         /\ owned'["options"] = owned["options"] /\ owned'["responses"] = owned["responses"]
         /\ owned'["requests"][q] = 0
         /\ \A r \in Reps : r # q => owned'["requests"][r] = owned["requests"][r]
  <1>1. /\ owned \in [Kinds -> [Reps -> Nat]] /\ q \in Reps /\ owned["requests"][q] = 1
    BY RequestFacts, RepsAreNumbers DEF IInv, TablesOK, Owns
  <1>2. owned["requests"][q] - 1 = 0
    BY <1>1
  <1> QED BY <1>1, <1>2, RepsAreNumbers DEF Lift

\* set-method and the other setters of the line.
LEMMA SetLineInv ==
  ASSUME IInv, NEW q \in DOMAIN requests, NEW line \in Lines, SetLine(q, line)
  PROVE  IInv'
  <1> USE DEF SetLine, history
  <1>1. /\ DOMAIN requests' = DOMAIN requests
        /\ \A r \in DOMAIN requests : r # q => requests'[r] = requests[r]
        /\ requests'[q] \in [headers : Reps, options : Reps \cup {None}, line : Lines, stash : BOOLEAN]
        /\ requests'[q].headers = requests[q].headers /\ requests'[q].options = requests[q].options
        /\ requests'[q].stash = requests[q].stash
    BY RequestFacts
  <1>2. OneHandle("requests", requests)'
    BY <1>1 DEF IInv, OneHandle, Used, Owns
  <1>3. RequestsStep
    BY <1>1, RequestFacts DEF RequestsStep, SameRequest
  <1>4. \A r \in DOMAIN requests' :
          requests'[r] \in [headers : Reps, options : Reps \cup {None}, line : Lines, stash : BOOLEAN]
    BY <1>1, RequestFacts
  <1>5. owned' \in [Kinds -> [Reps -> Nat]]
    BY DEF IInv, TablesOK
  <1> QED BY <1>1, <1>2, <1>3, <1>4, <1>5, OneRequestInv

\* consume-body, or handle once the head is framed: the streams leave the entry
\* with the handle.
LEMMA TakeStreamsInv ==
  ASSUME IInv, NEW q \in DOMAIN requests, Owns("requests", q),
         requests' = [requests EXCEPT ![q].stash = FALSE], owned' = Lift(owned, "requests", q),
         UNCHANGED <<fields, responses, options, next, given, dropped, rejected>>
  PROVE  IInv'
  <1>1. /\ DOMAIN requests' = DOMAIN requests
        /\ \A r \in DOMAIN requests : r # q => requests'[r] = requests[r]
        /\ requests'[q] \in [headers : Reps, options : Reps \cup {None}, line : Lines, stash : BOOLEAN]
        /\ requests'[q].headers = requests[q].headers /\ requests'[q].options = requests[q].options
        /\ ~requests'[q].stash
    BY RequestFacts
  <1>2. /\ owned' \in [Kinds -> [Reps -> Nat]] /\ owned'["fields"] = owned["fields"]
        /\ owned'["options"] = owned["options"] /\ owned'["responses"] = owned["responses"]
        /\ owned'["requests"][q] = 0
        /\ \A r \in Reps : r # q => owned'["requests"][r] = owned["requests"][r]
    BY GiveRequest
  <1>3. OneHandle("requests", requests)'
    BY <1>1, <1>2, RequestFacts DEF OneHandle, Used, Owns
  <1>4. RequestsStep
    BY <1>1, <1>2, RequestFacts DEF RequestsStep, SameRequest
  <1>5. \A r \in DOMAIN requests' :
          requests'[r] \in [headers : Reps, options : Reps \cup {None}, line : Lines, stash : BOOLEAN]
    BY <1>1, RequestFacts
  <1> QED BY <1>1, <1>2, <1>3, <1>4, <1>5, OneRequestInv

\* The drop of a request leaves its headers and options in their tables.
LEMMA DropRequestInv ==
  ASSUME IInv, NEW q \in DOMAIN requests, DropRequest(q)
  PROVE  IInv'
  <1> USE DEF DropRequest, history
  <1>1. /\ DOMAIN requests' = DOMAIN requests \ {q}
        /\ \A r \in DOMAIN requests : r # q => requests'[r] = requests[r]
    BY DEF Remove
  <1>2. /\ owned' \in [Kinds -> [Reps -> Nat]] /\ owned'["fields"] = owned["fields"]
        /\ owned'["options"] = owned["options"] /\ owned'["responses"] = owned["responses"]
        /\ owned'["requests"][q] = 0
        /\ \A r \in Reps : r # q => owned'["requests"][r] = owned["requests"][r]
    BY GiveRequest
  <1>3. OneHandle("requests", requests)'
    BY <1>1, <1>2, RequestFacts DEF OneHandle, Used, Owns
  <1>4. RequestsStep
    BY <1>1, <1>2, RequestFacts DEF RequestsStep, SameRequest
  <1>5. \A r \in DOMAIN requests' :
          requests'[r] \in [headers : Reps, options : Reps \cup {None}, line : Lines, stash : BOOLEAN]
    BY <1>1, RequestFacts
  <1> QED BY <1>1, <1>2, <1>3, <1>4, <1>5, OneRequestInv

\* handle refuses the head: the request keeps its streams, and is remembered.
LEMMA HandleRejectedInv ==
  ASSUME IInv, NEW q \in DOMAIN requests, HandleRejected(q)
  PROVE  IInv'
  <1> USE DEF HandleRejected, tables
  <1>1. /\ owned' \in [Kinds -> [Reps -> Nat]] /\ owned'["fields"] = owned["fields"]
        /\ owned'["options"] = owned["options"] /\ owned'["responses"] = owned["responses"]
        /\ owned'["requests"][q] = 0
        /\ \A r \in Reps : r # q => owned'["requests"][r] = owned["requests"][r]
    BY GiveRequest
  <1>2. OneHandle("requests", requests)'
    BY <1>1, RequestFacts DEF OneHandle, Used, Owns
  <1>3. RequestsStep
    BY <1>1, RequestFacts DEF RequestsStep, SameRequest
  <1> QED BY <1>1, <1>2, <1>3, RequestFacts, OneRequestInv

\* A step that only takes handles on fields away.
LEMMA FieldsFewer ==
  ASSUME IInv, fields' = fields, dropped \subseteq dropped', next'["fields"] = next["fields"],
         \A r \in Reps : owned'["fields"][r] \in Nat /\ owned'["fields"][r] <= owned["fields"][r]
  PROVE  HandlesOK("fields", fields)' /\ FieldsStep
  <1>1. next["fields"] \in Nat /\ owned["fields"] \in [Reps -> Nat] /\ DOMAIN fields \subseteq Reps
    BY RepsAreNumbers DEF IInv, TablesOK
  <1>2. FieldsStep
    BY <1>1 DEF FieldsStep
  <1>3. /\ \A r \in DOMAIN fields : r < next["fields"]
        /\ \A r \in Reps : owned["fields"][r] > 0 =>
             r < next["fields"] /\ (r \in DOMAIN fields \/ <<"fields", r>> \in dropped)
        /\ \A r \in DOMAIN fields : ~fields[r].immutable => owned["fields"][r] <= 1
    BY DEF IInv, HandlesOK, Used, Valid, Owns
  <1>4. \A r \in Reps : owned'["fields"][r] > 0 => owned["fields"][r] > 0
    BY <1>1
  <1>5. \A r \in DOMAIN fields : ~fields[r].immutable => owned'["fields"][r] <= 1
    BY <1>1, <1>3
  <1>6. HandlesOK("fields", fields)'
    BY <1>3, <1>4, <1>5 DEF HandlesOK, Used, Valid, Owns
  <1> QED BY <1>2, <1>6

\* Or on options.
LEMMA OptionsFewer ==
  ASSUME IInv, options' = options, dropped \subseteq dropped', next'["options"] = next["options"],
         \A r \in Reps : owned'["options"][r] \in Nat /\ owned'["options"][r] <= owned["options"][r]
  PROVE  HandlesOK("options", options)' /\ OptionsStep
  <1>1. next["options"] \in Nat /\ owned["options"] \in [Reps -> Nat] /\ DOMAIN options \subseteq Reps
    BY RepsAreNumbers DEF IInv, TablesOK
  <1>2. OptionsStep
    BY <1>1 DEF OptionsStep
  <1>3. /\ \A r \in DOMAIN options : r < next["options"]
        /\ \A r \in Reps : owned["options"][r] > 0 =>
             r < next["options"] /\ (r \in DOMAIN options \/ <<"options", r>> \in dropped)
        /\ \A r \in DOMAIN options : ~options[r].immutable => owned["options"][r] <= 1
    BY DEF IInv, HandlesOK, Used, Valid, Owns
  <1>4. \A r \in Reps : owned'["options"][r] > 0 => owned["options"][r] > 0
    BY <1>1
  <1>5. \A r \in DOMAIN options : ~options[r].immutable => owned'["options"][r] <= 1
    BY <1>1, <1>3
  <1>6. HandlesOK("options", options)'
    BY <1>3, <1>4, <1>5 DEF HandlesOK, Used, Valid, Owns
  <1> QED BY <1>2, <1>6

\* The parent that takes the last handle on fields that are not flagged may rely
\* on them.
LEMMA TakenFields ==
  ASSUME IInv, NEW f \in Reps, Owns("fields", f), fields' = fields, dropped' = dropped,
         next'["fields"] = next["fields"], owned'["fields"][f] = owned["fields"][f] - 1
  PROVE  HeadersKept(f, EntriesOf(f))'
  <1>1. owned["fields"][f] \in Nat
    BY RepsAreNumbers DEF IInv, TablesOK
  <1>2. /\ f < next["fields"] /\ (f \in DOMAIN fields \/ <<"fields", f>> \in dropped)
        /\ f \in DOMAIN fields /\ ~fields[f].immutable => owned["fields"][f] <= 1
    BY DEF IInv, HandlesOK, Used, Valid, Owns
  <1>3. f \in DOMAIN fields /\ ~fields[f].immutable => ~Owns("fields", f)'
    BY <1>1, <1>2 DEF Owns
  <1> QED BY <1>2, <1>3 DEF HeadersKept, Kept, Used, Valid, EntriesOf

\* The same of options.
LEMMA TakenOptions ==
  ASSUME IInv, NEW o \in Reps, Owns("options", o), options' = options, dropped' = dropped,
         next'["options"] = next["options"], owned'["options"][o] = owned["options"][o] - 1
  PROVE  OptionsKept(o, TimeoutsOf(o))'
  <1>1. owned["options"][o] \in Nat
    BY RepsAreNumbers DEF IInv, TablesOK
  <1>2. /\ o < next["options"] /\ (o \in DOMAIN options \/ <<"options", o>> \in dropped)
        /\ o \in DOMAIN options /\ ~options[o].immutable => owned["options"][o] <= 1
    BY DEF IInv, HandlesOK, Used, Valid, Owns
  <1>3. o \in DOMAIN options /\ ~options[o].immutable => ~Owns("options", o)'
    BY <1>1, <1>2 DEF Owns
  <1> QED BY <1>2, <1>3 DEF OptionsKept, Kept, Used, Valid, TimeoutsOf

\* A request takes the handles on its headers and options.
LEMMA NewRequestInv ==
  ASSUME IInv, NEW f \in Reps, NEW o \in Reps \cup {None}, NewRequest(f, o)
  PROVE  IInv'
  <1>0. PICK n \in Nat : n = next["requests"]
    BY NextFacts, RepsAreNumbers DEF IInv
  <1>1. /\ n \in Reps /\ next' \in [Kinds -> Nat \ {0}] /\ next'["requests"] = n + 1
        /\ next'["fields"] = next["fields"] /\ next'["options"] = next["options"]
        /\ next'["responses"] = next["responses"]
    BY <1>0, NextFacts, RepsAreNumbers DEF IInv, NewRequest
  <1>2. UNCHANGED <<fields, responses, options, inbound, sent, dropped, rejected>>
    BY DEF NewRequest
  <1>3. Owns("fields", f) /\ (o # None => Owns("options", o))
    BY DEF NewRequest
  <1>4. PICK data \in [headers : Reps, options : Reps \cup {None}, line : Lines, stash : BOOLEAN] :
          /\ data.headers = f /\ data.options = o
          /\ requests' = Insert(requests, "requests", data)
    <2>1. PICK data : data = [headers |-> f, options |-> o, line |-> GetLine, stash |-> TRUE]
      OBVIOUS
    <2>2. /\ data \in [headers : Reps, options : Reps \cup {None}, line : Lines, stash : BOOLEAN]
          /\ data.headers = f /\ data.options = o
      BY <2>1, ResourcesAssumption
    <2>3. requests' = Insert(requests, "requests", data)
      BY <2>1 DEF NewRequest
    <2> QED BY <2>2, <2>3
  <1>5. /\ owned' \in [Kinds -> [Reps -> Nat]]
        /\ owned'["responses"] = owned["responses"]
        /\ \A r \in Reps : owned'["fields"][r] = IF r = f THEN owned["fields"][r] - 1 ELSE owned["fields"][r]
        /\ \A r \in Reps : owned'["options"][r] = IF r = o THEN owned["options"][r] - 1 ELSE owned["options"][r]
        /\ \A r \in Reps : owned'["requests"][r] = IF r = n THEN owned["requests"][r] + 1 ELSE owned["requests"][r]
    <2>1. /\ owned \in [Kinds -> [Reps -> Nat]] /\ owned["fields"][f] - 1 \in Nat
          /\ o # None => owned["options"][o] - 1 \in Nat
      BY <1>3, RepsAreNumbers DEF IInv, TablesOK, Owns
    <2>2. PICK own, own2 : /\ own = Lift(owned, "fields", f)
                           /\ own2 = IF o = None THEN own ELSE Lift(own, "options", o)
      OBVIOUS
    <2>3. /\ own \in [Kinds -> [Reps -> Nat]]
          /\ own["responses"] = owned["responses"] /\ own["options"] = owned["options"]
          /\ own["requests"] = owned["requests"]
          /\ \A r \in Reps : own["fields"][r] = IF r = f THEN owned["fields"][r] - 1 ELSE owned["fields"][r]
      BY <2>1, <2>2, RepsAreNumbers DEF Lift
    <2>6. /\ own2 \in [Kinds -> [Reps -> Nat]]
          /\ own2["responses"] = own["responses"] /\ own2["fields"] = own["fields"]
          /\ own2["requests"] = own["requests"]
          /\ \A r \in Reps : own2["options"][r] = IF r = o THEN own["options"][r] - 1 ELSE own["options"][r]
      <3>1. CASE o = None
        <4>1. \A r \in Reps : r # o
          BY <3>1, RepsAreNumbers
        <4> QED BY <2>2, <2>3, <3>1, <4>1
      <3>2. CASE o # None
        <4>1. o \in Reps /\ own["options"][o] - 1 \in Nat
          BY <2>1, <2>3, <3>2
        <4>2. own2 = [own EXCEPT !["options"][o] = own["options"][o] - 1]
          BY <2>2, <3>2 DEF Lift
        <4> QED BY <2>3, <4>1, <4>2, RepsAreNumbers
      <3> QED BY <3>1, <3>2
    <2>4. owned' = Lower(own2, "requests", n)
      BY <1>0, <2>2 DEF NewRequest
    <2>5. /\ owned' \in [Kinds -> [Reps -> Nat]]
          /\ owned'["responses"] = own2["responses"] /\ owned'["fields"] = own2["fields"]
          /\ owned'["options"] = own2["options"]
          /\ \A r \in Reps : owned'["requests"][r] = IF r = n THEN own2["requests"][r] + 1 ELSE own2["requests"][r]
      BY <1>1, <2>4, <2>6, RepsAreNumbers DEF Lower
    <2> QED BY <2>3, <2>5, <2>6
  <1>6. /\ DOMAIN requests' = DOMAIN requests \cup {n} /\ requests'[n] = data
        /\ \A r \in DOMAIN requests : r # n => requests'[r] = requests[r]
    BY <1>0, <1>4 DEF Insert, Put
  <1>7. n \notin DOMAIN requests /\ owned["requests"][n] = 0
    BY <1>0, <1>1, RequestFacts
  <1>8. PICK g : g = Contents(f, o)
    OBVIOUS
  <1>9. /\ given' = [requests |-> given'.requests, responses |-> given'.responses]
        /\ given'.responses = given.responses
        /\ DOMAIN given'.requests = DOMAIN given.requests \cup {n} /\ given'.requests[n] = g
        /\ \A r \in DOMAIN given.requests : r # n => given'.requests[r] = given.requests[r]
    <2>1. given = [requests |-> given.requests, responses |-> given.responses]
      BY DEF IInv, GivenOK
    <2>2. given' = [given EXCEPT !.requests = Insert(given.requests, "requests", g)]
      BY <1>8 DEF NewRequest
    <2>3. PICK a, b, i : a = given.requests /\ b = given.responses /\ i = Insert(a, "requests", g)
      OBVIOUS
    <2>4. given' = [[requests |-> a, responses |-> b] EXCEPT !.requests = i]
      BY <2>1, <2>2, <2>3, Zenon
    <2>5. given' = [requests |-> i, responses |-> b]
      BY <2>4
    <2>6. /\ DOMAIN i = DOMAIN a \cup {n} /\ i[n] = g
          /\ \A r \in DOMAIN a : r # n => i[r] = a[r]
      BY <1>0, <2>3 DEF Insert, Put
    <2> QED BY <2>3, <2>5, <2>6
  <1>10. TablesOK'
    <2>1. \A q \in DOMAIN requests' :
            q \in Reps /\ requests'[q] \in [headers : Reps, options : Reps \cup {None},
                                            line : Lines, stash : BOOLEAN]
      BY <1>1, <1>4, <1>6, RequestFacts
    <2> QED BY <1>1, <1>2, <1>5, <2>1 DEF IInv, TablesOK
  <1>11. GivenOK'
    BY <1>2, <1>6, <1>9 DEF IInv, GivenOK
  <1>12. HandlesOK("fields", fields)' /\ FieldsStep
    <2>1. owned \in [Kinds -> [Reps -> Nat]]
      BY DEF IInv, TablesOK
    <2>2. \A r \in Reps : owned'["fields"][r] \in Nat /\ owned'["fields"][r] <= owned["fields"][r]
      BY <1>5, <2>1, RepsAreNumbers
    <2> QED BY <1>1, <1>2, <2>2, FieldsFewer
  <1>13. HandlesOK("options", options)' /\ OptionsStep
    <2>1. owned \in [Kinds -> [Reps -> Nat]]
      BY DEF IInv, TablesOK
    <2>2. \A r \in Reps : owned'["options"][r] \in Nat /\ owned'["options"][r] <= owned["options"][r]
      BY <1>5, <2>1, RepsAreNumbers
    <2> QED BY <1>1, <1>2, <2>2, OptionsFewer
  <1>14. OneHandle("responses", responses)' /\ ResponsesStep
    BY <1>1, <1>2, <1>5, <1>9, ResponsesFrame
  <1>15. OneHandle("requests", requests)'
    <2> SUFFICES ASSUME NEW r \in Reps
                 PROVE  /\ owned'["requests"][r] <= 1
                        /\ owned'["requests"][r] > 0 => r < n + 1 /\ r \in DOMAIN requests'
      BY <1>1 DEF OneHandle, Used, Owns
    <2>1. r \in Nat
      BY RepsAreNumbers
    <2>2. CASE r = n
      BY <1>5, <1>6, <1>7, <2>2
    <2>3. CASE r # n
      BY <1>0, <1>5, <1>6, <2>1, <2>3, RequestFacts
    <2> QED BY <2>2, <2>3
  <1>16. RequestOK(n)'
    <2>1. owned'["fields"][f] = owned["fields"][f] - 1
      BY <1>5
    <2>2. HeadersKept(f, EntriesOf(f))'
      BY <1>1, <1>2, <1>3, <2>1, TakenFields
    <2>3. OptionsKept(o, TimeoutsOf(o))'
      <3>1. CASE o = None
        BY <3>1 DEF OptionsKept
      <3>2. CASE o # None
        <4>1. o \in Reps /\ owned'["options"][o] = owned["options"][o] - 1
          BY <1>5, <3>2
        <4> QED BY <1>1, <1>2, <1>3, <3>2, <4>1, TakenOptions
      <3> QED BY <3>1, <3>2
    <2>4. EntriesOf(f)' = EntriesOf(f) /\ TimeoutsOf(o)' = TimeoutsOf(o)
      BY <1>2 DEF EntriesOf, TimeoutsOf
    <2>5. g.headers = EntriesOf(f) /\ g.timeouts = TimeoutsOf(o)
      BY <1>8 DEF Contents
    <2>6. HeadersKept(requests[n].headers, given.requests[n].headers)'
      <3>1. requests'[n].headers = f /\ given'.requests[n].headers = EntriesOf(f)'
        BY <1>4, <1>6, <1>9, <2>4, <2>5
      <3> QED BY <2>2, <3>1
    <2>7. OptionsKept(requests[n].options, given.requests[n].timeouts)'
      <3>1. requests'[n].options = o /\ given'.requests[n].timeouts = TimeoutsOf(o)'
        BY <1>4, <1>6, <1>9, <2>4, <2>5
      <3> QED BY <2>3, <3>1
    <2>8. Used("requests", n)' /\ Owns("requests", n)'
      BY <1>1, <1>5, <1>7 DEF Used, Owns
    <2> QED BY <2>6, <2>7, <2>8 DEF RequestOK
  <1>17. RequestsStep
    <2>1. \A r \in DOMAIN requests : SameRequest(r)
      <3> SUFFICES ASSUME NEW r \in DOMAIN requests PROVE SameRequest(r)
        OBVIOUS
      <3>1. r # n /\ requests'[r] = requests[r] /\ given'.requests[r] = given.requests[r]
        BY <1>6, <1>7, <1>9 DEF IInv, GivenOK
      <3>2. owned["requests"][r] \in Nat /\ owned'["requests"][r] = owned["requests"][r]
        BY <1>5, <3>1, RequestFacts
      <3> QED BY <3>1, <3>2 DEF SameRequest
    <2> QED BY <1>0, <1>1, <1>2, <1>6, <1>16, <2>1 DEF RequestsStep
  <1> QED BY <1>10, <1>11, <1>12, <1>13, <1>14, <1>15, <1>17, ParentsStay

\* What an entry of the responses table looks like.
ResponseType == [headers : Reps, status : StatusCodes, stash : BOOLEAN, trailers : Reps \cup {None}]

\* What a response looks like in a state that satisfies the invariant.
LEMMA ResponseFacts ==
  ASSUME IInv
  PROVE  /\ \A r \in DOMAIN responses :
              r \in Reps /\ r < next["responses"] /\ responses[r] \in ResponseType
         /\ next["responses"] \in Nat /\ owned["responses"] \in [Reps -> Nat]
         /\ \A r \in Reps : /\ owned["responses"][r] <= 1
                            /\ owned["responses"][r] > 0 => r < next["responses"] /\ r \in DOMAIN responses
  <1>1. /\ \A r \in DOMAIN responses : r \in Reps /\ responses[r] \in ResponseType
        /\ next["responses"] \in Nat /\ owned["responses"] \in [Reps -> Nat]
    BY RepsAreNumbers DEF IInv, TablesOK, ResponseType
  <1>2. \A r \in DOMAIN responses : r < next["responses"]
    BY DEF IInv, ResponsesOK, ResponseOK, Used
  <1>3. \A r \in Reps : /\ owned["responses"][r] <= 1
                        /\ owned["responses"][r] > 0 => r < next["responses"] /\ r \in DOMAIN responses
    BY DEF IInv, OneHandle, Used, Owns
  <1> QED BY <1>1, <1>2, <1>3

\* A step on one response.
LEMMA OneResponseInv ==
  ASSUME IInv, UNCHANGED <<fields, requests, options, next, given, dropped, rejected>>,
         owned' \in [Kinds -> [Reps -> Nat]],
         owned'["options"] = owned["options"], owned'["requests"] = owned["requests"],
         HandlesOK("fields", fields)', FieldsStep,
         DOMAIN responses' \subseteq DOMAIN responses,
         \A r \in DOMAIN responses' : responses'[r] \in ResponseType,
         OneHandle("responses", responses)', ResponsesStep
  PROVE  IInv'
  <1>1. TablesOK'
    BY DEF IInv, TablesOK, ResponseType
  <1>2. GivenOK'
    BY DEF IInv, GivenOK
  <1>3. HandlesOK("options", options)' /\ OptionsStep
    BY OptionsFrame
  <1>4. OneHandle("requests", requests)' /\ RequestsStep
    BY RequestsFrame
  <1> QED BY <1>1, <1>2, <1>3, <1>4, ParentsStay

\* The guest gives its one handle on a response away.
LEMMA GiveResponse ==
  ASSUME IInv, NEW p \in DOMAIN responses, Owns("responses", p), NEW own, own = Lift(owned, "responses", p)
  PROVE  /\ own \in [Kinds -> [Reps -> Nat]] /\ own["fields"] = owned["fields"]
         /\ own["options"] = owned["options"] /\ own["requests"] = owned["requests"]
         /\ own["responses"][p] = 0
         /\ \A r \in Reps : r # p => own["responses"][r] = owned["responses"][r]
  <1>1. /\ owned \in [Kinds -> [Reps -> Nat]] /\ p \in Reps /\ owned["responses"][p] = 1
    BY ResponseFacts, RepsAreNumbers DEF IInv, TablesOK, Owns
  <1>2. owned["responses"][p] - 1 = 0
    BY <1>1
  <1> QED BY <1>1, <1>2, RepsAreNumbers DEF Lift

\* set-status-code.
LEMMA SetStatusCodeInv ==
  ASSUME IInv, NEW p \in DOMAIN responses, NEW st \in StatusCodes, SetStatusCode(p, st)
  PROVE  IInv'
  <1> USE DEF SetStatusCode, history
  <1>1. /\ DOMAIN responses' = DOMAIN responses
        /\ \A r \in DOMAIN responses : r # p => responses'[r] = responses[r]
        /\ responses'[p] \in ResponseType
        /\ responses'[p].headers = responses[p].headers /\ responses'[p].trailers = responses[p].trailers
        /\ responses'[p].stash = responses[p].stash
    BY ResponseFacts DEF ResponseType
  <1>2. OneHandle("responses", responses)'
    BY <1>1 DEF IInv, OneHandle, Used, Owns
  <1>3. ResponsesStep
    BY <1>1, ResponseFacts DEF ResponsesStep, SameResponse
  <1>4. \A r \in DOMAIN responses' : responses'[r] \in ResponseType
    BY <1>1, ResponseFacts
  <1>5. owned' \in [Kinds -> [Reps -> Nat]]
    BY DEF IInv, TablesOK
  <1>6. HandlesOK("fields", fields)' /\ FieldsStep
    BY FieldsFrame
  <1> QED BY <1>1, <1>2, <1>3, <1>4, <1>5, <1>6, OneResponseInv

\* The drop of a response leaves its headers in their table.
LEMMA DropResponseInv ==
  ASSUME IInv, NEW p \in DOMAIN responses, DropResponse(p)
  PROVE  IInv'
  <1> USE DEF DropResponse, history
  <1>1. /\ DOMAIN responses' = DOMAIN responses \ {p}
        /\ \A r \in DOMAIN responses : r # p => responses'[r] = responses[r]
    BY DEF Remove
  <1>2. /\ owned' \in [Kinds -> [Reps -> Nat]] /\ owned'["fields"] = owned["fields"]
        /\ owned'["options"] = owned["options"] /\ owned'["requests"] = owned["requests"]
        /\ owned'["responses"][p] = 0
        /\ \A r \in Reps : r # p => owned'["responses"][r] = owned["responses"][r]
    BY GiveResponse
  <1>3. OneHandle("responses", responses)'
    BY <1>1, <1>2, ResponseFacts DEF OneHandle, Used, Owns
  <1>4. ResponsesStep
    BY <1>1, <1>2, ResponseFacts DEF ResponsesStep, SameResponse
  <1>5. \A r \in DOMAIN responses' : responses'[r] \in ResponseType
    BY <1>1, ResponseFacts
  <1>6. HandlesOK("fields", fields)' /\ FieldsStep
    BY <1>2, FieldsFrame
  <1> QED BY <1>1, <1>2, <1>3, <1>4, <1>5, <1>6, OneResponseInv

\* A handle on flagged fields is handed out.
LEMMA FieldsShared ==
  ASSUME IInv, fields' = fields, dropped' = dropped, next'["fields"] = next["fields"],
         NEW t \in Reps, Used("fields", t), Valid("fields", fields, t),
         t \in DOMAIN fields => fields[t].immutable,
         \A r \in Reps : owned'["fields"][r] = IF r = t THEN owned["fields"][r] + 1 ELSE owned["fields"][r]
  PROVE  HandlesOK("fields", fields)' /\ FieldsStep
  <1>1. next["fields"] \in Nat /\ owned["fields"] \in [Reps -> Nat] /\ DOMAIN fields \subseteq Reps
    BY RepsAreNumbers DEF IInv, TablesOK
  <1>2. HandlesOK("fields", fields)'
    BY <1>1 DEF IInv, HandlesOK, Used, Valid, Owns
  <1>3. FieldsStep
    BY <1>1 DEF FieldsStep
  <1> QED BY <1>2, <1>3

\* consume-body of a response: the streams leave the entry with the handle, and
\* the guest receives the caller's trailers.
LEMMA ConsumeResponseBodyInv ==
  ASSUME IInv, NEW p \in DOMAIN responses, ConsumeResponseBody(p)
  PROVE  IInv'
  <1> USE DEF history
  <1>0. PICK t, own : t = responses[p].trailers /\ own = Lift(owned, "responses", p)
    OBVIOUS
  <1>1. /\ Owns("responses", p) /\ responses' = [responses EXCEPT ![p].stash = FALSE]
        /\ owned' = (IF t = None THEN own ELSE Lower(own, "fields", t))
        /\ UNCHANGED <<fields, requests, options, next, given, dropped, rejected>>
    BY <1>0 DEF ConsumeResponseBody
  <1>2. /\ DOMAIN responses' = DOMAIN responses
        /\ \A r \in DOMAIN responses : r # p => responses'[r] = responses[r]
        /\ responses'[p] \in ResponseType
        /\ responses'[p].headers = responses[p].headers /\ responses'[p].trailers = responses[p].trailers
        /\ ~responses'[p].stash
    BY <1>1, ResponseFacts DEF ResponseType
  <1>3. /\ own \in [Kinds -> [Reps -> Nat]] /\ own["fields"] = owned["fields"]
        /\ own["options"] = owned["options"] /\ own["requests"] = owned["requests"]
        /\ own["responses"][p] = 0
        /\ \A r \in Reps : r # p => own["responses"][r] = owned["responses"][r]
    BY <1>0, <1>1, GiveResponse
  <1>4. t \in Reps \cup {None} /\ TrailersKept(t)
    BY <1>0, ResponseFacts DEF ResponseType, IInv, ResponsesOK, ResponseOK
  <1>5. /\ owned' \in [Kinds -> [Reps -> Nat]]
        /\ owned'["options"] = owned["options"] /\ owned'["requests"] = owned["requests"]
        /\ owned'["responses"] = own["responses"]
        /\ \A r \in Reps : owned'["fields"][r] = IF r = t THEN owned["fields"][r] + 1 ELSE owned["fields"][r]
    <2>1. CASE t = None
      <3>1. \A r \in Reps : r # t
        BY <2>1, RepsAreNumbers
      <3> QED BY <1>1, <1>3, <2>1, <3>1
    <2>2. CASE t # None
      <3>1. t \in Reps /\ owned' = [own EXCEPT !["fields"][t] = own["fields"][t] + 1]
        BY <1>1, <1>4, <2>2 DEF Lower
      <3> QED BY <1>3, <3>1, RepsAreNumbers
    <2> QED BY <2>1, <2>2
  <1>6. HandlesOK("fields", fields)' /\ FieldsStep
    <2>1. CASE t = None
      <3>1. owned'["fields"] = owned["fields"]
        BY <1>1, <1>3, <2>1
      <3> QED BY <1>1, <3>1, FieldsFrame
    <2>2. CASE t # None
      BY <1>1, <1>4, <1>5, <2>2, FieldsShared DEF TrailersKept
    <2> QED BY <2>1, <2>2
  <1>7. OneHandle("responses", responses)'
    BY <1>1, <1>2, <1>3, <1>5, ResponseFacts DEF OneHandle, Used, Owns
  <1>8. ResponsesStep
    BY <1>1, <1>2, <1>3, <1>5, ResponseFacts DEF ResponsesStep, SameResponse
  <1>9. \A r \in DOMAIN responses' : responses'[r] \in ResponseType
    BY <1>2, ResponseFacts
  <1> QED BY <1>1, <1>2, <1>5, <1>6, <1>7, <1>8, <1>9, OneResponseInv

\* A response enters its table, whoever made it.
LEMMA InsertResponseInv ==
  ASSUME IInv, NEW n \in Nat, n = next["responses"], n \in Reps, NEW data \in ResponseType, NEW es,
         responses' = Insert(responses, "responses", data),
         given' = [given EXCEPT !.responses = Insert(@, "responses", es)],
         UNCHANGED <<requests, options, dropped, rejected>>,
         next' \in [Kinds -> Nat \ {0}], next'["responses"] = n + 1,
         next'["requests"] = next["requests"], next'["options"] = next["options"],
         owned' \in [Kinds -> [Reps -> Nat]],
         owned'["options"] = owned["options"], owned'["requests"] = owned["requests"],
         \A r \in Reps : owned'["responses"][r] = IF r = n THEN owned["responses"][r] + 1 ELSE owned["responses"][r],
         \A f \in DOMAIN fields' : f \in Reps /\ IsFields(fields'[f]),
         HandlesOK("fields", fields)', FieldsStep,
         HeadersKept(data.headers, es)', TrailersKept(data.trailers)'
  PROVE  IInv'
  <1>1. /\ DOMAIN responses' = DOMAIN responses \cup {n} /\ responses'[n] = data
        /\ \A r \in DOMAIN responses : r # n => responses'[r] = responses[r]
    BY DEF Insert, Put
  <1>2. n \notin DOMAIN responses /\ owned["responses"][n] = 0
    BY ResponseFacts
  <1>3. /\ given' = [requests |-> given'.requests, responses |-> given'.responses]
        /\ given'.requests = given.requests
        /\ DOMAIN given'.responses = DOMAIN given.responses \cup {n} /\ given'.responses[n] = es
        /\ \A r \in DOMAIN given.responses : r # n => given'.responses[r] = given.responses[r]
    <2>1. given = [requests |-> given.requests, responses |-> given.responses]
      BY DEF IInv, GivenOK
    <2>2. given' = [given EXCEPT !.responses = Insert(given.responses, "responses", es)]
      OBVIOUS
    <2>3. PICK a, b, i : a = given.requests /\ b = given.responses /\ i = Insert(b, "responses", es)
      OBVIOUS
    <2>4. given' = [[requests |-> a, responses |-> b] EXCEPT !.responses = i]
      BY <2>1, <2>2, <2>3, Zenon
    <2>5. given' = [requests |-> a, responses |-> i]
      BY <2>4
    <2>6. /\ DOMAIN i = DOMAIN b \cup {n} /\ i[n] = es
          /\ \A r \in DOMAIN b : r # n => i[r] = b[r]
      BY <2>3 DEF Insert, Put
    <2> QED BY <2>3, <2>5, <2>6
  <1>4. TablesOK'
    <2>1. \A r \in DOMAIN responses' : r \in Reps /\ responses'[r] \in ResponseType
      BY <1>1, ResponseFacts
    <2> QED BY <2>1 DEF IInv, TablesOK, ResponseType
  <1>5. GivenOK'
    BY <1>1, <1>3 DEF IInv, GivenOK
  <1>6. HandlesOK("options", options)' /\ OptionsStep
    BY OptionsFrame
  <1>7. OneHandle("requests", requests)' /\ RequestsStep
    BY <1>3, RequestsFrame
  <1>8. OneHandle("responses", responses)'
    <2> SUFFICES ASSUME NEW r \in Reps
                 PROVE  /\ owned'["responses"][r] <= 1
                        /\ owned'["responses"][r] > 0 => r < n + 1 /\ r \in DOMAIN responses'
      BY DEF OneHandle, Used, Owns
    <2>1. r \in Nat
      BY RepsAreNumbers
    <2>2. CASE r = n
      BY <1>1, <1>2, <2>2
    <2>3. CASE r # n
      BY <1>1, <2>1, <2>3, ResponseFacts
    <2> QED BY <2>2, <2>3
  <1>9. ResponseOK(n)'
    <2>1. Used("responses", n)' /\ Owns("responses", n)'
      BY <1>2 DEF Used, Owns
    <2>2. HeadersKept(responses[n].headers, given.responses[n])'
      <3>1. responses'[n].headers = data.headers /\ given'.responses[n] = es
        BY <1>1, <1>3
      <3> QED BY <3>1
    <2>3. TrailersKept(responses[n].trailers)'
      <3>1. responses'[n].trailers = data.trailers
        BY <1>1
      <3> QED BY <3>1
    <2> QED BY <2>1, <2>2, <2>3 DEF ResponseOK
  <1>10. ResponsesStep
    <2>1. \A r \in DOMAIN responses : SameResponse(r)
      <3> SUFFICES ASSUME NEW r \in DOMAIN responses PROVE SameResponse(r)
        OBVIOUS
      <3>1. r # n /\ responses'[r] = responses[r] /\ given'.responses[r] = given.responses[r]
        BY <1>1, <1>2, <1>3 DEF IInv, GivenOK
      <3>2. owned["responses"][r] \in Nat /\ owned'["responses"][r] = owned["responses"][r]
        BY <3>1, ResponseFacts
      <3> QED BY <3>1, <3>2 DEF SameResponse
    <2> QED BY <1>1, <1>9, <2>1 DEF ResponsesStep
  <1> QED BY <1>4, <1>5, <1>6, <1>7, <1>8, <1>10, ParentsStay

\* A response the guest makes takes the handle on its headers.
LEMMA NewResponseInv ==
  ASSUME IInv, NEW f \in Reps, NewResponse(f)
  PROVE  IInv'
  <1>0. PICK n \in Nat : n = next["responses"]
    BY NextFacts, RepsAreNumbers DEF IInv
  <1>1. /\ n \in Reps /\ next' \in [Kinds -> Nat \ {0}] /\ next'["responses"] = n + 1
        /\ next'["fields"] = next["fields"] /\ next'["options"] = next["options"]
        /\ next'["requests"] = next["requests"]
    BY <1>0, NextFacts, RepsAreNumbers DEF IInv, NewResponse
  <1>2. Owns("fields", f) /\ UNCHANGED <<fields, requests, options, dropped, rejected>>
    BY DEF NewResponse
  <1>3. PICK data \in ResponseType :
          /\ data.headers = f /\ data.trailers = None
          /\ responses' = Insert(responses, "responses", data)
    <2>1. PICK data : data = ResponseData(f, 200, None)
      OBVIOUS
    <2>2. data \in ResponseType /\ data.headers = f /\ data.trailers = None
      BY <2>1, ResourcesAssumption DEF ResponseType, ResponseData
    <2>3. responses' = Insert(responses, "responses", data)
      BY <2>1 DEF NewResponse
    <2> QED BY <2>2, <2>3
  <1>4. /\ owned' \in [Kinds -> [Reps -> Nat]]
        /\ owned'["options"] = owned["options"] /\ owned'["requests"] = owned["requests"]
        /\ \A r \in Reps : owned'["fields"][r] = IF r = f THEN owned["fields"][r] - 1 ELSE owned["fields"][r]
        /\ \A r \in Reps : owned'["responses"][r] = IF r = n THEN owned["responses"][r] + 1 ELSE owned["responses"][r]
    <2>1. owned \in [Kinds -> [Reps -> Nat]] /\ owned["fields"][f] - 1 \in Nat
      BY <1>2, RepsAreNumbers DEF IInv, TablesOK, Owns
    <2>2. PICK own : own = Lift(owned, "fields", f)
      OBVIOUS
    <2>3. /\ own \in [Kinds -> [Reps -> Nat]]
          /\ own["responses"] = owned["responses"] /\ own["options"] = owned["options"]
          /\ own["requests"] = owned["requests"]
          /\ \A r \in Reps : own["fields"][r] = IF r = f THEN owned["fields"][r] - 1 ELSE owned["fields"][r]
      BY <2>1, <2>2, RepsAreNumbers DEF Lift
    <2>4. owned' = Lower(own, "responses", n)
      BY <1>0, <2>2 DEF NewResponse
    <2>5. /\ owned' \in [Kinds -> [Reps -> Nat]]
          /\ owned'["requests"] = own["requests"] /\ owned'["fields"] = own["fields"]
          /\ owned'["options"] = own["options"]
          /\ \A r \in Reps : owned'["responses"][r] = IF r = n THEN own["responses"][r] + 1 ELSE own["responses"][r]
      BY <1>1, <2>3, <2>4, RepsAreNumbers DEF Lower
    <2> QED BY <2>3, <2>5
  <1>5. HandlesOK("fields", fields)' /\ FieldsStep
    <2>1. owned \in [Kinds -> [Reps -> Nat]]
      BY DEF IInv, TablesOK
    <2>2. \A r \in Reps : owned'["fields"][r] \in Nat /\ owned'["fields"][r] <= owned["fields"][r]
      BY <1>4, <2>1, RepsAreNumbers
    <2> QED BY <1>1, <1>2, <2>2, FieldsFewer
  <1>6. PICK es : es = EntriesOf(f)
    OBVIOUS
  <1>7. HeadersKept(f, es)'
    <2>1. owned'["fields"][f] = owned["fields"][f] - 1
      BY <1>4
    <2>2. HeadersKept(f, EntriesOf(f))'
      BY <1>1, <1>2, <2>1, TakenFields
    <2>3. EntriesOf(f)' = es
      BY <1>2, <1>6 DEF EntriesOf
    <2> QED BY <2>2, <2>3
  <1>8. TrailersKept(None)'
    BY DEF TrailersKept
  <1>9. given' = [given EXCEPT !.responses = Insert(@, "responses", es)]
    BY <1>6 DEF NewResponse
  <1>10. \A r \in DOMAIN fields' : r \in Reps /\ IsFields(fields'[r])
    BY <1>2 DEF IInv, TablesOK
  <1>11. HeadersKept(data.headers, es)' /\ TrailersKept(data.trailers)'
    BY <1>3, <1>7, <1>8
  <1> QED BY <1>0, <1>1, <1>2, <1>3, <1>4, <1>5, <1>9, <1>10, <1>11, InsertResponseInv

\* The fields handle makes for the caller's headers and trailers are on new reps;
\* nobody has a handle on them, and the trailers are flagged.
LEMMA ReplyFields ==
  ASSUME IInv, NEW n \in Nat, n = next["fields"], NEW es, NEW b \in BOOLEAN, InsertReplyFields(es, b),
         dropped' = dropped, owned'["fields"] = owned["fields"],
         next'["fields"] = IF b THEN n + 2 ELSE n + 1
  PROVE  /\ n \in Reps /\ (b => n + 1 \in Reps)
         /\ \A f \in DOMAIN fields' : f \in Reps /\ IsFields(fields'[f])
         /\ HandlesOK("fields", fields)' /\ FieldsStep
         /\ HeadersKept(n, es)' /\ (b => TrailersKept(n + 1)')
  <1>0. PICK reps : reps = IF b THEN {n, n + 1} ELSE {n}
    OBVIOUS
  <1>1. /\ \A r \in reps : r <= MaxRep["fields"]
        /\ fields' = [r \in DOMAIN fields \cup reps |->
                       IF r \in reps THEN FieldsData(es, r = n + 1) ELSE fields[r]]
    BY <1>0 DEF InsertReplyFields
  <1>2. n > 0 /\ \A r \in reps : r \in Reps /\ r \in Nat /\ r >= n /\ r < next'["fields"]
    <2>1. n > 0 /\ MaxRep["fields"] \in Nat
      BY ResourcesAssumption, RepsAreNumbers DEF IInv, TablesOK
    <2>2. \A r \in reps : r \in 1 .. MaxRep["fields"]
      BY <1>0, <1>1, <2>1
    <2>3. \A r \in reps : r \in Reps
      BY <2>2, RepsAreNumbers DEF Reps
    <2>4. \A r \in reps : r \in Nat /\ r >= n /\ r < next'["fields"]
      BY <1>0
    <2> QED BY <2>1, <2>3, <2>4
  <1>3. /\ DOMAIN fields' = DOMAIN fields \cup reps
        /\ \A r \in DOMAIN fields : r \notin reps => fields'[r] = fields[r]
    BY <1>1
  <1>4. \A r \in reps : fields'[r].entries = es /\ IsFields(fields'[r]) /\ (r = n + 1 => fields'[r].immutable)
    <2> SUFFICES ASSUME NEW r \in reps
                 PROVE  fields'[r].entries = es /\ IsFields(fields'[r]) /\ (r = n + 1 => fields'[r].immutable)
      OBVIOUS
    <2>1. PICK imm \in BOOLEAN : imm <=> r = n + 1
      OBVIOUS
    <2>2. imm = (r = n + 1)
      BY <2>1
    <2>3. fields'[r] = FieldsData(es, r = n + 1)
      BY <1>1, Zenon
    <2>4. fields'[r] = FieldsData(es, imm)
      BY <2>2, <2>3, Zenon
    <2>5. IsFields(fields'[r])
      BY <2>4 DEF IsFields
    <2>6. fields'[r].entries = es /\ fields'[r].immutable = imm
      BY <2>4, PartFacts
    <2> QED BY <2>1, <2>5, <2>6
  <1>5. /\ owned["fields"] \in [Reps -> Nat]
        /\ \A r \in DOMAIN fields : r \in Reps /\ r \in Nat /\ r < n /\ IsFields(fields[r])
        /\ \A r \in Reps : owned["fields"][r] > 0 =>
             r < n /\ (r \in DOMAIN fields \/ <<"fields", r>> \in dropped)
        /\ \A r \in DOMAIN fields : ~fields[r].immutable => owned["fields"][r] <= 1
    BY RepsAreNumbers DEF IInv, TablesOK, HandlesOK, Used, Valid, Owns
  <1>6. /\ \A r \in reps : r \notin DOMAIN fields /\ owned["fields"][r] = 0
        /\ \A r \in DOMAIN fields : r \notin reps
    <2>1. ASSUME NEW r \in reps PROVE r \notin DOMAIN fields /\ owned["fields"][r] = 0
      <3>1. r \in Reps /\ r \in Nat /\ ~(r < n) /\ owned["fields"][r] \in Nat
        BY <1>2, <1>5
      <3>2. r \notin DOMAIN fields /\ ~(owned["fields"][r] > 0)
        BY <1>5, <3>1
      <3> QED BY <3>1, <3>2
    <2> QED BY <2>1
  <1>7. \A f \in DOMAIN fields' : f \in Reps /\ IsFields(fields'[f])
    BY <1>2, <1>3, <1>4, <1>5
  <1>8. HandlesOK("fields", fields)'
    <2>1. \A r \in DOMAIN fields' : Used("fields", r)'
      BY <1>2, <1>3, <1>5 DEF Used
    <2>2. \A r \in Reps : Owns("fields", r)' => Used("fields", r)' /\ Valid("fields", fields, r)'
      <3> SUFFICES ASSUME NEW r \in Reps, owned["fields"][r] > 0
                   PROVE  r < next'["fields"] /\ (r \in DOMAIN fields' \/ <<"fields", r>> \in dropped')
        BY DEF Used, Valid, Owns
      <3>1. r \in Nat
        BY RepsAreNumbers
      <3> QED BY <1>3, <1>5, <3>1
    <2>3. \A r \in DOMAIN fields' : ~fields'[r].immutable => owned'["fields"][r] <= 1
      BY <1>3, <1>5, <1>6
    <2> QED BY <2>1, <2>2, <2>3 DEF HandlesOK
  <1>9. FieldsStep
    <2>1. next["fields"] <= next'["fields"] /\ dropped \subseteq dropped'
      OBVIOUS
    <2>2. \A f \in DOMAIN fields' : f \in DOMAIN fields \/ ~Used("fields", f)
      BY <1>2, <1>3 DEF Used
    <2>3. \A f \in DOMAIN fields : /\ f \in DOMAIN fields' /\ fields'[f] = fields[f]
                                   /\ owned'["fields"][f] <= owned["fields"][f]
      BY <1>3, <1>5, <1>6
    <2> QED BY <2>1, <2>2, <2>3 DEF FieldsStep
  <1>10. n \in reps /\ (b => n + 1 \in reps)
    BY <1>0
  <1>11. HeadersKept(n, es)'
    <2>1. n \in DOMAIN fields' /\ fields'[n].entries = es /\ n < next'["fields"] /\ ~Owns("fields", n)'
      BY <1>2, <1>3, <1>4, <1>6, <1>10 DEF Owns
    <2> QED BY <2>1 DEF HeadersKept, Kept, Used, Valid
  <1>12. b => TrailersKept(n + 1)'
    <2>1. b => n + 1 \in DOMAIN fields' /\ fields'[n + 1].immutable /\ n + 1 < next'["fields"]
      BY <1>2, <1>3, <1>4, <1>10
    <2> QED BY <2>1 DEF TrailersKept, Used, Valid
  <1> QED BY <1>2, <1>7, <1>8, <1>9, <1>10, <1>11, <1>12

\* handle returns a response made from the caller's head.
LEMMA HandleReturnsInv ==
  ASSUME IInv, NEW st \in StatusCodes, NEW es, NEW b \in BOOLEAN, HandleReturns(st, es, b)
  PROVE  IInv'
  <1>0. PICK n \in Nat, f \in Nat : n = next["responses"] /\ f = next["fields"]
    BY NextFacts, RepsAreNumbers DEF IInv
  <1>1. PICK t : t = IF b THEN f + 1 ELSE None
    OBVIOUS
  <1>2. /\ CanInsert("responses") /\ InsertReplyFields(es, b)
        /\ UNCHANGED <<requests, options, dropped, rejected>>
        /\ given' = [given EXCEPT !.responses = Insert(@, "responses", es)]
        /\ responses' = Insert(responses, "responses", ResponseData(f, st, t))
        /\ next' = [Allocated("responses") EXCEPT !["fields"] = IF b THEN f + 2 ELSE f + 1]
        /\ owned' = Lower(owned, "responses", n)
    BY <1>0, <1>1 DEF HandleReturns
  <1>3. /\ n \in Reps /\ next' \in [Kinds -> Nat \ {0}] /\ next'["responses"] = n + 1
        /\ next'["fields"] = (IF b THEN f + 2 ELSE f + 1)
        /\ next'["options"] = next["options"] /\ next'["requests"] = next["requests"]
    BY <1>0, <1>2, NextFacts, RepsAreNumbers DEF IInv
  <1>4. /\ owned' \in [Kinds -> [Reps -> Nat]] /\ owned'["fields"] = owned["fields"]
        /\ owned'["options"] = owned["options"] /\ owned'["requests"] = owned["requests"]
        /\ \A r \in Reps : owned'["responses"][r] = IF r = n THEN owned["responses"][r] + 1 ELSE owned["responses"][r]
    BY <1>2, <1>3, RepsAreNumbers DEF IInv, TablesOK, Lower
  <1>5. /\ f \in Reps /\ (b => f + 1 \in Reps)
        /\ \A r \in DOMAIN fields' : r \in Reps /\ IsFields(fields'[r])
        /\ HandlesOK("fields", fields)' /\ FieldsStep
        /\ HeadersKept(f, es)' /\ (b => TrailersKept(f + 1)')
    BY <1>0, <1>2, <1>3, <1>4, ReplyFields
  <1>6. t \in Reps \cup {None} /\ TrailersKept(t)'
    BY <1>1, <1>5 DEF TrailersKept
  <1>7. PICK data : data = ResponseData(f, st, t)
    OBVIOUS
  <1>8. data \in ResponseType /\ data.headers = f /\ data.trailers = t
    BY <1>5, <1>6, <1>7 DEF ResponseType, ResponseData
  <1>9. responses' = Insert(responses, "responses", data)
    BY <1>2, <1>7
  <1>10. HeadersKept(data.headers, es)' /\ TrailersKept(data.trailers)'
    BY <1>5, <1>6, <1>8
  <1> QED BY <1>0, <1>2, <1>3, <1>4, <1>5, <1>8, <1>9, <1>10, InsertResponseInv

\* Minting fails: the fields stay behind, and nothing else changes.
LEMMA HandleMintFailsInv ==
  ASSUME IInv, NEW es, NEW b \in BOOLEAN, HandleMintFails(es, b)
  PROVE  IInv'
  <1> USE DEF history
  <1>0. PICK f \in Nat : f = next["fields"]
    BY NextFacts, RepsAreNumbers DEF IInv
  <1>1. /\ InsertReplyFields(es, b)
        /\ next' = [next EXCEPT !["fields"] = IF b THEN f + 2 ELSE f + 1]
        /\ UNCHANGED <<requests, responses, options, owned, history>>
    BY <1>0 DEF HandleMintFails
  <1>2. /\ next' \in [Kinds -> Nat \ {0}] /\ next'["fields"] = (IF b THEN f + 2 ELSE f + 1)
        /\ next'["options"] = next["options"] /\ next'["requests"] = next["requests"]
        /\ next'["responses"] = next["responses"]
    BY <1>0, <1>1, RepsAreNumbers DEF IInv, TablesOK
  <1>3. /\ \A r \in DOMAIN fields' : r \in Reps /\ IsFields(fields'[r])
        /\ HandlesOK("fields", fields)' /\ FieldsStep
    BY <1>0, <1>1, <1>2, ReplyFields
  <1>4. TablesOK'
    BY <1>1, <1>2, <1>3 DEF IInv, TablesOK
  <1>5. GivenOK'
    BY <1>1 DEF IInv, GivenOK
  <1>6. HandlesOK("options", options)' /\ OptionsStep
    BY <1>1, <1>2, OptionsFrame
  <1>7. OneHandle("requests", requests)' /\ RequestsStep
    BY <1>1, <1>2, RequestsFrame
  <1>8. OneHandle("responses", responses)' /\ ResponsesStep
    BY <1>1, <1>2, ResponsesFrame
  <1> QED BY <1>3, <1>4, <1>5, <1>6, <1>7, <1>8, ParentsStay


\* The steps that change no table and no handle.
LEMMA StutterInv ==
  ASSUME IInv, UNCHANGED <<fields, requests, responses, options, next, owned, given, dropped, rejected>>
  PROVE  IInv'
  BY DEF IInv, TablesOK, IsFields, GivenOK, HandlesOK, OneHandle, RequestsOK, ResponsesOK, RequestOK,
         ResponseOK, HeadersKept, OptionsKept, TrailersKept, Kept, Used, Valid, Owns

\* What the guest does with fields.
LEMMA GuestFieldsInv == IInv /\ GuestFields => IInv'
  <1> SUFFICES ASSUME IInv, GuestFields PROVE IInv'
    OBVIOUS
  <1>0. \A es : IsFields(FieldsData(es, FALSE))
    BY DEF IsFields
  <1>1. ASSUME NEW es, NewFields(es) PROVE IInv'
    <2>1. PICK data : data = FieldsData(es, FALSE)
      OBVIOUS
    <2>2. IsFields(data)
      BY <1>0, <2>1, Zenon
    <2>3. fields' = Insert(fields, "fields", data)
      BY <1>1, <2>1, Zenon DEF NewFields
    <2> HIDE <2>1
    <2> QED BY <1>1, <2>2, <2>3, InsertFieldsInv DEF NewFields
  <1>2. ASSUME NEW f \in Reps, CloneFields(f) PROVE IInv'
    <2>1. PICK data : data = FieldsData(EntriesOf(f), FALSE)
      OBVIOUS
    <2>2. IsFields(data)
      BY <1>0, <2>1, Zenon
    <2>3. fields' = Insert(fields, "fields", data)
      BY <1>2, <2>1, Zenon DEF CloneFields
    <2> HIDE <2>1
    <2> QED BY <1>2, <2>2, <2>3, InsertFieldsInv DEF CloneFields
  <1>3. ASSUME NEW f \in Reps, NEW n, NEW vs, SetField(f, n, vs) PROVE IInv'
    BY <1>3, MutateInv DEF SetField
  <1>4. ASSUME NEW f \in Reps, NEW n, DeleteField(f, n) PROVE IInv'
    BY <1>4, MutateInv DEF DeleteField
  <1>5. ASSUME NEW f \in Reps, NEW n, NEW v, AppendField(f, n, v) PROVE IInv'
    BY <1>5, MutateInv DEF AppendField
  <1> QED BY <1>1, <1>2, <1>3, <1>4, <1>5, DropFieldsInv DEF GuestFields

\* What it does with request-options.
LEMMA GuestOptionsInv == IInv /\ GuestOptions => IInv'
  <1> SUFFICES ASSUME IInv, GuestOptions PROVE IInv'
    OBVIOUS
  <1>1. ASSUME NewOptions PROVE IInv'
    <2>1. PICK data : data = [timeouts |-> NoTimeouts, immutable |-> FALSE]
      OBVIOUS
    <2>2. data \in [timeouts : Timeouts, immutable : BOOLEAN]
      BY <2>1, ResourcesAssumption
    <2>3. options' = Insert(options, "options", data)
      BY <1>1, <2>1, Zenon DEF NewOptions
    <2> HIDE <2>1
    <2> QED BY <1>1, <2>2, <2>3, InsertOptionsInv DEF NewOptions
  <1>2. ASSUME NEW o \in Reps, CloneOptions(o) PROVE IInv'
    <2>1. PICK data : data = [timeouts |-> TimeoutsOf(o), immutable |-> FALSE]
      OBVIOUS
    <2>2. TimeoutsOf(o) \in Timeouts
      BY ResourcesAssumption DEF IInv, TablesOK, TimeoutsOf
    <2>3. data \in [timeouts : Timeouts, immutable : BOOLEAN]
      BY <2>1, <2>2
    <2>4. options' = Insert(options, "options", data)
      BY <1>2, <2>1, Zenon DEF CloneOptions
    <2> HIDE <2>1
    <2> QED BY <1>2, <2>3, <2>4, InsertOptionsInv DEF CloneOptions
  <1> QED BY <1>1, <1>2, SetTimeoutsInv, DropOptionsInv DEF GuestOptions

\* With requests, handle included.
LEMMA GuestRequestsInv == IInv /\ GuestRequests => IInv'
  <1> SUFFICES ASSUME IInv, GuestRequests PROVE IInv'
    OBVIOUS
  <1>1. ASSUME NEW q \in DOMAIN requests, GetHeaders(q) PROVE IInv'
    <2>0. PICK f : f = requests[q].headers
      OBVIOUS
    <2>1. /\ fields' = Flagged(fields, f) /\ owned' = Lower(owned, "fields", f)
          /\ UNCHANGED <<requests, responses, options, next, inbound, history>>
      BY <1>1, <2>0 DEF GetHeaders
    <2>2. f \in Reps /\ RequestOK(q)
      BY <2>0, RequestFacts DEF IInv, RequestsOK
    <2>3. Used("fields", f) /\ Valid("fields", fields, f)
      BY <2>0, <2>2 DEF RequestOK, HeadersKept, Kept
    <2> HIDE <2>0
    <2> QED BY <2>1, <2>2, <2>3, ShareFieldsInv
  <1>2. ASSUME NEW q \in DOMAIN requests, ConsumeBody(q) PROVE IInv'
    BY <1>2, TakeStreamsInv DEF ConsumeBody, history
  <1>3. ASSUME NEW q \in DOMAIN requests, Handle(q) PROVE IInv'
    BY <1>3, TakeStreamsInv DEF Handle
  <1> QED BY <1>1, <1>2, <1>3, NewRequestInv, SetLineInv, GetOptionsInv, DropRequestInv, HandleRejectedInv
          DEF GuestRequests

\* With responses.
LEMMA GuestResponsesInv == IInv /\ GuestResponses => IInv'
  <1> SUFFICES ASSUME IInv, GuestResponses PROVE IInv'
    OBVIOUS
  <1>1. ASSUME NEW p \in DOMAIN responses, GetResponseHeaders(p) PROVE IInv'
    <2>0. PICK f : f = responses[p].headers
      OBVIOUS
    <2>1. /\ fields' = Flagged(fields, f) /\ owned' = Lower(owned, "fields", f)
          /\ UNCHANGED <<requests, responses, options, next, inbound, history>>
      BY <1>1, <2>0 DEF GetResponseHeaders
    <2>2. f \in Reps /\ ResponseOK(p)
      BY <2>0, ResponseFacts DEF IInv, ResponsesOK, ResponseType
    <2>3. Used("fields", f) /\ Valid("fields", fields, f)
      BY <2>0, <2>2 DEF ResponseOK, HeadersKept, Kept
    <2> HIDE <2>0
    <2> QED BY <2>1, <2>2, <2>3, ShareFieldsInv
  <1> QED BY <1>1, NewResponseInv, SetStatusCodeInv, ConsumeResponseBodyInv, DropResponseInv
          DEF GuestResponses

\* And what the caller's answer does.
LEMMA CallerAnswersInv == IInv /\ CallerAnswers => IInv'
  <1> SUFFICES ASSUME IInv, CallerAnswers PROVE IInv'
    OBVIOUS
  <1>1. ASSUME HandleFails PROVE IInv'
    BY <1>1, StutterInv DEF HandleFails, tables, history
  <1> QED BY <1>1, HandleReturnsInv, HandleMintFailsInv DEF CallerAnswers

-----------------------------------------------------------------------------
(* The theorems.                                                           *)

(* The invariant of the tables: a rep is handed out once, an entry that is *)
(* not flagged immutable has one handle at most, and none once a request   *)
(* or a response has taken it (Table, get_headers, get_options).           *)
THEOREM Invariance == Spec => []IInv
  <1>1. IInv /\ [Next]_vars => IInv'
    <2> SUFFICES ASSUME IInv, [Next]_vars PROVE IInv'
      OBVIOUS
    <2>1. CASE UNCHANGED vars
      BY <2>1, StutterInv DEF vars, tables, history
    <2> QED BY <2>1, GuestFieldsInv, GuestOptionsInv, GuestRequestsInv, GuestResponsesInv,
               CallerAnswersInv DEF Next
  <1> QED BY <1>1, InitInv, PTL DEF Spec

(* What a request or a response was constructed with is what it still has, *)
(* whatever handles get-headers and get-options have given out since.      *)
THEOREM FrozenWhileHeld == Spec => []ContentsFrozen
  <1>1. IInv => ContentsFrozen
    <2> SUFFICES ASSUME IInv PROVE ContentsFrozen
      OBVIOUS
    <2>1. ASSUME NEW q \in DOMAIN requests
          PROVE  /\ requests[q].headers \in DOMAIN fields
                      => fields[requests[q].headers].entries = given.requests[q].headers
                 /\ requests[q].options \in DOMAIN options
                      => options[requests[q].options].timeouts = given.requests[q].timeouts
      <3>1. RequestOK(q)
        BY DEF IInv, RequestsOK
      <3>2. requests[q].options \in DOMAIN options => requests[q].options # None
        BY RepsAreNumbers DEF IInv, TablesOK
      <3> QED BY <3>1, <3>2 DEF RequestOK, HeadersKept, OptionsKept
    <2>2. ASSUME NEW p \in DOMAIN responses
          PROVE  responses[p].headers \in DOMAIN fields
                   => fields[responses[p].headers].entries = given.responses[p]
      BY DEF IInv, ResponsesOK, ResponseOK, HeadersKept
    <2> QED BY <2>1, <2>2 DEF ContentsFrozen
  <1> QED BY <1>1, Invariance, PTL

(* A handle or a reference is on an entry that is there, unless the guest  *)
(* has dropped a handle on the same rep; a request or a response has one   *)
(* handle at most, on an entry that is there.                              *)
THEOREM ValidUntilDropped == Spec => []GoneOnlyByDrop
  <1>1. IInv => GoneOnlyByDrop
    <2> SUFFICES ASSUME IInv PROVE GoneOnlyByDrop
      OBVIOUS
    <2>1. /\ \A f \in Reps : Owns("fields", f) => Valid("fields", fields, f)
          /\ \A o \in Reps : Owns("options", o) => Valid("options", options, o)
      BY DEF IInv, HandlesOK
    <2>2. \A q \in DOMAIN requests :
            /\ Valid("fields", fields, requests[q].headers)
            /\ requests[q].options # None => Valid("options", options, requests[q].options)
      BY DEF IInv, RequestsOK, RequestOK, HeadersKept, OptionsKept, Kept
    <2>3. \A p \in DOMAIN responses : Valid("fields", fields, responses[p].headers)
      BY DEF IInv, ResponsesOK, ResponseOK, HeadersKept, Kept
    <2>4. \A q \in Reps :
            /\ owned["requests"][q] <= 1 /\ owned["responses"][q] <= 1
            /\ Owns("requests", q) => q \in DOMAIN requests
            /\ Owns("responses", q) => q \in DOMAIN responses
      BY DEF IInv, OneHandle
    <2> QED BY <2>1, <2>2, <2>3, <2>4 DEF GoneOnlyByDrop, Valid
  <1> QED BY <1>1, Invariance, PTL

(* A request or a response the guest has given away holds no body stream   *)
(* and no trailers future, unless handle refused to encode its head.       *)
THEOREM StreamsLeaveWithTheHandle == Spec => []GivenAwayHoldsNoStream
  <1>1. IInv => GivenAwayHoldsNoStream
    BY DEF IInv, RequestsOK, RequestOK, ResponsesOK, ResponseOK, GivenAwayHoldsNoStream
  <1> QED BY <1>1, Invariance, PTL

-----------------------------------------------------------------------------
(* What a filter leaves.                                                   *)

\* f lists n positions, each of I once and in order.
InOrder(f, n, I) ==
  /\ f \in [1..n -> I]
  /\ \A a, b \in 1..n : a < b => f[a] < f[b]
  /\ \A i \in I : \E a \in 1..n : f[a] = i

\* There is one such listing, that by rank.
LEMMA Listing ==
  ASSUME NEW I \in SUBSET Nat, NEW n \in Nat, NEW f, InOrder(f, n, I)
  PROVE  /\ IsFiniteSet(I) /\ Cardinality(I) = n
         /\ \A a \in 1..n : Rank(I, f[a]) = a /\ Nth(I, a) = f[a]
  <1>0. /\ f \in [1..n -> I] /\ \A a, b \in 1..n : a < b => f[a] < f[b]
        /\ \A i \in I : \E a \in 1..n : f[a] = i
    BY DEF InOrder
  <1>1. \A a, b \in 1..n : f[a] \in Nat /\ (f[a] <= f[b] <=> a <= b)
    <2>1. ASSUME NEW a \in 1..n, NEW b \in 1..n PROVE f[a] \in Nat /\ f[b] \in Nat
      BY <1>0
    <2>2. ASSUME NEW a \in 1..n, NEW b \in 1..n PROVE (a < b => f[a] < f[b]) /\ (b < a => f[b] < f[a])
      BY <1>0
    <2> QED BY <2>1, <2>2
  <1>2. ASSUME NEW a \in 0..n, NEW T, T = {f[b] : b \in 1..a}
        PROVE  IsFiniteSet(T) /\ Cardinality(T) = a
    <2>1. PICK g : g = [b \in 1..a |-> f[b]]
      OBVIOUS
    <2>2. g \in [1..a -> T] /\ (\A t \in T : \E b \in 1..a : g[b] = t)
      BY <1>0, <1>2, <2>1
    <2>3. \A b, c \in 1..a : g[b] = g[c] => b = c
      BY <1>1, <2>1
    <2>4. ExistsBijection(1..a, T)
      BY <2>2, <2>3 DEF ExistsBijection, Bijection, Injection, Surjection, IsInjective
    <2>5. IsFiniteSet(1..a) /\ Cardinality(1..a) = a
      BY FS_Interval
    <2> QED BY <2>4, <2>5, FS_Bijection
  <1>3. I = {f[b] : b \in 1..n}
    BY <1>0
  <1>4. IsFiniteSet(I) /\ Cardinality(I) = n
    <2>1. n \in 0..n
      OBVIOUS
    <2> QED BY <1>2, <1>3, <2>1
  <1>5. ASSUME NEW a \in 1..n PROVE Rank(I, f[a]) = a
    <2>1. {j \in I : j <= f[a]} = {f[b] : b \in 1..a}
      <3>1. ASSUME NEW b \in 1..n PROVE f[b] <= f[a] <=> b \in 1..a
        BY <1>1
      <3>2. 1..a \subseteq 1..n
        OBVIOUS
      <3> QED BY <1>3, <3>1, <3>2
    <2>2. a \in 0..n
      OBVIOUS
    <2> QED BY <1>2, <2>1, <2>2 DEF Rank
  <1>6. ASSUME NEW a \in 1..n PROVE Nth(I, a) = f[a]
    <2>1. \A i \in I : Rank(I, i) = a => i = f[a]
      BY <1>3, <1>5
    <2>2. f[a] \in I /\ Rank(I, f[a]) = a
      BY <1>0, <1>5
    <2> QED BY <2>1, <2>2 DEF Nth
  <1> QED BY <1>4, <1>5, <1>6

\* The rank lists the positions, each once and in order.
LEMMA RankFacts ==
  ASSUME NEW I \in SUBSET Nat, IsFiniteSet(I)
  PROVE  /\ Cardinality(I) \in Nat
         /\ \A n \in 1..Cardinality(I) : Nth(I, n) \in I /\ Rank(I, Nth(I, n)) = n
         /\ \A i \in I : Rank(I, i) \in 1..Cardinality(I) /\ Nth(I, Rank(I, i)) = i
         /\ \A m, n \in 1..Cardinality(I) : m < n => Nth(I, m) < Nth(I, n)
  <1>0. \A i \in I : i \in Nat
    OBVIOUS
  <1>1. PICK c : c = Cardinality(I) /\ c \in Nat
    BY FS_CardinalityType
  <1>2. ASSUME NEW i \in I
        PROVE  /\ IsFiniteSet({j \in I : j <= i}) /\ Rank(I, i) \in 1..c
               /\ \A k \in I : i < k => Rank(I, i) < Rank(I, k)
    <2>1. PICK T : T = {j \in I : j <= i}
      OBVIOUS
    <2>2. T \in SUBSET I /\ T # {} /\ i \in T
      BY <2>1
    <2>3. IsFiniteSet(T) /\ Cardinality(T) <= c /\ Cardinality(T) \in Nat /\ Cardinality(T) # 0
      BY <1>1, <2>2, FS_Subset, FS_CardinalityType, FS_EmptySet
    <2>4. Rank(I, i) \in 1..c
      BY <1>1, <2>1, <2>3 DEF Rank
    <2>5. ASSUME NEW k \in I, i < k PROVE Rank(I, i) < Rank(I, k)
      <3>1. PICK U : U = {j \in I : j <= k}
        OBVIOUS
      <3>2. U \in SUBSET I /\ T \in SUBSET U /\ k \in U /\ k \notin T
        <4>1. \A j \in I : j \in Nat /\ (j <= i => j <= k)
          BY <1>0, <2>5
        <4>2. ~(k <= i) /\ k <= k
          BY <1>0, <2>5
        <4> QED BY <2>1, <3>1, <4>1, <4>2
      <3>3. IsFiniteSet(U) /\ Cardinality(U) \in Nat
        BY <3>2, FS_Subset, FS_CardinalityType
      <3>4. Cardinality(T) <= Cardinality(U) /\ Cardinality(U) # Cardinality(T)
        BY <3>2, <3>3, FS_Subset
      <3> QED BY <2>1, <2>3, <3>1, <3>3, <3>4 DEF Rank
    <2> QED BY <2>1, <2>3, <2>4, <2>5
  <1>3. PICK g : g = [i \in I |-> Rank(I, i)]
    OBVIOUS
  <1>4. g \in Injection(I, 1..c)
    <2>1. ASSUME NEW i \in I, NEW k \in I, g[i] = g[k] PROVE i = k
      <3>1. Rank(I, i) = Rank(I, k) /\ Rank(I, i) \in Nat /\ i \in Nat /\ k \in Nat
        <4>1. Rank(I, i) \in 1..c
          BY <1>2
        <4> QED BY <1>0, <1>1, <1>3, <2>1, <4>1
      <3>2. i < k => Rank(I, i) < Rank(I, k)
        BY <1>2
      <3>3. k < i => Rank(I, k) < Rank(I, i)
        BY <1>2
      <3> QED BY <3>1, <3>2, <3>3
    <2>2. g \in [I -> 1..c]
      BY <1>2, <1>3
    <2> QED BY <2>1, <2>2 DEF Injection, IsInjective
  <1>5. \A n \in 1..c : \E i \in I : Rank(I, i) = n
    <2>1. IsFiniteSet(1..c) /\ Cardinality(1..c) = c
      BY <1>1, FS_Interval
    <2>2. g \in Surjection(I, 1..c)
      BY <1>1, <1>4, <2>1, FS_Injection
    <2> QED BY <1>3, <2>2 DEF Surjection
  <1>6. \A i, k \in I : Rank(I, i) = Rank(I, k) => i = k
    BY <1>3, <1>4 DEF Injection, IsInjective
  <1>7. \A n \in 1..c : Nth(I, n) \in I /\ Rank(I, Nth(I, n)) = n
    BY <1>5 DEF Nth
  <1>8. ASSUME NEW i \in I PROVE Nth(I, Rank(I, i)) = i
    BY <1>2, <1>6, <1>7
  <1>9. ASSUME NEW m \in 1..c, NEW n \in 1..c, m < n PROVE Nth(I, m) < Nth(I, n)
    <2>1. PICK i, k \in I : i = Nth(I, m) /\ k = Nth(I, n) /\ Rank(I, i) = m /\ Rank(I, k) = n
      BY <1>7
    <2>2. k < i => Rank(I, k) < Rank(I, i)
      BY <1>2
    <2>3. i # k /\ i \in Nat /\ k \in Nat /\ ~(n < m)
      BY <1>0, <1>1, <1>9, <2>1
    <2> QED BY <2>1, <2>2, <2>3
  <1> QED BY <1>1, <1>2, <1>7, <1>8, <1>9

\* Positions of a sequence.
LEMMA PickedFacts ==
  ASSUME NEW S, NEW s \in Seq(S), NEW I \in SUBSET (1..Len(s))
  PROVE  /\ I \in SUBSET Nat /\ IsFiniteSet(I) /\ Cardinality(I) \in Nat
         /\ Picked(s, I) \in Seq(S) /\ Len(Picked(s, I)) = Cardinality(I)
         /\ \A n \in 1..Cardinality(I) : Picked(s, I)[n] = s[Nth(I, n)] /\ Nth(I, n) \in I
  <1>1. I \in SUBSET Nat /\ IsFiniteSet(I)
    <2>1. IsFiniteSet(1..Len(s)) /\ 1..Len(s) \subseteq Nat
      BY FS_Interval
    <2> QED BY <2>1, FS_Subset
  <1>2. Cardinality(I) \in Nat /\ \A n \in 1..Cardinality(I) : Nth(I, n) \in I
    BY <1>1, RankFacts
  <1>3. \A n \in 1..Cardinality(I) : s[Nth(I, n)] \in S
    <2>1. \A i \in I : i \in 1..Len(s)
      OBVIOUS
    <2>2. \A i \in 1..Len(s) : s[i] \in S
      OBVIOUS
    <2> QED BY <1>2, <2>1, <2>2
  <1>4. Picked(s, I) \in [1..Cardinality(I) -> S]
    BY <1>3 DEF Picked
  <1> QED BY <1>1, <1>2, <1>4 DEF Picked

-----------------------------------------------------------------------------
(* What fields read after a set.                                           *)

\* The positions whose names match, and the others.
Hits(es, m)   == {i \in DOMAIN es : Matches(m, es[i].name)}
Misses(es, n) == {i \in DOMAIN es : ~Matches(n, es[i].name)}

\* After a set, `new` is what is picked at D, with the values appended to it.
AfterSet(es, n, vs, D, new) ==
  /\ D \in SUBSET (1..Len(es)) /\ D \in SUBSET Nat /\ IsFiniteSet(D) /\ Cardinality(D) \in Nat
  /\ new \in Seq(Entry) /\ Len(new) = Cardinality(D) + Len(vs)
  /\ \A i \in 1..Cardinality(D) : new[i] = es[Nth(D, i)] /\ Nth(D, i) \in D
  /\ \A i \in 1..Len(vs) : new[Cardinality(D) + i] = [name |-> n, value |-> vs[i]]

\* It is so, and deleting leaves entries too.
LEMMA SetFacts ==
  ASSUME NEW es \in Seq(Entry), NEW n \in Names, NEW vs \in Seq(Values)
  PROVE  /\ AfterSet(es, n, vs, Misses(es, n), SetEntries(es, n, vs))
         /\ DeleteEntries(es, n) \in Seq(Entry)
  <1>0. PICK D : D = Misses(es, n)
    OBVIOUS
  <1>1. PICK d, kept, added : d = Cardinality(D) /\ kept = Picked(es, D) /\ added = Named(n, vs)
    OBVIOUS
  <1>2. D \in SUBSET (1..Len(es))
    BY <1>0 DEF Misses
  <1>3. /\ D \in SUBSET Nat /\ IsFiniteSet(D) /\ d \in Nat /\ kept \in Seq(Entry) /\ Len(kept) = d
        /\ \A i \in 1..d : kept[i] = es[Nth(D, i)] /\ Nth(D, i) \in D
    BY <1>1, <1>2, PickedFacts
  <1>4. added \in Seq(Entry) /\ Len(added) = Len(vs)
        /\ \A i \in 1..Len(vs) : added[i] = [name |-> n, value |-> vs[i]]
    <2>1. \A i \in 1..Len(vs) : vs[i] \in Values
      OBVIOUS
    <2>2. DOMAIN vs = 1..Len(vs) /\ Len(vs) \in Nat
      OBVIOUS
    <2>3. added = [i \in 1..Len(vs) |-> [name |-> n, value |-> vs[i]]]
      BY <1>1, <2>2 DEF Named
    <2>4. added \in [1..Len(vs) -> Entry]
      BY <2>1, <2>3 DEF Entry
    <2> QED BY <2>2, <2>3, <2>4
  <1>5. SetEntries(es, n, vs) = kept \o added /\ DeleteEntries(es, n) = kept
    BY <1>0, <1>1 DEF SetEntries, DeleteEntries, Misses
  <1>6. kept \o added \in Seq(Entry) /\ Len(kept \o added) = d + Len(vs)
    <2>0. kept \in Seq(Entry) /\ added \in Seq(Entry)
      BY <1>3, <1>4
    <2>1. kept \o added \in Seq(Entry)
      BY <2>0
    <2>2. Len(kept \o added) = Len(kept) + Len(added)
      BY <2>0
    <2> QED BY <1>3, <1>4, <2>1, <2>2
  <1>7. ASSUME NEW i \in 1..d PROVE (kept \o added)[i] = kept[i]
    BY <1>3, <1>4
  <1>8. ASSUME NEW i \in 1..Len(vs) PROVE (kept \o added)[d + i] = added[i]
    <2>1. Len(vs) \in Nat /\ d + i \in 1..(Len(kept) + Len(added)) /\ ~(d + i <= Len(kept)) /\ (d + i) - Len(kept) = i
      BY <1>3, <1>4
    <2> QED BY <1>3, <1>4, <2>1
  <1>9. AfterSet(es, n, vs, D, kept \o added)
    BY <1>1, <1>2, <1>3, <1>4, <1>6, <1>7, <1>8 DEF AfterSet
  <1> QED BY <1>0, <1>3, <1>5, <1>9

\* What get reads of a name are the values at the positions that match it.
LEMMA GetFacts ==
  ASSUME NEW es \in Seq(Entry), NEW m \in Names,
         NEW H, H = Hits(es, m)
  PROVE  /\ H \in SUBSET (1..Len(es)) /\ H \in SUBSET Nat /\ IsFiniteSet(H)
         /\ Cardinality(H) \in Nat
         /\ GetValues(es, m) = [i \in 1..Cardinality(H) |-> es[Nth(H, i)].value]
  <1>1. H \in SUBSET (1..Len(es))
    BY DEF Hits
  <1>2. /\ H \in SUBSET Nat /\ IsFiniteSet(H) /\ Cardinality(H) \in Nat
        /\ DOMAIN Picked(es, H) = 1..Cardinality(H)
        /\ \A i \in 1..Cardinality(H) : Picked(es, H)[i] = es[Nth(H, i)]
    BY <1>1, PickedFacts
  <1>3. GetValues(es, m) = [i \in DOMAIN Picked(es, H) |-> Picked(es, H)[i].value]
    BY DEF GetValues, Hits
  <1> QED BY <1>1, <1>2, <1>3

\* wasi_http.rs, FieldsData::set: after it every casing of the name reads exactly
\* the new values, and every other name what it read before, in the same order,
\* whatever the entries and however many.
THEOREM SetThenGet ==
  ASSUME NEW es \in Seq(Entry), NEW n \in Names, NEW m \in Names, NEW vs \in Seq(Values)
  PROVE  GetValues(SetEntries(es, n, vs), m) = IF Matches(n, m) THEN vs ELSE GetValues(es, m)
  <1>1. PICK new, D, d, v : /\ new = SetEntries(es, n, vs) /\ d = Cardinality(D) /\ v = Len(vs)
                            /\ D = Misses(es, n)
    OBVIOUS
  <1>2. PICK H : H = Hits(new, m)
    OBVIOUS
  <1>3. /\ D \in SUBSET (1..Len(es)) /\ D \in SUBSET Nat /\ IsFiniteSet(D) /\ d \in Nat
        /\ new \in Seq(Entry) /\ Len(new) = d + v
        /\ \A i \in 1..d : new[i] = es[Nth(D, i)] /\ Nth(D, i) \in D
        /\ \A i \in 1..v : new[d + i] = [name |-> n, value |-> vs[i]]
    <2>1. AfterSet(es, n, vs, D, new)
      BY <1>1, SetFacts
    <2> QED BY <1>1, <2>1 DEF AfterSet
  <1>4. DOMAIN new = 1..(d + v) /\ v \in Nat /\ DOMAIN es = 1..Len(es) /\ Len(es) \in Nat
    BY <1>1, <1>3
  <1>5. /\ H \in SUBSET Nat /\ IsFiniteSet(H) /\ Cardinality(H) \in Nat
        /\ GetValues(new, m) = [i \in 1..Cardinality(H) |-> new[Nth(H, i)].value]
    BY ONLY <1>2, <1>3, GetFacts, m \in Names
  <1>6. \A i \in 1..d : ~Matches(n, new[i].name)
    BY <1>1, <1>3 DEF Misses
  <1>7. \A i \in 1..(d + v) : i \in 1..d \/ \E k \in 1..v : i = d + k
    <2> SUFFICES ASSUME NEW i \in 1..(d + v), i \notin 1..d PROVE \E k \in 1..v : i = d + k
      OBVIOUS
    <2>1. i - d \in 1..v /\ i = d + (i - d)
      BY <1>3, <1>4
    <2> QED BY <2>1
  <1>8. CASE Matches(n, m)
    <2>1. \A i \in 1..v : d + i \in H
      <3>1. \A i \in 1..v : d + i \in 1..(d + v)
        BY <1>3, <1>4
      <3>2. ASSUME NEW i \in 1..v PROVE new[d + i].name = n
        <4>1. new[d + i] = [name |-> n, value |-> vs[i]]
          BY <1>3
        <4> QED BY <4>1
      <3> QED BY <1>2, <1>4, <1>8, <3>1, <3>2 DEF Matches, Hits
    <2>2. \A i \in H : \E k \in 1..v : i = d + k
      <3>1. \A i \in 1..d : i \notin H
        BY <1>2, <1>6, <1>8 DEF Matches, Hits
      <3> QED BY <1>2, <1>4, <1>7, <3>1 DEF Hits
    <2>3. PICK f : f = [k \in 1..v |-> d + k]
      OBVIOUS
    <2>4. f \in [1..v -> H]
      BY <2>1, <2>3
    <2>5. \A a, b \in 1..v : a < b => f[a] < f[b]
      BY <1>3, <1>4, <2>3
    <2>9. \A i \in H : \E a \in 1..v : f[a] = i
      BY <2>2, <2>3
    <2>10. Cardinality(H) = v /\ \A a \in 1..v : Nth(H, a) = f[a]
      <3>1. InOrder(f, v, H)
        BY <2>4, <2>5, <2>9 DEF InOrder
      <3>2. H \in SUBSET Nat /\ v \in Nat
        BY <1>4, <1>5
      <3> QED BY <3>1, <3>2, Listing
    <2>6. ASSUME NEW a \in 1..v PROVE new[Nth(H, a)].value = vs[a]
      <3>1. Nth(H, a) = d + a
        BY <2>3, <2>10
      <3>2. new[d + a] = [name |-> n, value |-> vs[a]]
        BY <1>3
      <3> QED BY <3>1, <3>2
    <2>7. GetValues(new, m) = [i \in 1..v |-> vs[i]]
      BY <1>5, <2>6, <2>10
    <2>8. vs = [i \in 1..v |-> vs[i]]
      BY <1>1
    <2> QED BY <1>1, <1>8, <2>7, <2>8
  <1>9. CASE ~Matches(n, m)
    <2>1. PICK G : G = Hits(es, m)
      OBVIOUS
    <2>2. /\ G \in SUBSET Nat /\ Cardinality(G) \in Nat
          /\ GetValues(es, m) = [i \in 1..Cardinality(G) |-> es[Nth(G, i)].value]
      BY <2>1, GetFacts
    <2>3. H \subseteq 1..d
      <3>1. \A k \in 1..v : ~Matches(m, new[d + k].name)
        <4>1. ASSUME NEW k \in 1..v PROVE new[d + k].name = n
          <5>1. new[d + k] = [name |-> n, value |-> vs[k]]
            BY <1>3
          <5> QED BY <5>1
        <4> QED BY <1>9, <4>1 DEF Matches
      <3> QED BY <1>2, <1>4, <1>7, <3>1 DEF Hits
    <2>4. \A i \in 1..d : i \in H <=> Nth(D, i) \in G
      <3>1. \A i \in 1..d : i \in DOMAIN new /\ Nth(D, i) \in DOMAIN es
        <4>1. \A i \in 1..d : i \in 1..(d + v)
          BY <1>3, <1>4
        <4> QED BY <1>1, <1>3, <1>4, <4>1
      <3> QED BY <1>2, <1>3, <2>1, <3>1 DEF Hits
    <2>5. \A i \in G : i \in D
      BY <1>1, <1>9, <2>1 DEF Matches, Hits, Misses
    <2>6. PICK c, f : c = Cardinality(H) /\ f = [a \in 1..c |-> Nth(D, Nth(H, a))]
      OBVIOUS
    <2>7. /\ c \in Nat /\ \A a \in 1..c : Nth(H, a) \in H
          /\ \A i \in H : Rank(H, i) \in 1..c /\ Nth(H, Rank(H, i)) = i
          /\ \A a, b \in 1..c : a < b => Nth(H, a) < Nth(H, b)
      BY <1>5, <2>6, RankFacts
    <2>8. /\ \A i \in D : Rank(D, i) \in 1..d /\ Nth(D, Rank(D, i)) = i
          /\ \A a, b \in 1..d : a < b => Nth(D, a) < Nth(D, b)
      BY <1>1, <1>3, RankFacts
    <2>9. f \in [1..c -> G]
      BY <2>3, <2>4, <2>6, <2>7
    <2>10. ASSUME NEW a \in 1..c, NEW b \in 1..c, a < b PROVE f[a] < f[b]
      BY <2>3, <2>6, <2>7, <2>8, <2>10
    <2>11. ASSUME NEW i \in G PROVE \E a \in 1..c : f[a] = i
      <3>1. PICK h : h = Rank(D, i) /\ h \in 1..d /\ Nth(D, h) = i
        BY <2>5, <2>8
      <3>2. h \in H
        BY <2>4, <3>1
      <3>3. Rank(H, h) \in 1..c /\ f[Rank(H, h)] = i
        BY <2>6, <2>7, <3>1, <3>2
      <3> QED BY <3>3
    <2>12. Cardinality(G) = c /\ \A a \in 1..c : Nth(G, a) = f[a]
      <3>1. InOrder(f, c, G)
        BY <2>9, <2>10, <2>11 DEF InOrder
      <3>2. G \in SUBSET Nat /\ c \in Nat
        BY <2>2, <2>7
      <3> QED BY <3>1, <3>2, Listing
    <2>13. ASSUME NEW a \in 1..c PROVE new[Nth(H, a)].value = es[Nth(G, a)].value
      <3>1. Nth(H, a) \in 1..d /\ Nth(G, a) = Nth(D, Nth(H, a))
        BY <2>3, <2>6, <2>7, <2>12
      <3> QED BY <1>3, <3>1
    <2>14. GetValues(new, m) = [i \in 1..c |-> new[Nth(H, i)].value]
      BY <1>5, <2>6
    <2>15. GetValues(es, m) = [i \in 1..c |-> es[Nth(G, i)].value]
      BY <2>2, <2>12
    <2> QED BY <1>1, <1>9, <2>13, <2>14, <2>15
  <1> QED BY <1>8, <1>9

\* Every FieldsData holds a list of entries.
Data == [entries : Seq(Entry), immutable : BOOLEAN]
EntriesOK == \A f \in DOMAIN fields : fields[f] \in Data

\* What the guest and the caller offer are lists, and so is what a fields holds.
LEMMA ListFacts ==
  /\ \A es \in Lists : es \in Seq(Entry)
  /\ \A vs \in ValueLists : vs \in Seq(Values)
  /\ \A es \in Seq(Entry) : \A imm \in BOOLEAN : FieldsData(es, imm) \in Data
  /\ EntriesOK => \A f : EntriesOf(f) \in Seq(Entry)
  <1>1. \A es \in Lists : es \in Seq(Entry)
    <2>1. \A e \in Entry : <<e>> \in Seq(Entry)
      OBVIOUS
    <2>2. <<>> \in Seq(Entry)
      OBVIOUS
    <2> QED BY <2>1, <2>2 DEF Lists
  <1>2. \A vs \in ValueLists : vs \in Seq(Values)
    <2>1. \A v \in Values : <<v>> \in Seq(Values)
      OBVIOUS
    <2>2. <<>> \in Seq(Values)
      OBVIOUS
    <2> QED BY <2>1, <2>2 DEF ValueLists
  <1>3. \A es \in Seq(Entry) : \A imm \in BOOLEAN : FieldsData(es, imm) \in Data
    BY DEF FieldsData, Data
  <1>4. ASSUME EntriesOK, NEW f PROVE EntriesOf(f) \in Seq(Entry)
    <2>1. CASE f \in DOMAIN fields
      <3>1. fields[f] \in Data
        BY <1>4, <2>1 DEF EntriesOK
      <3> QED BY <2>1, <3>1 DEF EntriesOf, Data
    <2>2. CASE f \notin DOMAIN fields
      BY <2>2 DEF EntriesOf
    <2> QED BY <2>1, <2>2
  <1> QED BY <1>1, <1>2, <1>3, <1>4

\* A fields put into the table.
LEMMA PutEntries ==
  ASSUME EntriesOK, NEW rep, NEW data \in Data, fields' = Put(fields, rep, data)
  PROVE  EntriesOK'
  BY DEF EntriesOK, Put

\* A mutation.
LEMMA MutateEntries ==
  ASSUME EntriesOK, NEW f, NEW es \in Seq(Entry), Mutate(f, es)
  PROVE  EntriesOK'
  <1>1. f \in DOMAIN fields /\ fields[f] \in Data
    BY DEF Mutate, Mutable, EntriesOK
  <1>2. FieldsData(es, fields[f].immutable) \in Data
    BY <1>1, ListFacts DEF Data
  <1>3. fields' = [fields EXCEPT ![f] = FieldsData(es, fields[f].immutable)]
    BY DEF Mutate
  <1> QED BY <1>1, <1>2, <1>3 DEF EntriesOK

\* Flagging an entry.
LEMMA FlagEntries ==
  ASSUME EntriesOK, NEW f, fields' = Flagged(fields, f)
  PROVE  EntriesOK'
  <1>1. CASE f \in DOMAIN fields
    <2>1. fields[f] \in Data /\ fields' = [fields EXCEPT ![f].immutable = TRUE]
      BY <1>1 DEF EntriesOK, Flagged
    <2>2. [fields[f] EXCEPT !.immutable = TRUE] \in Data
      BY <2>1 DEF Data
    <2> QED BY <1>1, <2>1, <2>2 DEF EntriesOK
  <1>2. CASE f \notin DOMAIN fields
    BY <1>2 DEF EntriesOK, Flagged
  <1> QED BY <1>1, <1>2

\* The fields of a reply.
LEMMA ReplyEntries ==
  ASSUME EntriesOK, NEW es \in Lists, NEW b \in BOOLEAN, InsertReplyFields(es, b)
  PROVE  EntriesOK'
  <1>1. PICK f, reps : f = next["fields"] /\ reps = IF b THEN {f, f + 1} ELSE {f}
    OBVIOUS
  <1>3. fields' = [r \in DOMAIN fields \cup reps |->
                    IF r \in reps THEN FieldsData(es, r = f + 1) ELSE fields[r]]
    BY <1>1 DEF InsertReplyFields
  <1>2. \A r : FieldsData(es, r = f + 1) \in Data
    BY ListFacts
  <1> QED BY <1>2, <1>3 DEF EntriesOK

\* Every step keeps it.
LEMMA EntriesNext == EntriesOK /\ [Next]_vars => EntriesOK'
  <1> SUFFICES ASSUME EntriesOK, [Next]_vars PROVE EntriesOK'
    OBVIOUS
  <1>1. CASE fields' = fields
    BY <1>1 DEF EntriesOK
  <1>2. CASE GuestFields
    <2>1. ASSUME NEW es \in Lists, NewFields(es) PROVE EntriesOK'
      BY <2>1, ListFacts, PutEntries DEF NewFields, Insert
    <2>2. ASSUME NEW f \in Reps, NEW n \in Names, NEW vs \in ValueLists, SetField(f, n, vs) PROVE EntriesOK'
      <3>1. SetEntries(EntriesOf(f), n, vs) \in Seq(Entry)
        BY ListFacts, SetFacts DEF AfterSet
      <3> QED BY <2>2, <3>1, MutateEntries DEF SetField
    <2>3. ASSUME NEW f \in Reps, NEW n \in Names, DeleteField(f, n) PROVE EntriesOK'
      <3>1. <<>> \in Seq(Values)
        OBVIOUS
      <3>2. DeleteEntries(EntriesOf(f), n) \in Seq(Entry)
        BY <3>1, ListFacts, SetFacts
      <3> QED BY <2>3, <3>2, MutateEntries DEF DeleteField
    <2>4. ASSUME NEW f \in Reps, NEW n \in Names, NEW v \in Values, AppendField(f, n, v) PROVE EntriesOK'
      <3>1. EntriesOf(f) \in Seq(Entry) /\ [name |-> n, value |-> v] \in Entry
        BY ListFacts DEF Entry
      <3>2. Append(EntriesOf(f), [name |-> n, value |-> v]) \in Seq(Entry)
        BY <3>1
      <3> QED BY <2>4, <3>2, MutateEntries DEF AppendField
    <2>5. ASSUME NEW f \in Reps, CloneFields(f) PROVE EntriesOK'
      BY <2>5, ListFacts, PutEntries DEF CloneFields, Insert
    <2>6. ASSUME NEW f \in Reps, DropFields(f) PROVE EntriesOK'
      BY <2>6 DEF DropFields, Remove, EntriesOK
    <2> QED BY <1>2, <2>1, <2>2, <2>3, <2>4, <2>5, <2>6 DEF GuestFields
  <1>3. CASE GuestOptions
    BY <1>1, <1>3 DEF GuestOptions, NewOptions, SetTimeouts, CloneOptions, DropOptions
  <1>4. CASE GuestRequests
    <2>1. ASSUME NEW q, GetHeaders(q) PROVE EntriesOK'
      BY <2>1, FlagEntries DEF GetHeaders
    <2> QED BY <1>1, <1>4, <2>1 DEF GuestRequests, NewRequest, SetLine, GetOptions, ConsumeBody,
                 DropRequest, HandleRejected, Handle, tables
  <1>5. CASE GuestResponses
    <2>1. ASSUME NEW p, GetResponseHeaders(p) PROVE EntriesOK'
      BY <2>1, FlagEntries DEF GetResponseHeaders
    <2> QED BY <1>1, <1>5, <2>1 DEF GuestResponses, NewResponse, SetStatusCode, ConsumeResponseBody,
                 DropResponse
  <1>6. CASE CallerAnswers
    <2>1. ASSUME NEW es \in Lists, NEW b \in BOOLEAN, NEW s \in StatusCodes, HandleReturns(s, es, b)
          PROVE  EntriesOK'
      BY <2>1, ReplyEntries DEF HandleReturns
    <2>2. ASSUME NEW es \in Lists, NEW b \in BOOLEAN, HandleMintFails(es, b) PROVE EntriesOK'
      BY <2>2, ReplyEntries DEF HandleMintFails
    <2>3. CASE HandleFails
      BY <1>1, <2>3 DEF HandleFails, tables
    <2> QED BY <1>6, <2>1, <2>2, <2>3 DEF CallerAnswers
  <1>7. CASE UNCHANGED vars
    BY <1>1, <1>7 DEF vars, tables
  <1> QED BY <1>2, <1>3, <1>4, <1>5, <1>6, <1>7 DEF Next

\* SetThenGet for the entries of any two fields the guest holds.
LEMMA EntriesRead == EntriesOK => SetReplacesEveryCasing
  <1> SUFFICES ASSUME EntriesOK PROVE SetReplacesEveryCasing
    OBVIOUS
  <1> SUFFICES ASSUME NEW f \in DOMAIN fields, NEW g \in DOMAIN fields,
                      NEW n \in Names, NEW m \in Names, NEW vs \in ValueLists
               PROVE  GetValues(SetEntries(fields[f].entries \o fields[g].entries, n, vs), m)
                        = IF Matches(n, m) THEN vs
                          ELSE GetValues(fields[f].entries \o fields[g].entries, m)
    BY Zenon DEF SetReplacesEveryCasing
  <1>1. fields[f].entries \in Seq(Entry) /\ fields[g].entries \in Seq(Entry)
    BY DEF EntriesOK, Data
  <1>2. fields[f].entries \o fields[g].entries \in Seq(Entry) /\ vs \in Seq(Values)
    BY <1>1, ListFacts
  <1> QED BY <1>2, SetThenGet

\* wasi_http.rs, FieldsData::set: in every fields the guest can build, it replaces
\* the values of every casing of the name and of no other.
THEOREM SetReplaces == Spec => []SetReplacesEveryCasing
  <1>1. Init => EntriesOK
    BY DEF Init, EntriesOK, EmptyTable
  <1> QED BY <1>1, EntriesNext, EntriesRead, PTL DEF Spec
=============================================================================
