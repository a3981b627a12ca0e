--------------------------- MODULE HttpResources ---------------------------
(***************************************************************************)
(* The resource tables behind wasi:http (src/wasi_http.rs, WasiHttpHost):  *)
(* fields, request, response and request-options, each a map from `rep` to *)
(* data with a monotonic allocator, and the owned handles the guest holds  *)
(* on them.  A handle is only a rep: get-headers and get-options hand out  *)
(* a new owned handle with the rep the parent itself refers to, so two     *)
(* owners may share one entry.                                             *)
(*                                                                         *)
(* A call that fails with `immutable` or on a missing entry changes        *)
(* nothing and is no step.  A field name is a pair <<name, casing>>.  The  *)
(* request's method, path, scheme and authority are independent cells with *)
(* the same setter and are modelled as one, its `line`; so are the three   *)
(* timeouts of the options.  `stash` says that the body stream and the     *)
(* trailers future are still in the entry.  What `handle` does between     *)
(* reading the request and building the response is module HttpHandle.     *)
(***************************************************************************)
EXTENDS Naturals, Sequences, Filters

CONSTANTS
  Names,       \* field names: a set of pairs <<name, casing>>
  Values,      \* field values
  Lines,       \* what a request line may be
  Timeouts,    \* what the timeouts of request-options may be
  StatusCodes, \* the codes the guest or the caller may offer
  NoTimeouts,  \* the timeouts of new request-options
  GetLine,     \* the line of a new request
  MaxRep,      \* bound on the reps each table allocates (u32 in the code)
  MaxEntries,  \* bound on the entries of one fields
  MaxOwned     \* bound on the guest's handles on one rep

Kinds == {"fields", "requests", "responses", "options"}

ASSUME ResourcesAssumption ==
  /\ MaxRep \in [Kinds -> Nat]
  /\ MaxEntries \in Nat /\ MaxOwned \in Nat
  /\ NoTimeouts \in Timeouts /\ GetLine \in Lines
  /\ StatusCodes \subseteq Nat /\ 200 \in StatusCodes

VARIABLES
  fields,    \* Table<FieldsData>
  requests,  \* Table<RequestData>
  responses, \* Table<ResponseData>
  options,   \* Table<RequestOptionsData>
  next,      \* next[k]: Table::next of table k
  owned,     \* owned[k][rep]: owned handles on rep in the guest's table
  inbound,   \* the session's inbound receiver: "free", "taken" or "spent"
  given,     \* history: contents of headers and options when a parent took them
  sent,      \* history: contents `handle` framed for the caller
  dropped,   \* history: <<kind, rep>> whose drop the guest has run
  rejected   \* history: requests whose head `handle` refused to encode

tables == <<fields, requests, responses, options>>
history == <<given, sent, dropped, rejected>>
vars == <<tables, next, owned, inbound, history>>

Reps == UNION {1 .. MaxRep[k] : k \in Kinds}
None == 0   \* rep 0 is the code's "unset"

EmptyTable == [rep \in {} |-> None]

Init ==
  /\ fields = EmptyTable /\ requests = EmptyTable
  /\ responses = EmptyTable /\ options = EmptyTable
  /\ next = [k \in Kinds |-> 1]
  /\ owned = [k \in Kinds |-> [rep \in Reps |-> 0]]
  /\ inbound = "free"
  /\ given = [requests |-> EmptyTable, responses |-> EmptyTable]
  /\ sent = EmptyTable
  /\ dropped = {}
  /\ rejected = {}

-----------------------------------------------------------------------------
(* FieldsData.                                                             *)

Matches(n, c) == n[1] = c[1]

GetValues(es, n) ==
  LET hits == Picked(es, {i \in DOMAIN es : Matches(n, es[i].name)})
  IN  [i \in DOMAIN hits |-> hits[i].value]

DeleteEntries(es, n) == Picked(es, {i \in DOMAIN es : ~Matches(n, es[i].name)})

Named(n, vs) == [i \in DOMAIN vs |-> [name |-> n, value |-> vs[i]]]

\* `set` compares names byte for byte.
FaultySetEntries(es, n, vs) ==
  Picked(es, {i \in DOMAIN es : es[i].name # n}) \o Named(n, vs)

SetEntries(es, n, vs) == DeleteEntries(es, n) \o Named(n, vs)

-----------------------------------------------------------------------------
(* Tables and handles.                                                     *)

CanInsert(k) == next[k] <= MaxRep[k]

\* HashMap::insert.
Put(table, rep, data) ==
  [r \in DOMAIN table \cup {rep} |-> IF r = rep THEN data ELSE table[r]]

Insert(table, k, data) == Put(table, next[k], data)

Remove(table, rep) == [r \in DOMAIN table \ {rep} |-> table[r]]

Owns(k, rep) == owned[k][rep] > 0

\* `Resource::new_own(rep)` returned to the guest; lifting an owned argument.
Lower(own, k, rep) == [own EXCEPT ![k][rep] = @ + 1]
Lift(own, k, rep) == [own EXCEPT ![k][rep] = @ - 1]

Allocated(k) == [next EXCEPT ![k] = @ + 1]

EntriesOf(rep) == IF rep \in DOMAIN fields THEN fields[rep].entries ELSE <<>>

TimeoutsOf(rep) ==
  IF rep \in DOMAIN options THEN options[rep].timeouts ELSE NoTimeouts

-----------------------------------------------------------------------------
(* fields.                                                                 *)

FieldsData(es, imm) == [entries |-> es, immutable |-> imm]

Mutable(table, rep) == rep \in DOMAIN table /\ ~table[rep].immutable

NewFields(es) ==
  /\ CanInsert("fields")
  /\ fields' = Insert(fields, "fields", FieldsData(es, FALSE))
  /\ next' = Allocated("fields")
  /\ owned' = Lower(owned, "fields", next["fields"])
  /\ UNCHANGED <<requests, responses, options, inbound, history>>

Mutate(f, es) ==
  /\ Owns("fields", f) /\ Mutable(fields, f)
  /\ Len(es) <= MaxEntries
  /\ fields' = [fields EXCEPT ![f] = FieldsData(es, @.immutable)]
  /\ UNCHANGED <<requests, responses, options, next, owned, inbound, history>>

SetField(f, n, vs) == Mutate(f, SetEntries(EntriesOf(f), n, vs))

DeleteField(f, n) == Mutate(f, DeleteEntries(EntriesOf(f), n))

AppendField(f, n, v) ==
  Mutate(f, Append(EntriesOf(f), [name |-> n, value |-> v]))

CloneFields(f) ==
  /\ Owns("fields", f) /\ CanInsert("fields")
  /\ fields' = Insert(fields, "fields", FieldsData(EntriesOf(f), FALSE))
  /\ next' = Allocated("fields")
  /\ owned' = Lower(owned, "fields", next["fields"])
  /\ UNCHANGED <<requests, responses, options, inbound, history>>

DropFields(f) ==
  /\ Owns("fields", f)
  /\ fields' = Remove(fields, f)
  /\ owned' = Lift(owned, "fields", f)
  /\ dropped' = dropped \cup {<<"fields", f>>}
  /\ UNCHANGED <<requests, responses, options, next, inbound, given, sent, rejected>>

-----------------------------------------------------------------------------
(* request-options.                                                        *)

NewOptions ==
  /\ CanInsert("options")
  /\ options' = Insert(options, "options",
                       [timeouts |-> NoTimeouts, immutable |-> FALSE])
  /\ next' = Allocated("options")
  /\ owned' = Lower(owned, "options", next["options"])
  /\ UNCHANGED <<fields, requests, responses, inbound, history>>

SetTimeouts(o, t) ==
  /\ Owns("options", o) /\ Mutable(options, o)
  /\ options' = [options EXCEPT ![o].timeouts = t]
  /\ UNCHANGED <<fields, requests, responses, next, owned, inbound, history>>

CloneOptions(o) ==
  /\ Owns("options", o) /\ CanInsert("options")
  /\ options' = Insert(options, "options",
                       [timeouts |-> TimeoutsOf(o), immutable |-> FALSE])
  /\ next' = Allocated("options")
  /\ owned' = Lower(owned, "options", next["options"])
  /\ UNCHANGED <<fields, requests, responses, inbound, history>>

DropOptions(o) ==
  /\ Owns("options", o)
  /\ options' = Remove(options, o)
  /\ owned' = Lift(owned, "options", o)
  /\ dropped' = dropped \cup {<<"options", o>>}
  /\ UNCHANGED <<fields, requests, responses, next, inbound, given, sent, rejected>>

-----------------------------------------------------------------------------
(* request.                                                                *)

\* What `handle` would frame for a request with these headers and options.
Contents(f, o) == [headers |-> EntriesOf(f), timeouts |-> TimeoutsOf(o)]

NewRequest(f, o) ==
  /\ Owns("fields", f) /\ (o # None => Owns("options", o))
  /\ CanInsert("requests")
  /\ requests' = Insert(requests, "requests",
       [headers |-> f, options |-> o, line |-> GetLine, stash |-> TRUE])
  /\ next' = Allocated("requests")
  /\ LET lifted == Lift(owned, "fields", f)
         both   == IF o = None THEN lifted ELSE Lift(lifted, "options", o)
     IN  owned' = Lower(both, "requests", next["requests"])
  /\ given' = [given EXCEPT !.requests = Insert(@, "requests", Contents(f, o))]
  /\ UNCHANGED <<fields, responses, options, inbound, sent, dropped, rejected>>

SetLine(q, line) ==
  /\ Owns("requests", q) /\ q \in DOMAIN requests
  /\ requests' = [requests EXCEPT ![q].line = line]
  /\ UNCHANGED <<fields, responses, options, next, owned, inbound, history>>

Flagged(table, rep) ==
  IF rep \in DOMAIN table THEN [table EXCEPT ![rep].immutable = TRUE] ELSE table

\* get-headers hands the entry out without flagging it.
FaultyGetHeaders(q) ==
  LET f == requests[q].headers
  IN  /\ Owns("requests", q) /\ owned["fields"][f] < MaxOwned
      /\ owned' = Lower(owned, "fields", f)
      /\ UNCHANGED <<tables, next, inbound, history>>

GetHeaders(q) ==
  LET f == requests[q].headers
  IN  /\ Owns("requests", q) /\ owned["fields"][f] < MaxOwned
      /\ fields' = Flagged(fields, f)
      /\ owned' = Lower(owned, "fields", f)
      /\ UNCHANGED <<requests, responses, options, next, inbound, history>>

GetOptions(q) ==
  LET o == requests[q].options
  IN  /\ Owns("requests", q) /\ o # None /\ owned["options"][o] < MaxOwned
      /\ options' = Flagged(options, o)
      /\ owned' = Lower(owned, "options", o)
      /\ UNCHANGED <<fields, requests, responses, next, inbound, history>>

\* consume-body reads the streams and leaves them in the entry.
FaultyConsumeBody(q) ==
  /\ Owns("requests", q)
  /\ owned' = Lift(owned, "requests", q)
  /\ UNCHANGED <<tables, next, inbound, history>>

ConsumeBody(q) ==
  /\ Owns("requests", q)
  /\ requests' = [requests EXCEPT ![q].stash = FALSE]
  /\ owned' = Lift(owned, "requests", q)
  /\ UNCHANGED <<fields, responses, options, next, inbound, history>>

\* Dropping a request also removes the headers it refers to.
FaultyDropRequest(q) ==
  /\ Owns("requests", q)
  /\ requests' = Remove(requests, q)
  /\ fields' = Remove(fields, requests[q].headers)
  /\ owned' = Lift(owned, "requests", q)
  /\ UNCHANGED <<responses, options, next, inbound, history>>

DropRequest(q) ==
  /\ Owns("requests", q)
  /\ requests' = Remove(requests, q)
  /\ owned' = Lift(owned, "requests", q)
  /\ UNCHANGED <<fields, responses, options, next, inbound, history>>

-----------------------------------------------------------------------------
(* response.                                                               *)

ResponseData(f, s, t) ==
  [headers |-> f, status |-> s, stash |-> TRUE, trailers |-> t]

\* The trailers of a response the guest makes come from a future of its own.
NewResponse(f) ==
  /\ Owns("fields", f) /\ CanInsert("responses")
  /\ responses' = Insert(responses, "responses", ResponseData(f, 200, None))
  /\ next' = Allocated("responses")
  /\ owned' = Lower(Lift(owned, "fields", f), "responses", next["responses"])
  /\ given' = [given EXCEPT !.responses = Insert(@, "responses", EntriesOf(f))]
  /\ UNCHANGED <<fields, requests, options, inbound, sent, dropped, rejected>>

SetStatusCode(p, s) ==
  /\ Owns("responses", p) /\ s \in 100 .. 599 /\ p \in DOMAIN responses
  /\ responses' = [responses EXCEPT ![p].status = s]
  /\ UNCHANGED <<fields, requests, options, next, owned, inbound, history>>

\* get-headers of a response hands the entry out without flagging it.
FaultyGetResponseHeaders(p) ==
  LET f == responses[p].headers
  IN  /\ Owns("responses", p) /\ owned["fields"][f] < MaxOwned
      /\ owned' = Lower(owned, "fields", f)
      /\ UNCHANGED <<tables, next, inbound, history>>

GetResponseHeaders(p) ==
  LET f == responses[p].headers
  IN  /\ Owns("responses", p) /\ owned["fields"][f] < MaxOwned
      /\ fields' = Flagged(fields, f)
      /\ owned' = Lower(owned, "fields", f)
      /\ UNCHANGED <<requests, responses, options, next, inbound, history>>

\* The guest awaits the trailers future it is handed, ready in a response
\* `handle` built, and receives the caller's trailers as a fields handle.
ConsumeResponseBody(p) ==
  LET t == responses[p].trailers
      moved == Lift(owned, "responses", p)
  IN  /\ Owns("responses", p)
      /\ responses' = [responses EXCEPT ![p].stash = FALSE]
      /\ owned' = IF t = None THEN moved ELSE Lower(moved, "fields", t)
      /\ UNCHANGED <<fields, requests, options, next, inbound, history>>

DropResponse(p) ==
  /\ Owns("responses", p)
  /\ responses' = Remove(responses, p)
  /\ owned' = Lift(owned, "responses", p)
  /\ UNCHANGED <<fields, requests, options, next, inbound, history>>

-----------------------------------------------------------------------------
(* handler.handle on the transport.                                        *)

\* The head cannot be encoded: handle returns before it takes anything.
HandleRejected(q) ==
  /\ Owns("requests", q)
  /\ owned' = Lift(owned, "requests", q)
  /\ rejected' = rejected \cup {q}
  /\ UNCHANGED <<tables, next, inbound, given, sent, dropped>>

\* The head is framed, the streams are taken, the entry stays in the table.
Handle(q) ==
  /\ Owns("requests", q)
  /\ sent' = Put(sent, q, Contents(requests[q].headers, requests[q].options))
  /\ requests' = [requests EXCEPT ![q].stash = FALSE]
  /\ owned' = Lift(owned, "requests", q)
  /\ inbound' = IF inbound = "free" THEN "taken" ELSE inbound
  /\ UNCHANGED <<fields, responses, options, next, given, dropped, rejected>>

\* Fields for the caller's headers and, if the head carried them, trailers.
InsertReplyFields(es, hasTrailers) ==
  LET f == next["fields"]
      reps == IF hasTrailers THEN {f, f + 1} ELSE {f}
  IN  /\ \A r \in reps : r <= MaxRep["fields"]
      /\ fields' = [r \in DOMAIN fields \cup reps |->
                     IF r \in reps THEN FieldsData(es, r = f + 1) ELSE fields[r]]

\* The call that took the receiver builds a response from the caller's head.
HandleReturns(s, es, hasTrailers) ==
  LET f == next["fields"]
      t == IF hasTrailers THEN f + 1 ELSE None
  IN  /\ inbound = "taken" /\ CanInsert("responses")
      /\ InsertReplyFields(es, hasTrailers)
      /\ responses' = Insert(responses, "responses", ResponseData(f, s, t))
      /\ next' = [Allocated("responses")
                    EXCEPT !["fields"] = IF hasTrailers THEN f + 2 ELSE f + 1]
      /\ owned' = Lower(owned, "responses", next["responses"])
      /\ inbound' = "spent"
      /\ given' = [given EXCEPT !.responses = Insert(@, "responses", es)]
      /\ UNCHANGED <<requests, options, sent, dropped, rejected>>

\* Minting the body or trailers fails after the fields went into the table.
HandleMintFails(es, hasTrailers) ==
  LET f == next["fields"]
  IN  /\ inbound = "taken"
      /\ InsertReplyFields(es, hasTrailers)
      /\ next' = [next EXCEPT !["fields"] = IF hasTrailers THEN f + 2 ELSE f + 1]
      /\ inbound' = "spent"
      /\ UNCHANGED <<requests, responses, options, owned, history>>

\* No head, or a status line that does not parse: the receiver is dropped.
HandleFails ==
  /\ inbound = "taken"
  /\ inbound' = "spent"
  /\ UNCHANGED <<tables, next, owned, history>>

-----------------------------------------------------------------------------
Entry == [name : Names, value : Values]
Lists == {<<>>} \cup {<<e>> : e \in Entry}
ValueLists == {<<>>} \cup {<<v>> : v \in Values}

GuestFields ==
  \/ \E es \in Lists : NewFields(es)
  \/ \E f \in Reps, n \in Names :
       \/ \E vs \in ValueLists : SetField(f, n, vs)
       \/ DeleteField(f, n)
       \/ \E v \in Values : AppendField(f, n, v)
  \/ \E f \in Reps : CloneFields(f) \/ DropFields(f)

GuestOptions ==
  \/ NewOptions
  \/ \E o \in Reps, t \in Timeouts : SetTimeouts(o, t)
  \/ \E o \in Reps : CloneOptions(o) \/ DropOptions(o)

GuestRequests ==
  \/ \E f \in Reps, o \in Reps \cup {None} : NewRequest(f, o)
  \/ \E q \in DOMAIN requests :
       \/ \E line \in Lines : SetLine(q, line)
       \/ GetHeaders(q) \/ GetOptions(q)
       \/ ConsumeBody(q) \/ DropRequest(q)
       \/ HandleRejected(q) \/ Handle(q)

GuestResponses ==
  \/ \E f \in Reps : NewResponse(f)
  \/ \E p \in DOMAIN responses :
       \/ \E s \in StatusCodes : SetStatusCode(p, s)
       \/ GetResponseHeaders(p) \/ ConsumeResponseBody(p) \/ DropResponse(p)

CallerAnswers ==
  \/ \E es \in Lists, b \in BOOLEAN :
       \/ \E s \in StatusCodes : HandleReturns(s, es, b)
       \/ HandleMintFails(es, b)
  \/ HandleFails

Next ==
  GuestFields \/ GuestOptions \/ GuestRequests \/ GuestResponses \/ CallerAnswers

Spec == Init /\ [][Next]_vars
-----------------------------------------------------------------------------
TypeOK ==
  /\ \A f \in DOMAIN fields :
       fields[f] \in [entries : Seq(Entry), immutable : BOOLEAN]
  /\ \A q \in DOMAIN requests :
       requests[q] \in [headers : Reps, options : Reps \cup {None},
                        line : Lines, stash : BOOLEAN]
  /\ \A p \in DOMAIN responses :
       responses[p] \in [headers : Reps, status : StatusCodes,
                         stash : BOOLEAN, trailers : Reps \cup {None}]
  /\ \A o \in DOMAIN options :
       options[o] \in [timeouts : Timeouts, immutable : BOOLEAN]
  /\ next \in [Kinds -> Nat]
  /\ owned \in [Kinds -> [Reps -> 0 .. MaxOwned]]
  /\ inbound \in {"free", "taken", "spent"}

(* Headers and options are as they were when the request or response took  *)
(* them for as long as they exist: every handle that get-headers or        *)
(* get-options gives out is on an entry flagged immutable, and a clone is  *)
(* an entry of its own.                                                    *)
ContentsFrozen ==
  /\ \A q \in DOMAIN requests :
       /\ requests[q].headers \in DOMAIN fields
            => fields[requests[q].headers].entries = given.requests[q].headers
       /\ requests[q].options \in DOMAIN options
            => options[requests[q].options].timeouts = given.requests[q].timeouts
  /\ \A p \in DOMAIN responses :
       responses[p].headers \in DOMAIN fields
         => fields[responses[p].headers].entries = given.responses[p]

(* A handle in the guest's table, and the headers and options a parent     *)
(* refers to, name an entry that is there unless the guest itself has      *)
(* dropped a handle on the same rep: handle, consume-body and the drop of  *)
(* a parent leave its headers and options valid.  Requests and responses   *)
(* have one handle at most, and its entry is there.                        *)
GoneOnlyByDrop ==
  LET Valid(k, table, rep) == rep \in DOMAIN table \/ <<k, rep>> \in dropped
  IN  /\ \A f \in Reps : Owns("fields", f) => Valid("fields", fields, f)
      /\ \A o \in Reps : Owns("options", o) => Valid("options", options, o)
      /\ \A q \in DOMAIN requests :
           /\ Valid("fields", fields, requests[q].headers)
           /\ requests[q].options # None
                => Valid("options", options, requests[q].options)
      /\ \A p \in DOMAIN responses : Valid("fields", fields, responses[p].headers)
      /\ \A q \in Reps :
           /\ owned["requests"][q] <= 1 /\ owned["responses"][q] <= 1
           /\ Owns("requests", q) => q \in DOMAIN requests
           /\ Owns("responses", q) => q \in DOMAIN responses

(* No entry is ever removed by handle or consume-body, so requests and     *)
(* responses the guest has given away stay in the tables; they no longer   *)
(* hold a body stream or a trailers future, except a request whose head    *)
(* handle refused to encode.                                               *)
GivenAwayHoldsNoStream ==
  /\ \A q \in DOMAIN requests :
       requests[q].stash => Owns("requests", q) \/ q \in rejected
  /\ \A p \in DOMAIN responses : responses[p].stash => Owns("responses", p)

(* In any fields made from the entries of two others, which is a list that *)
(* from-list accepts, a set makes every casing of the name read exactly    *)
(* the new values, and leaves what the other names read, in the same order. *)
SetReplacesEveryCasing ==
  \A f, g \in DOMAIN fields, n, m \in Names, vs \in ValueLists :
    LET es == fields[f].entries \o fields[g].entries
    IN  GetValues(SetEntries(es, n, vs), m)
          = IF Matches(n, m) THEN vs ELSE GetValues(es, m)

(* What handle frames for the caller is what the request was constructed   *)
(* with.                                                                   *)
SentAsConstructed == \A q \in DOMAIN sent : sent[q] = given.requests[q]
=============================================================================
