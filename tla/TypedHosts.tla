----------------------------- MODULE TypedHosts -----------------------------
(***************************************************************************)
(* The hosts that turn a typed call of a plugin into a host call of its P3 *)
(* session: TransportStorageEventsHost, TransportPluginHost and            *)
(* TransportWorkspaceHost (src/plugin_host*.rs).  The session is taken at  *)
(* its word: HostCalls, which P3Session is shown to implement.  The        *)
(* application is external: it keeps strings, so bytes reach it encoded,   *)
(* and it may refuse a call, answer with bytes that are no JSON, or free   *)
(* the session between serving a call and answering it.                    *)
(***************************************************************************)
EXTENDS Base64, PluginCalls, FiniteSets

CONSTANT MaxCalls   \* bound on the host calls of a run
ASSUME MaxCallsAssumption == MaxCalls \in Nat

VARIABLES
  hostKind,   \* which of the hosts the component was started on
  calling,    \* the typed call in progress, or NoOp
  returned,   \* what the last one returned to the guest
  request,    \* request[k]: the JSON of host call k
  phase, answer, value, service,  \* the session: see HostCalls
  appKv, appEvents,               \* the application: encoded values, encoded payloads
  reaction    \* the answer it is about to resolve the surfaced call with

transportVars == <<phase, answer, value, service>>
appVars       == <<appKv, appEvents, reaction>>
typedVars     == <<hostKind, calling, returned, request, transportVars, appVars>>

NoJson  == [json |-> "none"]
Gone    == [json |-> "gone"]
Garbage == [json |-> "garbage"]
\* {"ok":false} and {"ok":true,"data":..}
Refusal       == [json |-> "ok", ok |-> FALSE]
Success(data) == [json |-> "ok", ok |-> TRUE, data |-> data]
\* JSON values: null, a string, an array.
Null      == [is |-> "null"]
String(s) == [is |-> "string", of |-> s]
Array(S)  == [is |-> "array", of |-> S]

Session == INSTANCE HostCalls WITH Answers <- {}, NoAnswer <- NoJson

TypedHostNames == {"storage-events", "full", "workspace"}

TypedInit(h) ==
  /\ hostKind = h /\ calling = NoOp /\ returned = Ok({})
  /\ request = [k \in Session!CallIds |-> NoOp]
  /\ Session!Init
  /\ appKv = NoKeys /\ appEvents = <<>> /\ reaction = NoJson

\* The calls in the world of the component a host serves, and those of them
\* that the host forwards.
Offered(h) ==
  {o \in Ops :
     CASE h = "storage-events" -> o.op \in {"get", "set", "delete", "clear", "list-keys", "emit"}
       [] h = "workspace"      -> o.op \in Reads \cup {"read-portfolio-names"}
       [] OTHER                -> TRUE}
Forwarded(h) ==
  {o \in Offered(h) :
     CASE h = "storage-events" -> TRUE
       [] h = "workspace"      -> o.op # "write-external-file"
       [] OTHER                -> o.op \in {"get", "set", "emit", "log", "read-portfolio-names"}}

-----------------------------------------------------------------------------
(* A faulty variant of Decode.                                             *)

\* A value that does not decode is taken for an absent one, and a null for
\* the empty value.
FaultyDecode(o, data) ==
  CASE o.op = "get" -> Ok({IF data.is = "string" THEN b64_decode(data.of) ELSE <<>>})
    [] o.op \in {"list-keys", "read-portfolio-names"} -> Ok(data.of)
    [] OTHER -> Ok({})

-----------------------------------------------------------------------------
(* The hosts.                                                              *)

\* json!({..}): keys and names are strings already, bytes are encoded.
Encode(o) ==
  CASE o.op = "set"  -> [o EXCEPT !.value = b64_encode(@)]
    [] o.op = "emit" -> [o EXCEPT !.payload = b64_encode(@)]
    [] OTHER         -> o

\* The data of {"ok":true}, as each method reads it.  A value that is no string
\* is an absent key; one that does not decode is an error.
decode_value(data) ==
  IF data.is # "string" THEN Ok({})
  ELSE IF b64_decode(data.of) = Undecodable THEN Err("bad-response")
  ELSE Ok({b64_decode(data.of)})

\* A list that is no array is empty.
decode_list_keys(data)       == Ok(IF data.is = "array" THEN data.of ELSE {})
decode_portfolio_names(data) == Ok(IF data.is = "array" THEN data.of ELSE {})

\* The decoders of the other reads: every field that is missing or of another
\* type has its default, so that no data is an error.
decode_record(data) == Ok({})

Decode(o, data) ==
  CASE o.op = "get"                  -> decode_value(data)
    [] o.op = "list-keys"            -> decode_list_keys(data)
    [] o.op = "read-portfolio-names" -> decode_portfolio_names(data)
    [] o.op \in Reads                -> decode_record(data)
    [] OTHER                         -> Ok({})

\* call() / forward() after block_on: the oneshot was cancelled, the bytes do
\* not parse, the application refused, or there is data.
Unwrap(o, v) ==
  CASE v = Gone    -> Err("not-found")
    [] v = Garbage -> Err("bad-response")
    [] v = Refusal -> Err("permission-denied")
    [] OTHER       -> Decode(o, v.data)

\* A call the host does not forward fails on the spot.
NotWired(o) ==
  /\ calling = NoOp
  /\ o \in Offered(hostKind) \ Forwarded(hostKind)
  /\ returned' = Err("not-found")
  /\ UNCHANGED <<hostKind, calling, request, transportVars, appVars>>

\* The request is sent; the worker thread blocks until it is settled.
Forward(o, k) ==
  /\ calling = NoOp
  /\ o \in Forwarded(hostKind)
  /\ Session!Issue(k)
  /\ calling' = o
  /\ request' = [request EXCEPT ![k] = Encode(o)]
  /\ UNCHANGED <<hostKind, returned, appVars>>

\* log.write has no result: whatever became of the call is ignored.
ReturnsToGuest(o, r) == returned' = IF o.op = "log" THEN Ok({}) ELSE r

\* The send fails: the receiver is gone.
ForwardRefused(o, k) ==
  /\ calling = NoOp
  /\ o \in Forwarded(hostKind)
  /\ Session!Refuse(k)
  /\ ReturnsToGuest(o, Err("not-found"))
  /\ request' = [request EXCEPT ![k] = Encode(o)]
  /\ UNCHANGED <<hostKind, calling, appVars>>

\* block_on comes back.
Settle(k) ==
  /\ Session!Return(k) \/ Session!Fail(k)
  /\ ReturnsToGuest(calling, Unwrap(calling, value'[k]))
  /\ calling' = NoOp
  /\ reaction' = NoJson
  /\ UNCHANGED <<hostKind, request, appKv, appEvents>>

-----------------------------------------------------------------------------
(* The application.                                                        *)

Poll(k) ==
  /\ Session!Surface(k)
  /\ UNCHANGED <<hostKind, calling, returned, request, appVars>>

\* It services the request in its own store.
AppServes(k) ==
  LET r == request[k]
  IN  /\ phase[k] = "surfaced" /\ service = "open" /\ reaction = NoJson
      /\ appKv' = CASE r.op = "set" -> With(appKv, r.key, r.value)
                    [] r.op = "delete" -> Without(appKv, r.key)
                    [] r.op = "clear" -> NoKeys
                    [] OTHER -> appKv
      /\ appEvents' = IF r.op = "emit" THEN Append(appEvents, r.payload) ELSE appEvents
      /\ reaction' = Success(
           CASE r.op = "get" -> IF r.key \in DOMAIN appKv THEN String(appKv[r.key]) ELSE Null
             [] r.op = "list-keys" -> Array(DOMAIN appKv)
             [] r.op = "read-portfolio-names" -> Array(Portfolios)
             [] OTHER -> Null)
      /\ UNCHANGED <<hostKind, calling, returned, request, transportVars>>

\* It refuses the call: a permission, or its own quota.
AppRefuses(k) ==
  /\ phase[k] = "surfaced" /\ service = "open" /\ reaction = NoJson
  /\ reaction' = Refusal
  /\ UNCHANGED <<hostKind, calling, returned, request, transportVars, appKv, appEvents>>

\* hwr_p3_resolve, with the answer or with bytes that do not parse.
AppAnswers(k) ==
  /\ reaction # NoJson
  /\ \E a \in {reaction, Garbage} : Session!Answer(k, a)
  /\ UNCHANGED <<hostKind, calling, returned, request, appVars>>

\* hwr_p3_free.
AppFrees ==
  /\ Session!Close \/ Session!Shut
  /\ UNCHANGED <<hostKind, calling, returned, request, appVars>>

TypedStep ==
  \/ \E o \in Ops : NotWired(o)
  \/ \E k \in Session!CallIds :
       \/ \E o \in Ops : Forward(o, k) \/ ForwardRefused(o, k)
       \/ Settle(k) \/ Poll(k) \/ AppServes(k) \/ AppRefuses(k) \/ AppAnswers(k)
  \/ AppFrees

-----------------------------------------------------------------------------
(* Properties.                                                             *)

\* plugin_host_bytes.rs: "stays binary-safe".  Every string the application has
\* been given to keep is, read as RFC 4648 reads it, bytes that a guest sent;
\* and for any bytes and any string that may come back, the codec agrees with
\* the RFC or refuses.
CodecAgreesWithRfc ==
  /\ \A k \in DOMAIN appKv : ReferenceDecode(appKv[k]) \in Values
  /\ \A i \in DOMAIN appEvents : ReferenceDecode(appEvents[i]) \in Payloads
  /\ AgreesOnSamples
=============================================================================
