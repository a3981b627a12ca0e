----------------------------- MODULE GatedHttp -----------------------------
(***************************************************************************)
(* src/wasi_guests.rs, GatedHttpHooks: every outbound wasi:http@0.2 send   *)
(* of a guest, from the hook through the gate, the header policy and the   *)
(* sender, and back through the response policy to the guest.  Hosts are   *)
(* those of FetchGate, header maps those of RequestPolicy.                 *)
(***************************************************************************)
EXTENDS FetchGate, RequestPolicy

CONSTANTS
  Allowlists,   \* the origin allowlists a plugin may have
  Requests,     \* requests: [https, host, headers], as the library hands them over
  UpHeads,      \* header maps an upstream may answer or end its body with
  Futures,      \* the futures and responses a guest may hold at a time
  MaxSends      \* bound on the sends of a run

ASSUME MaxSendsAssumption == MaxSends \in Nat
ASSUME RequestsAssumption ==
  \A r \in Requests :
    /\ r = [https |-> r.https, host |-> r.host, headers |-> r.headers]
    /\ r.https \in BOOLEAN /\ r.host \in Hosts
ASSUME AllowlistsAssumption == \A list \in Allowlists : list \in Seq(Entries)

\* An error of the sender, and whether it carries free-form text.  A connect
\* error is dns-like when its io::Error reads as a failed lookup.
Error(kind, text) == [kind |-> kind, text |-> text]
SendErrors ==
  {Error(k, TRUE) : k \in {"internal", "dns", "tls-alert", "connect-dns-like", "invalid-dns-name"}}
    \cup {Error("timeout", FALSE), Error("connect", FALSE)}
HttpRequestDenied == Error("request-denied", FALSE)
NoError == Error("none", FALSE)

NoHeaders == [n \in {} |-> 0]
NoRequest == [https |-> FALSE, host |-> <<>>, headers |-> NoHeaders]

VARIABLES
  origins,     \* allowlist
  dropped,     \* dropped_request_headers
  sends,       \* sends[f]: the send behind future f, and what its guest has seen
  made,        \* how many sends the guest has made
  withheld     \* history: the header values handed over and not put on the wire

httpVars == <<origins, dropped, sends, made, withheld>>

\* sender: what the inner send is doing; wire: the request it was handed.
\* raised, head, trailers: what came back; seenX: what the guest was shown.
Unused ==
  [sender |-> "none", request |-> NoRequest, wire |-> NoRequest,
   raised |-> NoError, seenError |-> NoError, head |-> NoHeaders, seenHead |-> NoHeaders,
   trailers |-> NoHeaders, seenTrailers |-> NoHeaders]

HttpInit ==
  /\ origins \in Allowlists
  /\ dropped = 0
  /\ sends = [f \in Futures |-> Unused]
  /\ made = 0 /\ withheld = 0

-----------------------------------------------------------------------------
(* The library, as wasi_guests.rs uses and describes it.                   *)

DEFAULT_FORBIDDEN_HEADERS == {"host"}

\* The conversion of an error to the guest's ErrorCode, after the hooks.  A
\* dns-like connect error gains an rcode; an invalid name asks the hook.
p2_error_from_dns(e) == Error("dns", FALSE)
ErrorToP2(e) ==
  CASE e.kind = "connect-dns-like" -> Error("dns", TRUE)
    [] e.kind = "invalid-dns-name" -> p2_error_from_dns(e)
    [] OTHER -> e

-----------------------------------------------------------------------------
(* Faulty variants: the definition each is named after, with one defect.   *)

\* A dns-like connect error is taken for an ordinary one.
FaultyScrubError(e) ==
  IF e.kind \in {"internal", "dns", "tls-alert"} THEN Error(e.kind, FALSE) ELSE e

\* The reserved header is dropped with the others instead of refused.
FaultyGate(request) == check_request(request.https, request.host, origins) = "Ok"

-----------------------------------------------------------------------------
(* The hooks.                                                              *)

\* Every denial becomes HttpRequestDenied.
gate(request) ==
  /\ check_request(request.https, request.host, origins) = "Ok"
  /\ \A n \in DOMAIN request.headers : ~is_reserved_credential_header(n)

\* The policy has dropped any Host; it is derived from the URI's authority.
default_sender(request) ==
  [request EXCEPT !.headers = [n \in DOMAIN request.headers \cup {"host"} |->
                                 IF n \in DOMAIN request.headers THEN request.headers[n] ELSE 1]]

scrub_error(e) ==
  CASE e.kind \in {"internal", "dns", "tls-alert"} -> Error(e.kind, FALSE)
    [] e.kind = "connect-dns-like" -> Error("dns", FALSE)
    [] OTHER -> e

is_forbidden(name) ==
  name \in DEFAULT_FORBIDDEN_HEADERS \/ is_stripped_response_header(name)

\* The library removes what is_forbidden names, at the guest's boundary.
Admitted(map) == Only(map, {n \in DOMAIN map : ~is_forbidden(n)})

\* A refused request: nothing is handed to the sender.
failed_send(r) ==
  [Unused EXCEPT !.sender = "skipped", !.request = r, !.seenError = HttpRequestDenied]

\* What is put on the wire, and how many values the policy has dropped.
send_sanitized(r) ==
  LET policy == retain_allowed_request_headers(r.headers)
  IN  [wire |-> default_sender([r EXCEPT !.headers = policy.headers]), dropped |-> policy.dropped]

send_request(f, r) ==
  /\ sends[f] = Unused /\ made < MaxSends
  /\ made' = made + 1
  /\ LET sent == send_sanitized(r)
         kept == Only(sent.wire.headers, ALLOWED_REQUEST_HEADERS)
     IN  IF gate(r)
           THEN /\ dropped' = dropped + sent.dropped
                /\ withheld' = withheld + (ValueCount(r.headers) - ValueCount(kept))
                /\ sends' = [sends EXCEPT ![f] =
                     [Unused EXCEPT !.sender = "running", !.request = r, !.wire = sent.wire]]
           ELSE /\ sends' = [sends EXCEPT ![f] = failed_send(r)]
                /\ UNCHANGED <<dropped, withheld>>
  /\ UNCHANGED origins

\* sanitize_send on a response: the head is stripped, then shown to the guest.
SenderResponds(f, head) ==
  /\ sends[f].sender = "running"
  /\ sends' = [sends EXCEPT ![f].sender = "streaming", ![f].head = head,
                            ![f].seenHead = Admitted(strip_response_headers(head))]
  /\ UNCHANGED <<origins, dropped, made, withheld>>

\* sanitize_send on an error, and the mapped body's error later on: both are
\* scrubbed before the library converts them.
SenderFails(f, e) ==
  /\ sends[f].sender \in {"running", "streaming"}
  /\ sends' = [sends EXCEPT ![f].sender = "done", ![f].raised = e,
                            ![f].seenError = ErrorToP2(scrub_error(e))]
  /\ UNCHANGED <<origins, dropped, made, withheld>>

\* The body ends, with trailers that only forbidden_header_filter sees.
BodyEnds(f, trailers) ==
  /\ sends[f].sender = "streaming"
  /\ sends' = [sends EXCEPT ![f].sender = "done", ![f].trailers = trailers,
                            ![f].seenTrailers = Admitted(trailers)]
  /\ UNCHANGED <<origins, dropped, made, withheld>>

\* The guest drops its future or the response.  The wrapper owns the inner
\* send, which is aborted wherever it stands.
GuestDrops(f) ==
  /\ sends[f] # Unused
  /\ sends' = [sends EXCEPT ![f] = Unused]
  /\ UNCHANGED <<origins, dropped, made, withheld>>

HttpStep ==
  \E f \in Futures :
    \/ \E r \in Requests : send_request(f, r)
    \/ \E h \in UpHeads : SenderResponds(f, h) \/ BodyEnds(f, h)
    \/ \E e \in SendErrors : SenderFails(f, e)
    \/ GuestDrops(f)

-----------------------------------------------------------------------------
(* Properties.                                                             *)

Reached(s) == s.sender \notin {"none", "skipped"}

\* A request that reaches the sender is https to a host of the allowlist, did
\* not carry the credential handle, and carries only headers a plugin may set
\* and one Host, that of the URI the gate decided on; one that the gate refuses
\* never reaches it and the guest is not told why.
WireIsGated ==
  \A f \in Futures : LET s == sends[f] IN
    /\ Reached(s) =>
         /\ s.wire.https /\ origin_allowed(s.wire.host, origins)
         /\ RESERVED_CREDENTIAL_HEADER \notin DOMAIN s.request.headers
         /\ DOMAIN s.wire.headers \subseteq ALLOWED_REQUEST_HEADERS \cup {"host"}
         /\ s.wire.host = s.request.host /\ s.wire.headers["host"] = 1
    /\ s.sender = "skipped" => s.wire = NoRequest /\ s.seenError = HttpRequestDenied

\* wasi_guests.rs: "Request header values dropped by the policy so far".  Over
\* all sends the counter is exactly the values handed over and not sent; a send
\* that was refused adds nothing, one that was dropped half-way stays counted.
DroppedIsExact == dropped = withheld

\* wasi_guests.rs: "The error KIND is kept so a guest can still tell a timeout
\* from a refusal", and no text reaches it: not from the send, not from the
\* body later on, and not from the conversion after the hooks.  Cookie-setting
\* headers reach it neither in the head nor in the trailers, and every header
\* the library does not forbid does.
GuestSeesSanitized ==
  \A f \in Futures : LET s == sends[f] IN
    /\ ~s.seenError.text
    /\ s.raised # NoError => s.seenError.kind = ErrorToP2(s.raised).kind
    /\ \A pair \in {<<s.head, s.seenHead>>, <<s.trailers, s.seenTrailers>>} :
         pair[2] = Only(pair[1], DOMAIN pair[1] \ {"set-cookie", "set-cookie2", "host"})

\* A guest's send reaches the sender exactly when it is https, some entry of its
\* allowlist covers the host, the host is neither localhost nor a literal in the
\* blocks fetch_gate.rs documents, and the credential handle is absent; and so
\* the gate decides for any host and any allowlist.  The exception is an IPv6
\* literal in the brackets it has in a URI: it parses as no address, and the gate
\* lets it through on scheme and allowlist alone, in a documented block or not.
GateDecides ==
  /\ \A f \in Futures : LET s == sends[f] IN
       s.sender # "none" =>
         (Reached(s) <=> /\ Lets(s.request.https, s.request.host, origins)
                         /\ RESERVED_CREDENTIAL_HEADER \notin DOMAIN s.request.headers)
  /\ DecidesOnSamples

\* request_policy.rs promises a plugin "the same treatment" on both hosts.  What
\* this host has put on the wire and shown the guest is what the filters over
\* pairs, those of the other host, keep of it; and for any headers the two forms
\* keep the same names and values and count the same drops.
FiltersAgree ==
  LET pair(n) == << <<Header(n, TRUE), "v">> >>
  IN  /\ \A f \in Futures : LET s == sends[f] IN
           Reached(s) =>
             /\ DOMAIN s.wire.headers \ {"host"} =
                  {n \in DOMAIN s.request.headers : sanitize_request_headers(pair(n)).dropped = 0}
             /\ DOMAIN s.seenHead =
                  {n \in DOMAIN s.head \ {"host"} : sanitize_response_headers(pair(n)) # <<>>}
      /\ AgreeOnSamples
=============================================================================
