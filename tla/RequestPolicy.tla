--------------------------- MODULE RequestPolicy ---------------------------
(***************************************************************************)
(* src/request_policy.rs, and the two filters of src/wasi_guests.rs that   *)
(* apply it to a hyper HeaderMap: which headers a plugin may set and see.  *)
(* A name is its trimmed lower-case text and whether it was written so; a  *)
(* header map is a function from the texts present to the number of values *)
(* each has.  The table below says of each text what the code finds by     *)
(* searching it.                                                           *)
(***************************************************************************)
EXTENDS Integers, Filters

\* Texts that stand for the allowlist, for each way of looking like a
\* credential, for the reserved header and for the rest.
HeaderTexts == {"accept", "if-none-match", "authorization", "cb-access-timestamp",
                "x-hellohq-credential", "host", "user-agent", "set-cookie", "set-cookie2"}

ALLOWED_REQUEST_HEADERS ==
  {"accept", "accept-language", "content-type", "if-none-match", "if-modified-since"}
STRIPPED_RESPONSE_HEADERS  == {"set-cookie", "set-cookie2"}
RESERVED_CREDENTIAL_HEADER == "x-hellohq-credential"

\* The members of CREDENTIAL_FRAGMENTS and CREDENTIAL_PREFIXES in a text.
credential_marks(n) ==
  CASE n = "authorization" -> {"auth"}
    [] n \in STRIPPED_RESPONSE_HEADERS -> {"cookie"}
    [] n = "cb-access-timestamp" -> {"cb-access-"}
    [] OTHER -> {}

\* trim().to_ascii_lowercase() gives the text.
Header(text, plain) == [text |-> text, plain |-> plain]
Normal(name) == name.text

is_credential_header_name(n)     == credential_marks(n) # {}
is_allowed_request_header(n)     == n \in ALLOWED_REQUEST_HEADERS /\ ~is_credential_header_name(n)
is_stripped_response_header(n)   == n \in STRIPPED_RESPONSE_HEADERS
is_reserved_credential_header(n) == n = RESERVED_CREDENTIAL_HEADER

\* Over (name, value) pairs, in their order.
sanitize_request_headers(headers) ==
  LET kept == Picked(headers, {i \in DOMAIN headers : is_allowed_request_header(Normal(headers[i][1]))})
  IN  [headers |-> [i \in DOMAIN kept |-> <<Normal(kept[i][1]), kept[i][2]>>],
       dropped |-> Len(headers) - Len(kept),
       dropped_credential |->
         \E i \in DOMAIN headers :
           LET n == Normal(headers[i][1])
           IN  ~is_allowed_request_header(n) /\ is_credential_header_name(n)]

sanitize_response_headers(headers) ==
  Picked(headers, {i \in DOMAIN headers : ~is_stripped_response_header(Normal(headers[i][1]))})

-----------------------------------------------------------------------------
(* The same policy over a header map (wasi_guests.rs).                     *)

Only(map, names) == [n \in DOMAIN map \cap names |-> map[n]]
ValueCount(map)  == Cardinality(UNION {{n} \X (1..map[n]) : n \in DOMAIN map})

\* One is counted for each name, however many values it had.
FaultyRetain(map) ==
  LET kept == Only(map, {n \in DOMAIN map : is_allowed_request_header(n)})
  IN  [headers |-> kept, dropped |-> Cardinality(DOMAIN map) - Cardinality(DOMAIN kept)]

retain_allowed_request_headers(map) ==
  LET kept == Only(map, {n \in DOMAIN map : is_allowed_request_header(n)})
  IN  [headers |-> kept, dropped |-> ValueCount(map) - ValueCount(kept)]

strip_response_headers(map) == Only(map, DOMAIN map \ STRIPPED_RESPONSE_HEADERS)

-----------------------------------------------------------------------------
(* The two forms of the policy against each other, over bounded inputs.    *)

\* What HeaderMap holds after the pairs are appended one by one.
MapOf(headers) ==
  [n \in {Normal(headers[i][1]) : i \in DOMAIN headers} |->
     Cardinality({i \in DOMAIN headers : Normal(headers[i][1]) = n})]
PairsOf(kept) == [i \in DOMAIN kept |-> <<Header(kept[i][1], TRUE), kept[i][2]>>]

SamplePairs   == {Header(t, p) : t \in HeaderTexts, p \in BOOLEAN} \X {"v"}
SampleHeaders == UNION {[1..n -> SamplePairs] : n \in 0..3}

\* The two forms keep the same names and values and count the same drops; and a
\* second pass changes nothing.
AgreeOn(headers) ==
  LET pairs == sanitize_request_headers(headers)
      again == sanitize_request_headers(PairsOf(pairs.headers))
      map   == retain_allowed_request_headers(MapOf(headers))
  IN  /\ MapOf(PairsOf(pairs.headers)) = map.headers
      /\ pairs.dropped = map.dropped
      /\ again = [headers |-> pairs.headers, dropped |-> 0, dropped_credential |-> FALSE]
      /\ MapOf(sanitize_response_headers(headers)) = strip_response_headers(MapOf(headers))

\* Whatever the names, their spelling and their repetitions.
AgreeOnSamples == \A headers \in SampleHeaders : AgreeOn(headers)
=============================================================================
