----------------------------- MODULE FetchGate -----------------------------
(***************************************************************************)
(* src/fetch_gate.rs: whether an outbound request of a guest may leave the *)
(* host.  A host is the sequence of its dot-separated labels.  A label is  *)
(* a name, of which there is the text in lower case; the digits of an      *)
(* octet, so that a host of four of them is an IPv4 literal; or, as the    *)
(* only one, the eight segments of an IPv6 literal, bare or in the         *)
(* brackets that it has in a URI and that `uri.host()` keeps               *)
(* (wasi_guests.rs).  Of each there is whether it was written in upper     *)
(* case; other spellings of an IPv6 address are not told apart.  An        *)
(* allowlist entry is a host, or with `wild` that host and those below it. *)
(***************************************************************************)
EXTENDS Integers, Sequences, SequencesExt

CONSTANT LabelTexts   \* the texts a name of a host may have, in lower case

ASSUME LabelTextsAssumption == {"api", "example", "localhost"} \subseteq LabelTexts

Word == 0 .. (256 * 256 - 1)

Label(kind, text, digits) == [kind |-> kind, text |-> text, digits |-> digits, upper |-> FALSE]
Name(text)          == Label("name", text, <<>>)
Octet(n)            == Label("octet", "", <<n>>)
Literal6(segments)  == Label("v6", "", segments)
Bracketed(segments) == Label("[v6]", "", segments)
Loud(label)         == [label EXCEPT !.upper = TRUE]

Labels ==
  [kind : {"name"}, text : LabelTexts, digits : {<<>>}, upper : BOOLEAN]
    \cup [kind : {"octet"}, text : {""}, digits : [1..1 -> 0..255], upper : BOOLEAN]
    \cup [kind : {"v6", "[v6]"}, text : {""}, digits : [1..8 -> Word], upper : BOOLEAN]
Hosts  == Seq(Labels) \ {<<>>}

Exact(host) == [wild |-> FALSE, host |-> host]
Below(host) == [wild |-> TRUE, host |-> host]
Entries     == [wild : BOOLEAN, host : Hosts]

to_ascii_lowercase(host) == [i \in DOMAIN host |-> [host[i] EXCEPT !.upper = FALSE]]

-----------------------------------------------------------------------------
(* Faulty variants: the definition each is named after, with one defect.   *)

\* A wildcard covers every longer host.
FaultyOriginAllowed(host, allowlist) ==
  \E i \in DOMAIN allowlist :
    LET norm == to_ascii_lowercase(allowlist[i].host)
    IN  to_ascii_lowercase(host) = norm \/ (allowlist[i].wild /\ Len(host) > Len(norm))

-----------------------------------------------------------------------------
\* is_blocked_v4, on the four octets.
is_blocked_v4(v4) ==
  \/ v4[1] = 127                                  \* is_loopback
  \/ v4[1] = 169 /\ v4[2] = 254                   \* is_link_local
  \/ v4[1] \in 224..239                           \* is_multicast
  \/ v4 = <<255, 255, 255, 255>>                  \* is_broadcast
  \/ v4[1] \in {0, 10}
  \/ v4[1] = 100 /\ v4[2] \in 64..127
  \/ v4[1] = 172 /\ v4[2] \in 16..31
  \/ v4[1] = 192 /\ v4[2] = 168

\* is_blocked_v6, on the eight segments.  An IPv4-mapped address is decided by
\* the address it embeds; the masks are quotients.
is_blocked_v6(v6) ==
  LET zeros(n) == \A i \in 1..n : v6[i] = 0
  IN  \/ zeros(7) /\ v6[8] \in {0, 1}
      \/ v6[1] \div 256 = 255
      \/ IF zeros(5) /\ v6[6] = 65535
           THEN is_blocked_v4(<<v6[7] \div 256, v6[7] % 256, v6[8] \div 256, v6[8] % 256>>)
           ELSE \/ v6[1] \div 512 = 126   \* & 0xFE00 = 0xFC00
                \/ v6[1] \div 64 = 1018   \* & 0xFFC0 = 0xFE80

is_blocked_address(ip) ==
  \/ ip.version = 4 /\ is_blocked_v4(ip.digits)
  \/ ip.version = 6 /\ is_blocked_v6(ip.digits)

\* host.parse::<IpAddr>(): four octets, or the segments of a literal that is not
\* in brackets; with them, it is no address.
NotAnIp == [version |-> 0, digits |-> <<>>]
parse(host) ==
  CASE Len(host) = 4 /\ (\A i \in 1..4 : host[i].kind = "octet") ->
         [version |-> 4, digits |-> [i \in 1..4 |-> host[i].digits[1]]]
    [] Len(host) = 1 /\ host[1].kind = "v6" -> [version |-> 6, digits |-> host[1].digits]
    [] OTHER -> NotAnIp

origin_allowed(host, allowlist) ==
  \E i \in DOMAIN allowlist :
    LET norm  == to_ascii_lowercase(allowlist[i].host)
        lower == to_ascii_lowercase(host)
    IN  lower = norm \/ (allowlist[i].wild /\ IsSuffix(norm, lower))

localhost == Name("localhost")

\* The checks in the order of the code; the first that fails decides.
check_request(https, host, allowlist) ==
  LET lower == to_ascii_lowercase(host)
  IN  CASE ~https -> "SchemeBlocked"
        [] https /\ ~origin_allowed(host, allowlist) -> "OriginBlocked"
        [] OTHER ->
             IF \/ lower # <<>> /\ Last(lower) = localhost
                \/ is_blocked_address(parse(host))
               THEN "AddressBlocked" ELSE "Ok"

-----------------------------------------------------------------------------
(* The reference, and the gate against it over bounded inputs.             *)

\* The blocks that the documentation of is_blocked_address names, by the first
\* sixteen bits of their first address and the number of such prefixes in them:
\* 0.0.0.0/8, 10.0.0.0/8, 100.64.0.0/10, 127.0.0.0/8, 169.254.0.0/16,
\* 172.16.0.0/12, 192.168.0.0/16 and multicast.
BlocksV4 == {<<0, 0, 256>>, <<10, 0, 256>>, <<100, 64, 64>>, <<127, 0, 256>>,
             <<169, 254, 1>>, <<172, 16, 16>>, <<192, 168, 1>>, <<224, 0, 4096>>}
Under(high, base, size) == high \div size = base \div size
DocumentedV4(v4) ==
  \/ \E b \in BlocksV4 : Under(v4[1] * 256 + v4[2], b[1] * 256 + b[2], b[3])
  \/ v4 = <<255, 255, 255, 255>>

\* ::, ::1, fc00::/7, fe80::/10 and ff00::/8; an embedded IPv4 address is
\* decided as such.
BlocksV6 == {<<64512, 512>>, <<65152, 64>>, <<65280, 256>>}
Zeros(v6, n) == \A i \in 1..n : v6[i] = 0
Embedded(v6) == <<v6[7] \div 256, v6[7] % 256, v6[8] \div 256, v6[8] % 256>>
DocumentedV6(v6) ==
  \/ Zeros(v6, 7) /\ v6[8] \in {0, 1}
  \/ \E b \in BlocksV6 : Under(v6[1], b[1], b[2])
  \/ Zeros(v6, 5) /\ v6[6] = 65535 /\ DocumentedV4(Embedded(v6))

Loopback6 == <<0, 0, 0, 0, 0, 0, 0, 1>>
Mapped(a, b, c, d) == <<0, 0, 0, 0, 0, 65535, a * 256 + b, c * 256 + d>>
Segments(s) == <<s, 0, 0, 0, 0, 0, 0, 2>>

\* The octet and mask tests against the prefixes, at every edge of every block,
\* for IPv4, for IPv6 and for IPv4 inside IPv6.
BlockedIsTheDocumentedBlocks ==
  /\ \A a, b \in 0..255 : \A c, d \in {0, 255} :
       is_blocked_v4(<<a, b, c, d>>) <=> DocumentedV4(<<a, b, c, d>>)
  /\ \A a \in {0, 9, 10, 100, 127, 172, 192, 223, 224, 255}, b \in {0, 15, 16, 63, 64, 168, 255} :
       is_blocked_v6(Mapped(a, b, 0, 1)) <=> DocumentedV6(Mapped(a, b, 0, 1))
  /\ \A s \in Word : is_blocked_v6(Segments(s)) <=> DocumentedV6(Segments(s))
  /\ is_blocked_v6([Loopback6 EXCEPT ![8] = 0]) /\ is_blocked_v6(Loopback6)

SampleLabels == {Name("api"), Name("example"), Loud(Name("example")), Octet(10), Octet(8), localhost}
SampleLiterals == {Literal6(Loopback6), Loud(Literal6(Segments(64512))), Literal6(Segments(8193)),
                   Bracketed(Loopback6), Bracketed(Segments(8193))}
SampleHosts ==
  (UNION {[1..n -> SampleLabels] : n \in 1..4}) \cup {<<l>> : l \in SampleLiterals}
SampleEntries ==
  {Exact(<<Name("example")>>), Exact(<<Octet(10), Octet(8), Octet(8), Octet(8)>>),
   Below(<<Loud(Name("example"))>>), Below(<<Octet(8)>>), Below(<<localhost>>)}
    \cup {Exact(<<l>>) : l \in SampleLiterals}

\* What is left of a host when case is ignored, and whether an entry covers it.
Texts(host) == [i \in DOMAIN host |-> <<host[i].kind, host[i].text, host[i].digits>>]
Covers(e, host) ==
  \E n \in 0 .. (IF e.wild THEN Len(host) - 1 ELSE 0) :
    SubSeq(Texts(host), n + 1, Len(host)) = Texts(e.host)
Permitted(https, host, allowlist) ==
  https /\ \E i \in DOMAIN allowlist : Covers(allowlist[i], host)

\* The host is an address literal, of either version and in brackets or not, in
\* the documented blocks.
InBrackets(host) == Len(host) = 1 /\ host[1].kind = "[v6]"
DocumentedLiteral(host) ==
  \/ /\ Len(host) = 4 /\ \A i \in 1..4 : host[i].kind = "octet"
     /\ DocumentedV4([i \in 1..4 |-> host[i].digits[1]])
  \/ Len(host) = 1 /\ host[1].kind \in {"v6", "[v6]"} /\ DocumentedV6(host[1].digits)

\* Some entry covers the host, and the host is neither localhost nor a literal
\* in the documented blocks.
MayLeave(https, host, allowlist) ==
  /\ Permitted(https, host, allowlist)
  /\ host[Len(host)].text # "localhost"
  /\ ~DocumentedLiteral(host)

\* What the gate decides: the documented rule, but for a literal in brackets,
\* which it takes for a name.
Lets(https, host, allowlist) ==
  IF InBrackets(host) THEN Permitted(https, host, allowlist)
                      ELSE MayLeave(https, host, allowlist)

\* Whatever the host, its spelling and the order and number of entries.
DecidesOnSamples ==
  /\ BlockedIsTheDocumentedBlocks
  /\ \A host \in SampleHosts, e1 \in SampleEntries, e2 \in SampleEntries, https \in BOOLEAN :
       \A list \in {<<>>, <<e1, e2>>} :
         (check_request(https, host, list) = "Ok") <=> Lets(https, host, list)
=============================================================================
