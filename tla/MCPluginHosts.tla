--------------------------- MODULE MCPluginHosts ---------------------------
(* Model-checking instance of PluginHosts                                *)
EXTENDS PluginHosts

MCValues   == {<<>>, <<1>>, <<255, 62>>}
MCPayloads == {<<7>>, <<7, 8>>}

\* A wildcard beside literals in the blocks the gate documents.
Literals == {[i \in 1..4 |-> Octet(10)], <<Bracketed(Loopback6)>>}
MCAllowlists ==
  {<<>>, <<Below(<<Name("example")>>)>> \o SetToSeq({Exact(l) : l \in Literals})}

Api == <<Name("api"), Loud(Name("example"))>>
Req(https, to, headers) == [https |-> https, host |-> to, headers |-> headers]
MCRequests ==
  {Req(TRUE, Api, [n \in {"accept", "host", "authorization"} |-> IF n = "authorization" THEN 2 ELSE 1]),
   Req(TRUE, Api, [n \in {"host", "x-hellohq-credential"} |-> 1]),
   Req(FALSE, Api, [n \in {"host"} |-> 1])}
    \cup {Req(TRUE, l, [n \in {"host"} |-> 1]) : l \in Literals}
MCUpHeads == {NoHeaders, [n \in {"set-cookie", "user-agent"} |-> 2]}

\* Nothing in the hosts or in the promise orders keys.
KeySymmetry == Permutations(Keys)
=============================================================================
