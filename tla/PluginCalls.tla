---------------------------- MODULE PluginCalls ----------------------------
(***************************************************************************)
(* The vocabulary of wit/world.wit that the hosts of a plugin share: the   *)
(* calls of the sync interfaces storage, events, log and workspace, and    *)
(* their results.                                                          *)
(***************************************************************************)
EXTENDS Integers, Sequences

CONSTANTS
  Keys,        \* storage keys
  Values,      \* the byte strings a guest stores
  Payloads,    \* the byte strings it emits
  Portfolios   \* what the workspace holds

ASSUME BytesAssumption == Values \cup Payloads \subseteq Seq(0..255)

Reads == {"read-sheet-structure", "read-asset-count", "read-currency-rates",
          "read-aggregated-values", "write-external-file"}

\* A call with the arguments that tell results apart.
Ops ==
  [op : {"get", "delete"}, key : Keys] \cup [op : {"set"}, key : Keys, value : Values]
    \cup [op : {"emit"}, payload : Payloads]
    \cup [op : {"clear", "list-keys", "log", "read-portfolio-names"} \cup Reads]
NoOp == [op |-> "none"]

\* result<_, api-error>.  The data of a success is a set: an option has at most
\* one element, a unit result none.
Ok(data)  == [ok |-> TRUE, data |-> data]
Err(code) == [ok |-> FALSE, code |-> code]

\* A partial function with k mapped to v, and one without k.
With(f, k, v) == [x \in DOMAIN f \cup {k} |-> IF x = k THEN v ELSE f[x]]
Without(f, k) == [x \in DOMAIN f \ {k} |-> f[x]]
Lookup(f, k)  == {f[x] : x \in DOMAIN f \cap {k}}
NoKeys        == [x \in {} |-> <<>>]
=============================================================================
