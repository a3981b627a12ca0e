--------------------------- MODULE MCGuestStores ---------------------------
(* Model-checking instance of GuestStores                                *)
EXTENDS GuestStores

Component(ms, ts, n) == [memories |-> ms, tables |-> ts, instances |-> n]

\* Under every cap; a memory or a table over its cap, or both; one memory, one
\* table and one instance too many.
MCComponents == {Component(<<1>>, <<1>>, 1), Component(<<3>>, <<>>, 1),
                 Component(<<3>>, <<3>>, 1), Component(<<2, 2, 2>>, <<>>, 1),
                 Component(<<>>, <<2, 2, 2>>, 1), Component(<<>>, <<>>, 3)}

\* Names without a word that is searched for, a function called refuel, and an
\* import called memory-limits.
MCNames == {{}, {"fuel"}, {"memory", "limit"}}
=============================================================================
