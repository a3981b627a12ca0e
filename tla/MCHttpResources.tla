-------------------------- MODULE MCHttpResources --------------------------
(* Small instances of HttpResources.                                       *)
EXTENDS HttpResources

MCOneName == {<<"accept", "lower">>}
\* One name in two casings and another one.
MCNames == {<<"accept", "lower">>, <<"accept", "upper">>, <<"host", "lower">>}

\* Headers shared between two requests, and options with a clone.
MCMaxRep == [k \in Kinds |-> CASE k = "fields" -> 1 [] k = "requests" -> 2
                               [] k = "responses" -> 0 [] k = "options" -> 2]
\* A request, and the caller's response with its headers and trailers.
MCMaxRepResponses == [k \in Kinds |-> CASE k = "fields" -> 3 [] k = "requests" -> 1
                                        [] k = "responses" -> 1 [] k = "options" -> 0]
=============================================================================
