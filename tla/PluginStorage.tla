--------------------------- MODULE PluginStorage ---------------------------
(***************************************************************************)
(* What a plugin is promised by the sync capabilities of wit/world.wit,    *)
(* whichever host serves it: its calls happen one at a time; one that      *)
(* returns Ok has taken effect exactly once and returns what the host held *)
(* at that moment; one that is refused has had no effect; only when its    *)
(* answer is lost does the plugin not know.                                *)
(***************************************************************************)
EXTENDS PluginCalls

Refusals == {"permission-denied", "quota-exceeded", "rate-limited", "not-found"}
Lost     == {"not-found", "bad-response"}

\* What a call does to the store and to the events, and what it answers.  The
\* reads other than read-portfolio-names are refused by some hosts and their
\* data is not told apart.
Stored(o, f) ==
  CASE o.op = "set"    -> With(f, o.key, o.value)
    [] o.op = "delete" -> Without(f, o.key)
    [] o.op = "clear"  -> NoKeys
    [] OTHER           -> f
Emitted(o, s) == IF o.op = "emit" THEN Append(s, o.payload) ELSE s
Answer(o, f) ==
  CASE o.op = "get"       -> Ok(Lookup(f, o.key))
    [] o.op = "list-keys" -> Ok(DOMAIN f)
    [] o.op = "read-portfolio-names" -> Ok(Portfolios)
    [] OTHER              -> Ok({})

VARIABLES
  store,   \* the plugin's keys and values
  sink,    \* the events that have been accepted, in order
  call,    \* the call in progress, or NoOp
  served,  \* it has taken effect
  answer,  \* and this is its answer
  ret      \* what the last call returned

vars == <<store, sink, call, served, answer, ret>>

Init ==
  /\ store = NoKeys /\ sink = <<>>
  /\ call = NoOp /\ served = FALSE
  /\ answer = Ok({}) /\ ret = Ok({})

Call(o) ==
  /\ call = NoOp /\ call' = o
  /\ UNCHANGED <<store, sink, served, answer, ret>>

Serve ==
  /\ call # NoOp /\ ~served /\ served' = TRUE
  /\ store' = Stored(call, store)
  /\ sink' = Emitted(call, sink)
  /\ answer' = Answer(call, store)
  /\ UNCHANGED <<call, ret>>

\* log.write has no result, so it cannot fail.
Finish(r) ==
  /\ ret' = IF call.op = "log" THEN Ok({}) ELSE r
  /\ call' = NoOp /\ served' = FALSE /\ answer' = Ok({})
  /\ UNCHANGED <<store, sink>>

Return == served /\ Finish(answer)
Refuse == call # NoOp /\ ~served /\ \E c \in Refusals : Finish(Err(c))
Lose   == call # NoOp /\ \E c \in Lost : Finish(Err(c))

\* A host that keeps the store itself does it all in one step.
AtOnce(o) ==
  /\ call = NoOp
  /\ \/ /\ store' = Stored(o, store)
        /\ sink' = Emitted(o, sink)
        /\ ret' = Answer(o, store)
     \/ /\ o.op # "log"
        /\ \E c \in Refusals : ret' = Err(c)
        /\ UNCHANGED <<store, sink>>
  /\ UNCHANGED <<call, served, answer>>

Next ==
  \/ \E o \in Ops : Call(o) \/ AtOnce(o)
  \/ Serve \/ Return \/ Refuse \/ Lose

Spec == Init /\ [][Next]_vars
=============================================================================
