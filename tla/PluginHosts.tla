---------------------------- MODULE PluginHosts ----------------------------
(***************************************************************************)
(* The hosts a plugin may find itself on, each shown to keep the same      *)
(* promise.  A Go or JS guest runs on one store (GoGuestState) that holds  *)
(* the capability harness and the gated HTTP hooks; any other component    *)
(* runs on one of the typed hosts, whose store is the application's.       *)
(***************************************************************************)
EXTENDS Capstone, GatedHttp, TypedHosts

vars == <<capstoneVars, httpVars, typedVars>>

\* GoGuestState::with_origins: one store, its parts built independently.
GoGuestInit ==
  /\ \E granted_ \in BOOLEAN : CapstoneInit(granted_)
  /\ HttpInit
  /\ TypedInit("go-guest")

\* Start functions of the typed hosts; the other parts do not exist.
TypedHostInit ==
  /\ \E h \in TypedHostNames : TypedInit(h)
  /\ CapstoneInit(FALSE)
  /\ HttpInit /\ origins = <<>>

Init == GoGuestInit \/ TypedHostInit

Next ==
  \/ /\ hostKind = "go-guest"
     /\ \/ CapstoneStep /\ UNCHANGED <<httpVars, typedVars>>
        \/ HttpStep /\ UNCHANGED <<capstoneVars, typedVars>>
  \/ /\ hostKind # "go-guest"
     /\ TypedStep
     /\ UNCHANGED <<capstoneVars, httpVars>>

Spec == Init /\ [][Next]_vars

-----------------------------------------------------------------------------
(* Properties.                                                             *)

InMemory == hostKind = "go-guest"
Decoded(f) == [x \in DOMAIN f |-> b64_decode(f[x])]

\* The application has serviced the call in progress.
Serviced == reaction # NoJson /\ reaction # Refusal

Promise == INSTANCE PluginStorage WITH
  store  <- IF InMemory THEN kv ELSE Decoded(appKv),
  sink   <- IF InMemory THEN events ELSE Decoded(appEvents),
  call   <- calling,
  served <- Serviced,
  answer <- IF Serviced /\ calling.op # "log" THEN Decode(calling, reaction.data) ELSE Ok({}),
  ret    <- IF InMemory THEN reply ELSE returned

\* Whichever host serves it, in memory or across the session, the codec and the
\* application's strings, a plugin's call that returns Ok has taken effect once
\* and returns what was stored at that moment; a refused one has no effect; only
\* a freed session or an unreadable answer leaves it in doubt.
ImplementsPluginStorage == Promise!Spec
=============================================================================
