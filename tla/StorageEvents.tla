--------------------------- MODULE StorageEvents ---------------------------
(***************************************************************************)
(* src/storage_events.rs, StorageEventsHost: a plugin's key-value store    *)
(* behind a permission and two quotas, and a sink of events behind two     *)
(* caps.  All methods are synchronous on &mut self.                        *)
(***************************************************************************)
EXTENDS PluginCalls, FiniteSets

CONSTANTS
  STORAGE_MAX_KEYS, STORAGE_MAX_TOTAL_BYTES,
  EVENTS_MAX_COUNT, EVENT_MAX_PAYLOAD_BYTES

ASSUME QuotaAssumption ==
  {STORAGE_MAX_KEYS, STORAGE_MAX_TOTAL_BYTES, EVENTS_MAX_COUNT, EVENT_MAX_PAYLOAD_BYTES}
    \subseteq Nat

VARIABLES
  granted,   \* granted
  kv,        \* kv: a function on the keys present
  events,    \* events: the payloads captured
  reply      \* what the last call returned to the guest

storeVars == <<granted, kv, events, reply>>

\* StorageEventsHost::new
StoreInit(g) ==
  /\ granted = g
  /\ kv = NoKeys /\ events = <<>>
  /\ reply = Ok({})

\* total_bytes: the lengths of the values summed, counted byte by byte.
StoredBytes(f) == UNION {{k} \X (1..Len(f[k])) : k \in DOMAIN f}
TotalBytes(f)  == Cardinality(StoredBytes(f))

\* The method returns without touching the host.
Returns(r) == reply' = r /\ UNCHANGED <<granted, kv, events>>
Denied     == ~granted /\ Returns(Err("permission-denied"))

-----------------------------------------------------------------------------
(* A faulty variant, as in P3Session.                                      *)

\* The displaced value is counted as well.
ForgetfulSet(k, v) ==
  \/ Denied
  \/ /\ granted
     /\ \/ /\ \/ k \notin DOMAIN kv /\ Cardinality(DOMAIN kv) >= STORAGE_MAX_KEYS
              \/ TotalBytes(kv) + Len(v) > STORAGE_MAX_TOTAL_BYTES
           /\ Returns(Err("quota-exceeded"))
        \/ /\ k \in DOMAIN kv \/ Cardinality(DOMAIN kv) < STORAGE_MAX_KEYS
           /\ TotalBytes(kv) + Len(v) <= STORAGE_MAX_TOTAL_BYTES
           /\ kv' = With(kv, k, v)
           /\ reply' = Ok({})
           /\ UNCHANGED <<granted, events>>

-----------------------------------------------------------------------------
(* storage::Host                                                           *)

Get(k) ==
  \/ Denied
  \/ granted /\ Returns(Ok(Lookup(kv, k)))

\* Both quotas are checked on the state after the write.
Set(k, v) ==
  \/ Denied
  \/ /\ granted
     /\ LET old_len   == IF k \in DOMAIN kv THEN Len(kv[k]) ELSE 0
            projected == TotalBytes(kv) - old_len + Len(v)
            fits == /\ k \in DOMAIN kv \/ Cardinality(DOMAIN kv) < STORAGE_MAX_KEYS
                    /\ projected <= STORAGE_MAX_TOTAL_BYTES
        IN  \/ ~fits /\ Returns(Err("quota-exceeded"))
            \/ /\ fits
               /\ kv' = With(kv, k, v)
               /\ reply' = Ok({})
               /\ UNCHANGED <<granted, events>>

Delete(k) ==
  \/ Denied
  \/ /\ granted
     /\ kv' = Without(kv, k)
     /\ reply' = Ok({})
     /\ UNCHANGED <<granted, events>>

Clear ==
  \/ Denied
  \/ /\ granted
     /\ kv' = NoKeys
     /\ reply' = Ok({})
     /\ UNCHANGED <<granted, events>>

ListKeys ==
  \/ Denied
  \/ granted /\ Returns(Ok(DOMAIN kv))

-----------------------------------------------------------------------------
(* events::Host: never behind the gate.                                    *)

Emit(p) ==
  \/ Len(p) > EVENT_MAX_PAYLOAD_BYTES /\ Returns(Err("quota-exceeded"))
  \/ /\ Len(p) <= EVENT_MAX_PAYLOAD_BYTES
     /\ \/ Len(events) >= EVENTS_MAX_COUNT /\ Returns(Err("rate-limited"))
        \/ /\ Len(events) < EVENTS_MAX_COUNT
           /\ events' = Append(events, p)
           /\ reply' = Ok({})
           /\ UNCHANGED <<granted, kv>>

StorageCall ==
  \/ \E k \in Keys : Get(k) \/ Delete(k) \/ (\E v \in Values : Set(k, v))
  \/ Clear \/ ListKeys
  \/ \E p \in Payloads : Emit(p)

-----------------------------------------------------------------------------
(* Properties.                                                             *)

WithinQuota(f) ==
  /\ Cardinality(DOMAIN f) <= STORAGE_MAX_KEYS
  /\ TotalBytes(f) <= STORAGE_MAX_TOTAL_BYTES

WithinCaps(s) ==
  /\ Len(s) <= EVENTS_MAX_COUNT
  /\ \A i \in DOMAIN s : Len(s[i]) <= EVENT_MAX_PAYLOAD_BYTES

\* No sequence of sets, overwrites and deletes takes a plugin's store past its
\* key count or its bytes, nor its events past their number or their size.  And
\* the quota bounds what is stored, not what is written: a granted set is
\* refused only when the store with the new value in place of the old one would
\* exceed it.
QuotaIsExact ==
  /\ [](WithinQuota(kv) /\ WithinCaps(events))
  /\ [][\A k \in Keys, v \in Values :
          granted /\ Set(k, v) /\ WithinQuota(With(kv, k, v)) => kv' = With(kv, k, v)]_storeVars
=============================================================================
