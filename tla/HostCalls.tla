----------------------------- MODULE HostCalls -----------------------------
(***************************************************************************)
(* What a P3 session promises about the guest's host calls, with no thread,*)
(* channel or oneshot in sight: the calls of a run happen strictly one     *)
(* after the other, each is shown to the application at most once, each    *)
(* answered one returns exactly the answer given to it, and a call fails   *)
(* only because the application frees the session.                         *)
(***************************************************************************)
EXTENDS Integers

CONSTANTS Answers, NoAnswer, Gone, MaxCalls

CallIds == 1..MaxCalls

VARIABLES
  phase,    \* phase[k]: how far call k has come
  answer,   \* answer[k]: the application's answer to call k
  value,    \* value[k]: what call k returned to the guest
  service   \* "open", then "closing" and "closed" when the session is freed

vars == <<phase, answer, value, service>>

Settled == {"returned", "failed"}

Init ==
  /\ phase  = [k \in CallIds |-> "idle"]
  /\ answer = [k \in CallIds |-> NoAnswer]
  /\ value  = [k \in CallIds |-> NoAnswer]
  /\ service = "open"

\* k is the call the guest makes next: every earlier one has been settled.
IsNext(k) ==
  /\ phase[k] = "idle"
  /\ \A j \in CallIds : j < k => phase[j] \in Settled
  /\ \A j \in CallIds : j > k => phase[j] = "idle"

Issue(k) ==
  /\ IsNext(k)
  /\ phase' = [phase EXCEPT ![k] = IF service = "closed" THEN "cancelled" ELSE "issued"]
  /\ UNCHANGED <<answer, value, service>>

\* With the service closed a call may also fail on the spot.
Refuse(k) ==
  /\ IsNext(k) /\ service = "closed"
  /\ phase' = [phase EXCEPT ![k] = "failed"]
  /\ value' = [value EXCEPT ![k] = Gone]
  /\ UNCHANGED <<answer, service>>

Surface(k) ==
  /\ phase[k] = "issued" /\ service = "open"
  /\ phase' = [phase EXCEPT ![k] = "surfaced"]
  /\ UNCHANGED <<answer, value, service>>

Answer(k, a) ==
  /\ phase[k] = "surfaced" /\ service = "open"
  /\ phase' = [phase EXCEPT ![k] = "answered"]
  /\ answer' = [answer EXCEPT ![k] = a]
  /\ UNCHANGED <<value, service>>

Return(k) ==
  /\ phase[k] = "answered"
  /\ phase' = [phase EXCEPT ![k] = "returned"]
  /\ value' = [value EXCEPT ![k] = answer[k]]
  /\ UNCHANGED <<answer, service>>

Fail(k) ==
  /\ phase[k] = "cancelled"
  /\ phase' = [phase EXCEPT ![k] = "failed"]
  /\ value' = [value EXCEPT ![k] = Gone]
  /\ UNCHANGED <<answer, service>>

\* Freeing takes two steps: a surfaced call is cancelled first, then one that
\* was never surfaced.
CancelPhase(p) == [k \in CallIds |-> IF phase[k] = p THEN "cancelled" ELSE phase[k]]

Close ==
  /\ service = "open" /\ service' = "closing"
  /\ phase' = CancelPhase("surfaced")
  /\ UNCHANGED <<answer, value>>

Shut ==
  /\ service = "closing" /\ service' = "closed"
  /\ phase' = CancelPhase("issued")
  /\ UNCHANGED <<answer, value>>

Settle == \E k \in CallIds : Return(k) \/ Fail(k)

Next ==
  \/ \E k \in CallIds : Issue(k) \/ Refuse(k) \/ Surface(k)
  \/ \E k \in CallIds, a \in Answers : Answer(k, a)
  \/ Settle \/ Close \/ Shut

Spec == Init /\ [][Next]_vars

\* An answered or cancelled call returns to the guest; a free that has begun
\* goes through.
FairSpec == Spec /\ WF_vars(Settle) /\ WF_vars(Shut)
=============================================================================
