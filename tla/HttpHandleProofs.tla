-------------------------- MODULE HttpHandleProofs --------------------------
(***************************************************************************)
(* Proofs about HttpHandle, for every set of concurrent `handle` calls and *)
(* any number of body batches and pushes; the grammar of a session, for a  *)
(* guest that makes one call.                                              *)
(***************************************************************************)
EXTENDS HttpHandle, P3StreamProofs

-----------------------------------------------------------------------------
(* The inductive invariant.                                                *)

\* A thread is spawned once, and only the free replaces the event receiver.
SessionInv ==
  /\ caller = "none" => worker = "unborn"
  /\ rxOpen \/ caller \in {"joining", "freed"}
  /\ rxOpen \/ events = <<>>

\* The call is waiting for a response or has had it.
Waited == {"awaiting", "ok"}

\* What has happened to a call when it is where pc says.
CallInv(h) ==
  /\ bodyOpen[h] => pc[h] = "piping"
  /\ pc[h] # "piping" => body[h] = <<>>
  /\ pc[h] = "idle" => written[h] = 0 /\ ~inbound[h]
  /\ pc[h] \in Waited => inbound[h]

\* How many of its batches a call has forwarded; those after them are queued.
Forwarded(h) == written[h] - Len(body[h])

QueuedInv(h) ==
  /\ Len(body[h]) <= written[h]
  /\ \A i \in 1..Len(body[h]) : body[h][i] = Forwarded(h) + i

\* One call at most has the receiver; what it has read and what is queued are the
\* pushes in order, to the last; without a receiver nothing is queued.
HolderInv ==
  /\ \A h \in Handles : inbound[h] => inRx # "host"
  /\ \A g, h \in Handles : inbound[g] /\ inbound[h] => g = h
  /\ \A h \in Handles : received[h] # <<>> => inbound[h]

OrderInv ==
  /\ \A h \in Handles : \A i \in 1..Len(received[h]) : received[h][i] = i
  /\ inRx = "host" => pushed = Len(inQ) /\ \A i \in 1..Len(inQ) : inQ[i] = i
  /\ inRx = "taken" => \A h \in Handles : inbound[h] =>
       /\ Len(received[h]) + Len(inQ) = pushed
       /\ \A i \in 1..Len(inQ) : inQ[i] = Len(received[h]) + i
  /\ inRx = "dropped" => inQ = <<>>

\* Done is the last thing a worker sends.
DoneInv ==
  \A i \in 1..Len(Sent) : Sent[i].kind = "done" => worker = "exited" /\ i = Len(Sent)

\* The batches that were sent: once, in order, and none but the forwarded.
BatchInv(h) ==
  /\ \A i \in 1..Len(Sent), n \in 1..MaxBatches : BatchAt(Sent, i, h, n) =>
       /\ n <= Forwarded(h)
       /\ \A m \in 1..(n - 1) : \E j \in 1..(i - 1) : BatchAt(Sent, j, h, m)
       /\ \A j \in 1..Len(Sent) : BatchAt(Sent, j, h, n) => i = j
  /\ rxOpen => \A n \in 1..Forwarded(h) : \E i \in 1..Len(Sent) : BatchAt(Sent, i, h, n)

\* A call that waits has asked.
AskedInv(h) ==
  rxOpen /\ pc[h] \in Waited => \E e \in 1..Len(Sent) : Sent[e].kind = "end"

\* The session of a guest that makes one call, h.  Its head is the first frame;
HeadInv(h) ==
  /\ \A i \in 1..Len(Sent) : Sent[i].kind # "done" => pc[h] # "idle" /\ Sent[1] = Out(Head_(h))
  /\ \A i \in 1..Len(Sent) : Sent[i] = Out(Head_(h)) => i = 1
  /\ rxOpen /\ pc[h] \in InProgress => Len(Sent) > 0 /\ Sent[1] = Out(Head_(h))

\* its trailers are the last;
TrailersInv(h) ==
  \A i \in 1..Len(Sent) : Sent[i] = Out(Trailers_(h)) =>
    /\ pc[h] \in {"ending", "err"} \cup Waited
    /\ \A j \in 1..Len(Sent) : j > i => Sent[j].kind # "out"

\* and OUT_END comes after all of them.
EndInv(h) ==
  \A e \in 1..Len(Sent) : Sent[e].kind = "end" =>
    /\ pc[h] \in {"err"} \cup Waited
    /\ \A j \in 1..Len(Sent) : j > e => Sent[j].kind = "done"
    /\ \A n \in 1..written[h] : \E i \in 1..(e - 1) : BatchAt(Sent, i, h, n)

CallsInv == \A h \in Handles : CallInv(h) /\ QueuedInv(h)
SentInv == DoneInv /\ \A h \in Handles : BatchInv(h) /\ AskedInv(h)
OneCallInv == \A h : Handles = {h} => HeadInv(h) /\ TrailersInv(h) /\ EndInv(h)

IInv == TypeOK /\ SessionInv /\ CallsInv /\ HolderInv /\ OrderInv /\ SentInv /\ OneCallInv
-----------------------------------------------------------------------------
(* What was sent, and how a step may change it.                            *)

\* The frames of a request are told apart.
LEMMA FrameFacts ==
  /\ \A h : Head_(h).kind = "HEAD" /\ Trailers_(h).kind = "TRAILERS"
  /\ \A h, n : Body_(h, n).kind = "BODY" /\ Body_(h, n).of = h /\ Body_(h, n).n = n
  BY DEF Head_, Trailers_, Body_

\* What was sent is a sequence of events.
LEMMA SentTyped ==
  ASSUME TypeOK
  PROVE  Sent \in Seq(Events(RequestFrames)) /\ Len(Sent) \in Nat
  <1>1. Sent \in Seq(Events(RequestFrames))
    BY DEF TypeOK, StreamTypeOK, Sent
  <1> QED BY <1>1

\* What a step that sends nothing may do to a call.
QuietCall(h) ==
  /\ Forwarded(h) <= Forwarded(h)' /\ (rxOpen' => Forwarded(h)' = Forwarded(h))
  /\ written'[h] = written[h] \/ pc[h] = "piping"
  /\ pc'[h] = "idle" => pc[h] = "idle"
  /\ pc[h] \in {"ending", "err"} \cup Waited => pc'[h] \in {"ending", "err"} \cup Waited
  /\ pc[h] \in {"err"} \cup Waited => pc'[h] \in {"err"} \cup Waited
  /\ rxOpen' => /\ pc'[h] \in Waited => pc[h] \in Waited
                /\ pc'[h] \in InProgress => pc[h] \in InProgress

\* A step that sends nothing, or to nobody: a free may cut off what was sent.
Quiet ==
  /\ Len(Sent') \in Nat /\ Len(Sent') <= Len(Sent)
  /\ \A i \in 1..Len(Sent') : Sent'[i] = Sent[i]
  /\ rxOpen' => rxOpen /\ Len(Sent') = Len(Sent)
  /\ worker = "exited" => worker' = "exited"

\* The numbers of a call are numbers.
LEMMA CallNumbers ==
  ASSUME TypeOK, CallsInv, NEW h \in Handles
  PROVE  /\ written[h] \in Nat /\ written[h] <= MaxBatches /\ Len(body[h]) \in Nat
         /\ Forwarded(h) \in Nat /\ Forwarded(h) <= written[h]
  <1>1. written[h] \in Nat /\ written[h] <= MaxBatches /\ Len(body[h]) \in Nat
    BY HandlesAssumption DEF TypeOK
  <1>2. Len(body[h]) <= written[h]
    BY DEF CallsInv, QueuedInv
  <1> QED BY <1>1, <1>2 DEF Forwarded

\* A quiet step keeps what is known of what was sent.
LEMMA QuietInv ==
  ASSUME IInv, TypeOK', CallsInv', Quiet, \A h \in Handles : QuietCall(h)
  PROVE  SentInv' /\ OneCallInv'
  <1>0. Len(Sent) \in Nat /\ Len(Sent') \in Nat /\ Len(Sent') <= Len(Sent)
        /\ (\A i \in 1..Len(Sent') : i \in 1..Len(Sent) /\ Sent'[i] = Sent[i])
    BY SentTyped DEF IInv, Quiet
  <1>1. DoneInv'
    BY <1>0 DEF DoneInv, Quiet, IInv, SentInv
  <1>2. ASSUME NEW h \in Handles PROVE BatchInv(h)'
    <2>1. BatchInv(h) /\ Forwarded(h) <= Forwarded(h)' /\ (rxOpen' => Forwarded(h)' = Forwarded(h))
      BY DEF IInv, SentInv, QuietCall
    <2>2. Forwarded(h) \in Nat /\ Forwarded(h)' \in Nat
      <3>1. written'[h] \in Nat /\ Len(body'[h]) \in Nat
        BY HandlesAssumption DEF TypeOK
      <3>2. Len(body'[h]) <= written'[h]
        BY DEF CallsInv, QueuedInv
      <3> QED BY <3>1, <3>2, CallNumbers DEF IInv, Forwarded
    <2>3. ASSUME NEW i \in 1..Len(Sent'), NEW n \in 1..MaxBatches, BatchAt(Sent, i, h, n)'
          PROVE  /\ n <= Forwarded(h)'
                 /\ \A m \in 1..(n - 1) : \E j \in 1..(i - 1) : BatchAt(Sent, j, h, m)'
                 /\ \A j \in 1..Len(Sent') : BatchAt(Sent, j, h, n)' => i = j
      <3>1. i \in 1..Len(Sent) /\ BatchAt(Sent, i, h, n)
        BY <1>0, <2>3 DEF BatchAt
      <3>2. /\ n <= Forwarded(h)
            /\ \A m \in 1..(n - 1) : \E j \in 1..(i - 1) : BatchAt(Sent, j, h, m)
            /\ \A j \in 1..Len(Sent) : BatchAt(Sent, j, h, n) => i = j
        BY <2>1, <3>1 DEF BatchInv
      <3>3. n <= Forwarded(h)'
        BY <2>1, <2>2, <3>2
      <3>4. ASSUME NEW m \in 1..(n - 1) PROVE \E j \in 1..(i - 1) : BatchAt(Sent, j, h, m)'
        <4>1. PICK j \in 1..(i - 1) : BatchAt(Sent, j, h, m)
          BY <3>2
        <4>2. j \in 1..Len(Sent')
          BY <1>0
        <4> QED BY <1>0, <4>1, <4>2 DEF BatchAt
      <3>5. ASSUME NEW j \in 1..Len(Sent'), BatchAt(Sent, j, h, n)' PROVE i = j
        BY <1>0, <3>2, <3>5 DEF BatchAt
      <3> QED BY <3>3, <3>4, <3>5
    <2>4. ASSUME rxOpen', NEW n \in 1..Forwarded(h)'
          PROVE  \E i \in 1..Len(Sent') : BatchAt(Sent, i, h, n)'
      <3>1. PICK i \in 1..Len(Sent) : BatchAt(Sent, i, h, n)
        BY <2>1, <2>4 DEF BatchInv, Quiet
      <3>2. i \in 1..Len(Sent')
        BY <2>4, <3>1 DEF Quiet
      <3> QED BY <1>0, <3>1, <3>2 DEF BatchAt
    <2> QED BY <2>3, <2>4 DEF BatchInv
  <1>3. ASSUME NEW h \in Handles PROVE AskedInv(h)'
    BY <1>0 DEF AskedInv, IInv, SentInv, Quiet, QuietCall
  <1>4. ASSUME NEW h, Handles = {h} PROVE HeadInv(h)' /\ TrailersInv(h)' /\ EndInv(h)'
    <2>0. h \in Handles /\ HeadInv(h) /\ TrailersInv(h) /\ EndInv(h) /\ QuietCall(h)
      BY <1>4 DEF IInv, OneCallInv
    <2>1. HeadInv(h)'
      BY <1>0, <2>0 DEF HeadInv, Quiet, QuietCall
    <2>2. TrailersInv(h)'
      BY <1>0, <2>0 DEF TrailersInv, QuietCall
    <2>3. EndInv(h)'
      <3> SUFFICES ASSUME NEW e \in 1..Len(Sent'), Sent'[e].kind = "end"
                   PROVE  /\ pc'[h] \in {"err"} \cup Waited
                          /\ \A j \in 1..Len(Sent') : j > e => Sent'[j].kind = "done"
                          /\ \A n \in 1..written'[h] : \E i \in 1..(e - 1) : BatchAt(Sent, i, h, n)'
        BY DEF EndInv
      <3>1. e \in 1..Len(Sent) /\ Sent[e].kind = "end"
        BY <1>0
      <3>2. /\ pc[h] \in {"err"} \cup Waited
            /\ \A j \in 1..Len(Sent) : j > e => Sent[j].kind = "done"
            /\ \A n \in 1..written[h] : \E i \in 1..(e - 1) : BatchAt(Sent, i, h, n)
        BY <2>0, <3>1 DEF EndInv
      <3>3. pc'[h] \in {"err"} \cup Waited /\ written'[h] = written[h]
        BY <2>0, <3>2 DEF QuietCall, Waited
      <3>4. ASSUME NEW n \in 1..written'[h] PROVE \E i \in 1..(e - 1) : BatchAt(Sent, i, h, n)'
        <4>1. PICK i \in 1..(e - 1) : BatchAt(Sent, i, h, n)
          BY <3>2, <3>3
        <4>2. i \in 1..Len(Sent')
          BY <1>0
        <4> QED BY <1>0, <4>1, <4>2 DEF BatchAt
      <3> QED BY <1>0, <3>2, <3>3, <3>4
    <2> QED BY <2>1, <2>2, <2>3
  <1> QED BY <1>1, <1>2, <1>3, <1>4 DEF SentInv, OneCallInv

\* A step that sends one event.
Sends(e) ==
  /\ rxOpen /\ rxOpen' /\ Len(Sent') = Len(Sent) + 1
  /\ Sent'[Len(Sent) + 1] = e
  /\ \A i \in 1..Len(Sent) : Sent'[i] = Sent[i]

\* The batches of a call whose batch it is not.
LEMMA OtherBatches ==
  ASSUME IInv, NEW e, Sends(e), NEW h \in Handles, \A n : e # Out(Body_(h, n)),
         Forwarded(h)' = Forwarded(h)
  PROVE  BatchInv(h)'
  <1>0. Len(Sent) \in Nat /\ BatchInv(h)
    BY SentTyped DEF IInv, SentInv
  <1>1. \A i \in 1..Len(Sent') : i \in 1..Len(Sent) \/ i = Len(Sent) + 1
    BY <1>0 DEF Sends
  <1>2. \A i \in 1..Len(Sent') : \A n : BatchAt(Sent, i, h, n)' => i \in 1..Len(Sent) /\ BatchAt(Sent, i, h, n)
    BY <1>1 DEF Sends, BatchAt
  <1>3. \A i \in 1..Len(Sent) : \A n : BatchAt(Sent, i, h, n) => i \in 1..Len(Sent') /\ BatchAt(Sent, i, h, n)'
    BY <1>0 DEF Sends, BatchAt
  <1>4. ASSUME NEW i \in 1..Len(Sent'), NEW n \in 1..MaxBatches, BatchAt(Sent, i, h, n)'
        PROVE  /\ n <= Forwarded(h)'
               /\ \A m \in 1..(n - 1) : \E j \in 1..(i - 1) : BatchAt(Sent, j, h, m)'
               /\ \A j \in 1..Len(Sent') : BatchAt(Sent, j, h, n)' => i = j
    <2>1. i \in 1..Len(Sent) /\ BatchAt(Sent, i, h, n)
      BY <1>2, <1>4
    <2>2. /\ n <= Forwarded(h)
          /\ \A m \in 1..(n - 1) : \E j \in 1..(i - 1) : BatchAt(Sent, j, h, m)
          /\ \A j \in 1..Len(Sent) : BatchAt(Sent, j, h, n) => i = j
      BY <1>0, <2>1 DEF BatchInv
    <2>3. ASSUME NEW m \in 1..(n - 1) PROVE \E j \in 1..(i - 1) : BatchAt(Sent, j, h, m)'
      <3>1. PICK j \in 1..(i - 1) : BatchAt(Sent, j, h, m)
        BY <2>2
      <3>2. j \in 1..Len(Sent)
        BY <1>0, <2>1
      <3> QED BY <1>3, <3>1, <3>2
    <2> QED BY <1>2, <2>2, <2>3
  <1>5. ASSUME NEW n \in 1..Forwarded(h)' PROVE \E i \in 1..Len(Sent') : BatchAt(Sent, i, h, n)'
    BY <1>0, <1>3 DEF BatchInv, Sends
  <1> QED BY <1>4, <1>5 DEF BatchInv

\* The batches of the call that forwards its next.
LEMMA NextBatch ==
  ASSUME IInv, NEW h \in Handles, Sends(Out(Body_(h, Forwarded(h) + 1))),
         Forwarded(h)' = Forwarded(h) + 1
  PROVE  BatchInv(h)'
  <1>0. Len(Sent) \in Nat /\ BatchInv(h) /\ Forwarded(h) \in Nat
    BY SentTyped, CallNumbers DEF IInv, SentInv
  <1>1. \A i \in 1..Len(Sent') : i \in 1..Len(Sent) \/ i = Len(Sent) + 1
    BY <1>0 DEF Sends
  <1>a. PICK l, k : l = Len(Sent) + 1 /\ k = Forwarded(h) + 1
    OBVIOUS
  <1>2. BatchAt(Sent, l, h, k)' /\ \A n : BatchAt(Sent, l, h, n)' => n = k
    <2>1. \A n, m : Out(Body_(h, n)) = Out(Body_(h, m)) => n = m
      BY EventKinds, FrameFacts
    <2>2. Sent'[l] = Out(Body_(h, k))
      BY <1>a DEF Sends
    <2> QED BY <2>1, <2>2 DEF BatchAt
  <1>3. \A i \in 1..Len(Sent) : \A n : BatchAt(Sent, i, h, n) <=> BatchAt(Sent, i, h, n)'
    BY <1>0 DEF Sends, BatchAt
  <1>4. Len(Sent') = Len(Sent) + 1 /\ rxOpen
    BY DEF Sends
  <1>5. \A i \in 1..Len(Sent), n \in 1..MaxBatches : BatchAt(Sent, i, h, n) => n <= Forwarded(h)
    BY <1>0 DEF BatchInv
  <1>6. \A n \in 1..Forwarded(h) : \E i \in 1..Len(Sent) : BatchAt(Sent, i, h, n)
    BY <1>0, <1>4 DEF BatchInv
  <1>7. ASSUME NEW i \in 1..Len(Sent'), NEW n \in 1..MaxBatches, BatchAt(Sent, i, h, n)'
        PROVE  /\ n <= Forwarded(h)'
               /\ \A m \in 1..(n - 1) : \E j \in 1..(i - 1) : BatchAt(Sent, j, h, m)'
               /\ \A j \in 1..Len(Sent') : BatchAt(Sent, j, h, n)' => i = j
    <2>1. CASE i \in 1..Len(Sent)
      <3>1. BatchAt(Sent, i, h, n)
        BY <1>3, <1>7, <2>1
      <3>2. /\ n <= Forwarded(h)
            /\ \A m \in 1..(n - 1) : \E j \in 1..(i - 1) : BatchAt(Sent, j, h, m)
            /\ \A j \in 1..Len(Sent) : BatchAt(Sent, j, h, n) => i = j
        BY <1>0, <2>1, <3>1 DEF BatchInv
      <3>3. ASSUME NEW m \in 1..(n - 1) PROVE \E j \in 1..(i - 1) : BatchAt(Sent, j, h, m)'
        <4>1. PICK j \in 1..(i - 1) : BatchAt(Sent, j, h, m)
          BY <3>2
        <4>2. j \in 1..Len(Sent)
          BY <1>0, <2>1
        <4> QED BY <1>3, <4>1, <4>2
      <3>4. n # Forwarded(h) + 1 /\ n <= Forwarded(h)'
        BY <1>0, <3>2
      <3>5. \A j \in 1..Len(Sent') : BatchAt(Sent, j, h, n)' => i = j
        BY <1>1, <1>2, <1>3, <1>a, <3>2, <3>4
      <3> QED BY <3>3, <3>4, <3>5
    <2>2. CASE i = Len(Sent) + 1
      <3>1. n = Forwarded(h) + 1
        BY <1>2, <1>7, <1>a, <2>2
      <3>2. ASSUME NEW m \in 1..(n - 1) PROVE \E j \in 1..(i - 1) : BatchAt(Sent, j, h, m)'
        <4>1. PICK j \in 1..Len(Sent) : BatchAt(Sent, j, h, m)
          BY <1>0, <1>6, <3>1
        <4>2. j \in 1..(i - 1)
          BY <1>0, <2>2, <4>1
        <4> QED BY <1>3, <4>1, <4>2
      <3>3. ASSUME NEW j \in 1..Len(Sent'), BatchAt(Sent, j, h, n)' PROVE i = j
        <4>1. CASE j \in 1..Len(Sent)
          <5>1. BatchAt(Sent, j, h, n)
            BY <1>3, <3>3, <4>1
          <5>2. n <= Forwarded(h)
            BY <1>5, <4>1, <5>1
          <5> QED BY <1>0, <3>1, <5>2
        <4> QED BY <1>1, <2>2, <4>1
      <3> QED BY <1>0, <3>1, <3>2, <3>3
    <2> QED BY <1>1, <2>1, <2>2
  <1>8. ASSUME NEW n \in 1..Forwarded(h)' PROVE \E i \in 1..Len(Sent') : BatchAt(Sent, i, h, n)'
    <2>1. CASE n \in 1..Forwarded(h)
      <3>1. PICK i \in 1..Len(Sent) : BatchAt(Sent, i, h, n)
        BY <1>6, <2>1
      <3>2. i \in 1..Len(Sent')
        BY <1>0, <1>4
      <3> QED BY <1>3, <3>1, <3>2
    <2>2. CASE n = Forwarded(h) + 1
      <3>1. Len(Sent) + 1 \in 1..Len(Sent')
        BY <1>0, <1>4
      <3> QED BY <1>2, <1>a, <2>2, <3>1
    <2> QED BY <1>0, <2>1, <2>2
  <1> QED BY <1>7, <1>8 DEF BatchInv

\* An event that is not Done, from a worker that is running.
LEMMA DoneLast ==
  ASSUME IInv, NEW e, Sends(e), e.kind # "done", worker # "exited"
  PROVE  DoneInv'
  <1>1. Len(Sent) \in Nat /\ \A i \in 1..Len(Sent) : Sent[i].kind # "done"
    BY SentTyped DEF IInv, SentInv, DoneInv
  <1>2. \A i \in 1..Len(Sent') : i \in 1..Len(Sent) \/ i = Len(Sent) + 1
    BY <1>1 DEF Sends
  <1> QED BY <1>1, <1>2 DEF DoneInv, Sends

\* A call that waits has asked, this time or before.
LEMMA StillAsked ==
  ASSUME IInv, NEW e, Sends(e), NEW h \in Handles, pc'[h] \in Waited => pc[h] \in Waited \/ e.kind = "end"
  PROVE  AskedInv(h)'
  <1>1. Len(Sent) \in Nat /\ AskedInv(h)
    BY SentTyped DEF IInv, SentInv
  <1>2. \A i \in 1..Len(Sent) : i \in 1..Len(Sent') /\ Sent'[i] = Sent[i]
    BY <1>1 DEF Sends
  <1>3. Len(Sent) + 1 \in 1..Len(Sent') /\ Sent'[Len(Sent) + 1] = e /\ rxOpen
    BY <1>1 DEF Sends
  <1> QED BY <1>1, <1>2, <1>3 DEF AskedInv

\* One call: an event that keeps the head first.
LEMMA HeadFirst ==
  ASSUME IInv, NEW h, Handles = {h}, NEW e, Sends(e),
         \/ e = Out(Head_(h)) /\ Len(Sent) = 0 /\ pc'[h] # "idle"
         \/ /\ e # Out(Head_(h)) /\ e.kind # "done"
            /\ pc[h] \in InProgress /\ pc'[h] # "idle"
         \/ e.kind = "done" /\ pc'[h] = pc[h]
  PROVE  HeadInv(h)'
  <1>1. Len(Sent) \in Nat /\ HeadInv(h) /\ rxOpen
    BY SentTyped DEF IInv, OneCallInv, Sends
  <1>2. /\ \A i \in 1..Len(Sent') : i \in 1..Len(Sent) \/ i = Len(Sent) + 1
        /\ \A i \in 1..Len(Sent) : Sent'[i] = Sent[i]
        /\ Sent'[Len(Sent) + 1] = e /\ Len(Sent') = Len(Sent) + 1
    BY <1>1 DEF Sends
  <1>3. CASE e = Out(Head_(h)) /\ Len(Sent) = 0 /\ pc'[h] # "idle"
    <2>1. \A i \in 1..Len(Sent') : i = 1
      BY <1>2, <1>3
    <2>2. Len(Sent') = 1 /\ Sent'[1] = Out(Head_(h))
      BY <1>2, <1>3
    <2> QED BY <1>3, <2>1, <2>2 DEF HeadInv
  <1>4. CASE e # Out(Head_(h)) /\ e.kind # "done" /\ pc[h] \in InProgress /\ pc'[h] # "idle"
    <2>1. Len(Sent) > 0 /\ Sent[1] = Out(Head_(h)) /\ 1 \in 1..Len(Sent)
      BY <1>1, <1>4 DEF HeadInv
    <2>2. Sent'[1] = Out(Head_(h)) /\ Len(Sent') > 0
      BY <1>1, <1>2, <2>1
    <2>3. \A i \in 1..Len(Sent') : Sent'[i] = Out(Head_(h)) => i = 1
      BY <1>1, <1>2, <1>4 DEF HeadInv
    <2> QED BY <1>4, <2>2, <2>3 DEF HeadInv
  <1>5. CASE e.kind = "done" /\ pc'[h] = pc[h]
    <2>1. \A i \in 1..Len(Sent') : Sent'[i] = Out(Head_(h)) => i = 1
      BY <1>1, <1>2, <1>5, EventKinds DEF HeadInv
    <2>2. \A i \in 1..Len(Sent) : 1 \in 1..Len(Sent) /\ Sent'[1] = Sent[1]
      BY <1>1, <1>2
    <2>3. \A i \in 1..Len(Sent') : Sent'[i].kind # "done" => pc'[h] # "idle" /\ Sent'[1] = Out(Head_(h))
      BY <1>1, <1>2, <1>5, <2>2 DEF HeadInv
    <2>4. pc'[h] \in InProgress => Len(Sent') > 0 /\ Sent'[1] = Out(Head_(h))
      <3>1. pc'[h] \in InProgress => Len(Sent) > 0 /\ Sent[1] = Out(Head_(h)) /\ 1 \in 1..Len(Sent)
        BY <1>1, <1>5 DEF HeadInv
      <3> QED BY <1>1, <1>2, <3>1
    <2> QED BY <2>1, <2>3, <2>4 DEF HeadInv
  <1> QED BY <1>3, <1>4, <1>5

\* One call: an event that keeps the trailers last.
LEMMA TrailersLast ==
  ASSUME IInv, NEW h, Handles = {h}, NEW e, Sends(e),
         e.kind = "out" => pc[h] \notin {"ending", "err"} \cup Waited,
         e = Out(Trailers_(h)) => pc'[h] = "ending",
         pc[h] \in {"ending", "err"} \cup Waited => pc'[h] \in {"ending", "err"} \cup Waited
  PROVE  TrailersInv(h)'
  <1>1. Len(Sent) \in Nat /\ TrailersInv(h)
    BY SentTyped DEF IInv, OneCallInv
  <1>2. /\ \A i \in 1..Len(Sent') : i \in 1..Len(Sent) \/ i = Len(Sent) + 1
        /\ \A i \in 1..Len(Sent) : Sent'[i] = Sent[i]
        /\ Sent'[Len(Sent) + 1] = e
    BY <1>1 DEF Sends
  <1> SUFFICES ASSUME NEW i \in 1..Len(Sent'), Sent'[i] = Out(Trailers_(h))
               PROVE  /\ pc'[h] \in {"ending", "err"} \cup Waited
                      /\ \A j \in 1..Len(Sent') : j > i => Sent'[j].kind # "out"
    BY DEF TrailersInv
  <1>3. CASE i \in 1..Len(Sent)
    <2>1. /\ pc[h] \in {"ending", "err"} \cup Waited
          /\ \A j \in 1..Len(Sent) : j > i => Sent[j].kind # "out"
      BY <1>1, <1>2, <1>3 DEF TrailersInv
    <2> QED BY <1>2, <2>1
  <1>4. CASE i = Len(Sent) + 1
    BY <1>1, <1>2, <1>4
  <1> QED BY <1>2, <1>3, <1>4

\* One call: an event that keeps OUT_END at the end.
LEMMA EndLast ==
  ASSUME IInv, NEW h, Handles = {h}, NEW e, Sends(e),
         e.kind # "done" => pc[h] \notin {"err"} \cup Waited,
         pc[h] \in {"err"} \cup Waited => pc'[h] \in {"err"} \cup Waited /\ written'[h] = written[h],
         e.kind = "end" => /\ pc'[h] \in {"err"} \cup Waited
                           /\ written'[h] = written[h] /\ Forwarded(h) = written[h]
  PROVE  EndInv(h)'
  <1>0. h \in Handles
    OBVIOUS
  <1>1. Len(Sent) \in Nat /\ EndInv(h) /\ BatchInv(h) /\ rxOpen
    BY <1>0, SentTyped DEF IInv, OneCallInv, SentInv, Sends
  <1>2. /\ \A i \in 1..Len(Sent') : i \in 1..Len(Sent) \/ i = Len(Sent) + 1
        /\ \A i \in 1..Len(Sent) : Sent'[i] = Sent[i]
        /\ Sent'[Len(Sent) + 1] = e
    BY <1>1 DEF Sends
  <1>3. \A i \in 1..Len(Sent) : \A n : BatchAt(Sent, i, h, n) => BatchAt(Sent, i, h, n)'
    BY <1>2 DEF BatchAt
  <1> SUFFICES ASSUME NEW x \in 1..Len(Sent'), Sent'[x].kind = "end"
               PROVE  /\ pc'[h] \in {"err"} \cup Waited
                      /\ \A j \in 1..Len(Sent') : j > x => Sent'[j].kind = "done"
                      /\ \A n \in 1..written'[h] : \E i \in 1..(x - 1) : BatchAt(Sent, i, h, n)'
    BY DEF EndInv
  <1>4. CASE x \in 1..Len(Sent)
    <2>1. /\ pc[h] \in {"err"} \cup Waited
          /\ \A j \in 1..Len(Sent) : j > x => Sent[j].kind = "done"
          /\ \A n \in 1..written[h] : \E i \in 1..(x - 1) : BatchAt(Sent, i, h, n)
      BY <1>1, <1>2, <1>4 DEF EndInv
    <2>2. e.kind = "done" /\ pc'[h] \in {"err"} \cup Waited /\ written'[h] = written[h]
      BY <2>1
    <2>3. ASSUME NEW n \in 1..written'[h] PROVE \E i \in 1..(x - 1) : BatchAt(Sent, i, h, n)'
      <3>1. PICK i \in 1..(x - 1) : BatchAt(Sent, i, h, n)
        BY <2>1, <2>2
      <3>2. i \in 1..Len(Sent)
        BY <1>1, <1>4
      <3> QED BY <1>3, <3>1, <3>2
    <2> QED BY <1>2, <2>1, <2>2, <2>3
  <1>5. CASE x = Len(Sent) + 1
    <2>1. e.kind = "end"
      BY <1>2, <1>5
    <2>2. ASSUME NEW n \in 1..written'[h] PROVE \E i \in 1..(x - 1) : BatchAt(Sent, i, h, n)'
      <3>1. n \in 1..Forwarded(h)
        BY <2>1
      <3>2. PICK i \in 1..Len(Sent) : BatchAt(Sent, i, h, n)
        BY <1>1, <3>1 DEF BatchInv
      <3>3. i \in 1..(x - 1)
        BY <1>1, <1>5
      <3> QED BY <1>3, <3>2, <3>3
    <2>3. \A j \in 1..Len(Sent') : ~(j > x)
      BY <1>1, <1>2, <1>5
    <2> QED BY <2>1, <2>2, <2>3
  <1> QED BY <1>2, <1>4, <1>5

\* P3sOut sends the event, or nobody is there to receive it.
LEMMA EmitSends ==
  ASSUME TypeOK, NEW e \in Events(RequestFrames), Emit(<<e>>), drained' = drained, rxOpen' = rxOpen
  PROVE  /\ events' \in Seq(Events(RequestFrames))
         /\ rxOpen => Sends(e)
         /\ ~rxOpen => Sent' = Sent /\ events' = events
  <1> DEFINE es == <<e>>
  <1>1. es \in Seq(Events(RequestFrames)) /\ StreamTypeOK(RequestFrames)
    BY DEF TypeOK
  <1>2. /\ events' \in Seq(Events(RequestFrames)) /\ Sent \in Seq(Events(RequestFrames))
        /\ rxOpen => Sent' = Sent \o es
    BY <1>1, EmitExtends
  <1>3. /\ Len(Sent \o es) = Len(Sent) + 1 /\ (Sent \o es)[Len(Sent) + 1] = e
        /\ \A i \in 1..Len(Sent) : (Sent \o es)[i] = Sent[i]
    BY <1>2
  <1>4. rxOpen => Sends(e)
    BY <1>2, <1>3 DEF Sends
  <1>5. ~rxOpen => Sent' = Sent /\ events' = events
    BY DEF Emit, Sent
  <1> QED BY <1>2, <1>4, <1>5

\* The events of a request's frames.
LEMMA EventTypes ==
  ASSUME NEW h \in Handles
  PROVE  /\ Out(Head_(h)) \in Events(RequestFrames) /\ Out(Trailers_(h)) \in Events(RequestFrames)
         /\ \A n \in 1..MaxBatches : Out(Body_(h, n)) \in Events(RequestFrames)
         /\ OutEnd \in Events(RequestFrames)
  <1>1. Head_(h) \in RequestFrames /\ Trailers_(h) \in RequestFrames
    BY DEF RequestFrames, Head_, Trailers_
  <1>2. \A n \in 1..MaxBatches : Body_(h, n) \in RequestFrames
    BY DEF RequestFrames, Body_
  <1> QED BY <1>1, <1>2 DEF Events

-----------------------------------------------------------------------------
(* The transport.                                                          *)

\* Nothing has been sent, and no call has begun.
LEMMA InitInv == Init => IInv
  <1> SUFFICES ASSUME Init PROVE IInv
    OBVIOUS
  <1>1. TypeOK
    <2>1. StreamTypeOK(RequestFrames)
      BY StreamInitType DEF Init
    <2>2. \A S : <<>> \in Seq(S)
      OBVIOUS
    <2> QED BY <2>1, <2>2, HandlesAssumption DEF Init, TypeOK
  <1>2. SessionInv /\ HolderInv /\ OrderInv
    BY DEF Init, StreamInit, SessionInv, HolderInv, OrderInv
  <1>3. CallsInv
    BY DEF Init, CallsInv, CallInv, QueuedInv, Waited
  <1>4. Len(Sent) = 0
    BY DEF Init, StreamInit, Sent
  <1>5. ASSUME NEW h \in Handles PROVE BatchInv(h) /\ AskedInv(h)
    <2>1. Forwarded(h) = 0
      BY DEF Init, Forwarded
    <2> QED BY <1>4, <2>1 DEF Init, BatchInv, AskedInv, Waited
  <1>6. DoneInv
    BY <1>4 DEF DoneInv
  <1>7. OneCallInv
    BY <1>4 DEF Init, OneCallInv, HeadInv, TrailersInv, EndInv, InProgress
  <1> QED BY <1>1, <1>2, <1>3, <1>5, <1>6, <1>7 DEF IInv, SentInv

\* The calls stay where they are.
LEMMA IdleCalls ==
  ASSUME IInv, UNCHANGED handleVars
  PROVE  CallsInv' /\ \A h \in Handles : QuietCall(h)
  <1> USE DEF handleVars
  <1>1. CallsInv'
    BY DEF IInv, CallsInv, CallInv, QueuedInv, Forwarded
  <1>2. ASSUME NEW h \in Handles PROVE QuietCall(h)
    <2>1. Forwarded(h)' = Forwarded(h) /\ Forwarded(h) \in Nat
      BY CallNumbers DEF Forwarded, IInv
    <2> QED BY <2>1 DEF QuietCall
  <1> QED BY <1>1, <1>2

\* The C calls: a push goes to the end of the queue, polls move what was sent,
\* and a free may cut it off.
LEMMA CallerInv ==
  ASSUME IInv, Caller, UNCHANGED handleVars
  PROVE  IInv'
  <1>0. StreamTypeOK(RequestFrames)
    BY DEF IInv, TypeOK
  <1>1. TypeOK'
    BY <1>0, CallerType DEF IInv, TypeOK, handleVars
  <1>2. SessionInv'
    <2>1. SessionInv
      BY DEF IInv
    <2>2. CASE PollEvent
      BY <2>1, <2>2 DEF PollEvent, SessionInv, inVars, workerVars
    <2>3. CASE ~PollEvent
      BY <2>1, <2>3 DEF SessionInv, Caller, PollReturn, Start, StartFails, PollFinished, PollBlock,
             PollVanished, Push, PushEnd, FreeClose, FreeDisconnect, FreeJoin,
             callerVars, workerVars, outVars
    <2> QED BY <2>2, <2>3
  <1>3. CallsInv' /\ \A h \in Handles : QuietCall(h)
    BY IdleCalls
  <1>4. HolderInv'
    BY CallerInbound DEF IInv, HolderInv, handleVars
  <1>5. OrderInv'
    <2>1. /\ pushed \in Nat /\ inQ \in Seq(1..MaxPush) /\ Len(inQ) \in Nat
          /\ \A h \in Handles : Len(received[h]) \in Nat
      BY DEF IInv, TypeOK, StreamTypeOK
    <2>2. OrderInv
      BY DEF IInv
    <2>3. CASE inQ' = inQ /\ pushed' = pushed
      BY <2>2, <2>3, CallerInbound DEF OrderInv, handleVars
    <2>4. CASE inQ' = Append(inQ, pushed + 1) /\ pushed' = pushed + 1 /\ inTx /\ inRx # "dropped"
      <3>1. /\ Len(inQ') = Len(inQ) + 1 /\ inQ'[Len(inQ) + 1] = pushed + 1
            /\ \A i \in 1..Len(inQ) : inQ'[i] = inQ[i]
        BY <2>1, <2>4
      <3>2. \A i \in 1..Len(inQ') : i \in 1..Len(inQ) \/ i = Len(inQ) + 1
        BY <2>1, <3>1
      <3>3. inRx = "host" => pushed' = Len(inQ') /\ \A i \in 1..Len(inQ') : inQ'[i] = i
        BY <2>1, <2>2, <2>4, <3>1, <3>2 DEF OrderInv
      <3>4. ASSUME inRx = "taken", NEW h \in Handles, inbound[h]
            PROVE  /\ Len(received[h]) + Len(inQ') = pushed'
                   /\ \A i \in 1..Len(inQ') : inQ'[i] = Len(received[h]) + i
        <4>1. /\ Len(received[h]) + Len(inQ) = pushed
              /\ \A i \in 1..Len(inQ) : inQ[i] = Len(received[h]) + i
          BY <2>2, <3>4 DEF OrderInv
        <4>2. PICK a \in Nat, b \in Nat : a = Len(received[h]) /\ b = Len(inQ)
          BY <2>1
        <4>3. a + b = pushed /\ inQ'[b + 1] = pushed + 1 /\ Len(inQ') = b + 1
          BY <3>1, <4>1, <4>2
        <4>4. a + Len(inQ') = pushed' /\ inQ'[b + 1] = a + (b + 1)
          BY <2>1, <2>4, <4>3
        <4>5. \A i \in 1..Len(inQ') : inQ'[i] = a + i
          BY <3>1, <3>2, <4>1, <4>2, <4>4
        <4> QED BY <4>2, <4>4, <4>5
      <3>5. \A h \in Handles : \A i \in 1..Len(received[h]) : received[h][i] = i
        BY <2>2 DEF OrderInv
      <3> QED BY <2>4, <3>3, <3>4, <3>5, CallerInbound DEF OrderInv, handleVars
    <2> QED BY <2>3, <2>4, CallerInbound
  <1>6. Quiet
    <2>1. Sent \in Seq(Events(RequestFrames)) /\ Len(Sent) \in Nat
      BY SentTyped DEF IInv
    <2>2. worker = "exited" => worker' = "exited"
      BY CallerInbound DEF IInv, SessionInv
    <2>3. rxOpen' => rxOpen /\ Sent' = Sent
      BY <1>0, CallerKeepsSent
    <2>4. CASE Sent' = Sent
      BY <2>1, <2>2, <2>3, <2>4 DEF Quiet
    <2>5. CASE events' = <<>> /\ drained' = drained
      <3>1. drained \in Seq(Events(RequestFrames)) /\ events \in Seq(Events(RequestFrames))
        BY <1>0 DEF StreamTypeOK
      <3>2. Sent' = drained
        BY <2>5, <3>1 DEF Sent
      <3>3. Len(drained) \in Nat /\ Len(drained) <= Len(Sent)
        BY <3>1 DEF Sent
      <3>4. \A i \in 1..Len(drained) : drained[i] = Sent[i]
        BY <3>1 DEF Sent
      <3> QED BY <2>2, <2>3, <3>2, <3>3, <3>4 DEF Quiet
    <2> QED BY <1>0, <2>4, <2>5, CallerKeepsSent
  <1> QED BY <1>1, <1>2, <1>3, <1>4, <1>5, <1>6, QuietInv DEF IInv

\* Whoever drops the receiver drops what is queued in it.
LEMMA DroppedInv ==
  ASSUME IInv, inRx' = "dropped", inQ' = <<>>, UNCHANGED <<inbound, received>>
  PROVE  HolderInv' /\ OrderInv'
  BY DEF IInv, HolderInv, OrderInv

\* Nobody touches the inbound channel.
LEMMA InboundStays ==
  ASSUME IInv, UNCHANGED <<inVars, inbound, received>>
  PROVE  HolderInv' /\ OrderInv'
  BY DEF IInv, HolderInv, OrderInv, inVars

\* Nothing is sent, received or cut off.
LEMMA NothingSent ==
  ASSUME IInv, UNCHANGED <<events, drained>>, rxOpen' = rxOpen, worker = "exited" => worker' = "exited"
  PROVE  Quiet
  <1>1. Sent' = Sent
    BY DEF Sent
  <1>2. Len(Sent) \in Nat
    BY SentTyped DEF IInv
  <1> QED BY <1>1, <1>2 DEF Quiet

\* The worker begins and ends; its last word is Done.
LEMMA WorkerInv ==
  ASSUME IInv, UNCHANGED handleVars,
         \/ DriverStarts \/ SendDone \/ WorkerPanic
         \/ \E o \in {"output", "error"} : worker \in {"setup", "running"} /\ DriverReturns(o)
  PROVE  IInv'
  <1> USE DEF callerVars, outVars, inVars, workerVars
  <1>0. StreamTypeOK(RequestFrames)
    BY DEF IInv, TypeOK
  <1>1. TypeOK'
    BY <1>0, WorkerType DEF IInv, TypeOK, handleVars
  <1>2. CallsInv' /\ \A h \in Handles : QuietCall(h)
    BY IdleCalls
  <1>3. HolderInv' /\ OrderInv'
    BY DroppedInv, InboundStays DEF DriverStarts, SendDone, WorkerPanic, DriverReturns, handleVars
  <1>4. CASE SendDone
    <2>1. Done(outcome) \in Events(RequestFrames)
      BY <1>0 DEF StreamTypeOK, Events
    <2>2. PICK e : e = Done(outcome)
      OBVIOUS
    <2>3. e \in Events(RequestFrames) /\ Emit(<<e>>) /\ drained' = drained /\ rxOpen' = rxOpen
      BY <1>4, <2>1, <2>2 DEF SendDone
    <2>4. rxOpen => Sends(e)
      BY <2>3, EmitSends DEF IInv
    <2>5. ~rxOpen => Sent' = Sent /\ events' = events
      BY <2>3, EmitSends DEF IInv
    <2>6. SessionInv'
      BY <1>4, <2>3, <2>5 DEF IInv, SessionInv, SendDone
    <2>7. CASE rxOpen
      <3>0. e.kind = "done" /\ e # OutEnd /\ worker' = "exited" /\ worker = "finishing"
            /\ \A f : e # Out(f)
        BY <1>4, <2>2, EventKinds DEF SendDone
      <3>1. DoneInv'
        <4>1. Len(Sent) \in Nat /\ \A i \in 1..Len(Sent) : Sent[i].kind # "done"
          BY <3>0, SentTyped DEF IInv, SentInv, DoneInv
        <4>2. \A i \in 1..Len(Sent') : i \in 1..Len(Sent) \/ i = Len(Sent')
          BY <2>4, <2>7, <4>1 DEF Sends
        <4> QED BY <2>4, <2>7, <3>0, <4>1, <4>2 DEF DoneInv, Sends
      <3>2. ASSUME NEW h \in Handles PROVE BatchInv(h)' /\ AskedInv(h)'
        <4>1. Forwarded(h)' = Forwarded(h) /\ pc' = pc
          BY DEF Forwarded, handleVars
        <4> QED BY <2>4, <2>7, <3>0, <4>1, OtherBatches, StillAsked
      <3>3. ASSUME NEW h, Handles = {h} PROVE HeadInv(h)' /\ TrailersInv(h)' /\ EndInv(h)'
        <4>1. pc' = pc /\ written' = written
          BY DEF handleVars
        <4>2. HeadInv(h)'
          BY <2>4, <2>7, <3>0, <3>3, <4>1, HeadFirst
        <4>3. TrailersInv(h)'
          BY <2>4, <2>7, <3>0, <3>3, <4>1, TrailersLast
        <4>4. EndInv(h)'
          BY <2>4, <2>7, <3>0, <3>3, <4>1, EndLast
        <4> QED BY <4>2, <4>3, <4>4
      <3>4. SentInv' /\ OneCallInv'
        BY <3>1, <3>2, <3>3 DEF SentInv, OneCallInv
      <3> QED BY <1>1, <1>2, <1>3, <2>6, <3>4 DEF IInv
    <2>8. CASE ~rxOpen
      <3>1. Quiet
        BY <1>4, <2>3, <2>5, <2>8, NothingSent DEF SendDone
      <3> QED BY <1>1, <1>2, <1>3, <2>6, <3>1, QuietInv DEF IInv
    <2> QED BY <2>7, <2>8
  <1>5. CASE ~SendDone
    <2>1. /\ UNCHANGED <<events, drained, rxOpen, caller>> /\ worker # "exited"
          /\ worker # "unborn" /\ worker' # "unborn"
      BY <1>5 DEF DriverStarts, WorkerPanic, DriverReturns
    <2>2. Quiet
      BY <2>1, NothingSent
    <2>3. SessionInv'
      BY <2>1 DEF IInv, SessionInv
    <2> QED BY <1>1, <1>2, <1>3, <2>2, <2>3, QuietInv DEF IInv
  <1> QED BY <1>4, <1>5

-----------------------------------------------------------------------------
(* The calls.                                                              *)

\* What a call may send, and where it is before and after.
Outgoing(h, e) ==
  \/ e = Out(Head_(h)) /\ pc[h] = "idle" /\ pc'[h] \in {"piping", "err"}
  \/ \E n : e = Out(Body_(h, n)) /\ pc[h] = "piping" /\ pc'[h] = "piping"
  \/ e = Out(Trailers_(h)) /\ pc[h] = "trailers" /\ pc'[h] = "ending"
  \/ e = OutEnd /\ pc[h] = "ending" /\ pc'[h] \in {"awaiting", "err"}

\* A call sends an event.
LEMMA CallSends ==
  ASSUME IInv, NEW h \in Handles, NEW e, Sends(e), Outgoing(h, e), worker = "running",
         \A g \in Handles : pc'[g] = pc[g] \/ g = h, written' = written,
         \A g \in Handles : BatchInv(g)'
  PROVE  SentInv' /\ OneCallInv'
  <1>1. e.kind \in {"out", "end"} /\ (e.kind = "end" <=> e = OutEnd)
    BY EventKinds DEF Outgoing
  <1>2. DoneInv'
    BY <1>1, DoneLast
  <1>3. ASSUME NEW g \in Handles PROVE AskedInv(g)'
    <2>1. pc'[g] \in Waited => pc[g] \in Waited \/ e.kind = "end"
      BY <1>1 DEF Outgoing, Waited
    <2> QED BY <2>1, StillAsked
  <1>4. ASSUME NEW g, Handles = {g} PROVE HeadInv(g)' /\ TrailersInv(g)' /\ EndInv(g)'
    <2>0. g = h
      BY <1>4
    <2>1. e # Out(Head_(h)) => /\ pc[h] \in InProgress /\ pc'[h] # "idle"
      BY DEF Outgoing, InProgress
    <2>2. e = Out(Head_(h)) => Len(Sent) = 0 /\ pc'[h] # "idle"
      <3> SUFFICES ASSUME e = Out(Head_(h)) PROVE Len(Sent) = 0 /\ pc'[h] # "idle"
        OBVIOUS
      <3>1. pc[h] = "idle" /\ pc'[h] # "idle"
        BY EventKinds, FrameFacts DEF Outgoing
      <3>2. HeadInv(h) /\ DoneInv /\ Len(Sent) \in Nat
        BY <1>4, <2>0, SentTyped DEF IInv, OneCallInv, SentInv
      <3>3. \A i \in 1..Len(Sent) : FALSE
        BY <3>1, <3>2 DEF HeadInv, DoneInv
      <3>4. ~(Len(Sent) > 0)
        BY <3>2, <3>3
      <3> QED BY <3>1, <3>2, <3>4
    <2>3. HeadInv(h)'
      BY <1>1, <1>4, <2>0, <2>1, <2>2, HeadFirst
    <2>4. TrailersInv(h)'
      <3>1. e.kind = "out" => pc[h] \notin {"ending", "err"} \cup Waited
        BY <1>1, EventKinds DEF Outgoing, Waited
      <3>2. e = Out(Trailers_(h)) => pc'[h] = "ending"
        BY EventKinds, FrameFacts DEF Outgoing
      <3>3. pc[h] \in {"ending", "err"} \cup Waited => pc'[h] \in {"ending", "err"} \cup Waited
        BY DEF Outgoing, Waited
      <3> QED BY <1>4, <2>0, <3>1, <3>2, <3>3, TrailersLast
    <2>5. EndInv(h)'
      <3>1. pc[h] \notin {"err"} \cup Waited
        BY DEF Outgoing, Waited
      <3>2. e.kind = "end" => pc'[h] \in {"err"} \cup Waited /\ pc[h] # "piping"
        BY <1>1, EventKinds DEF Outgoing, Waited
      <3>3. pc[h] # "piping" => Forwarded(h) = written[h]
        <4>1. pc[h] # "piping" => body[h] = <<>>
          BY DEF IInv, CallsInv, CallInv
        <4>2. written[h] \in Nat /\ Len(<<>>) = 0
          BY CallNumbers DEF IInv
        <4> QED BY <4>1, <4>2 DEF Forwarded
      <3>4. written'[h] = written[h]
        OBVIOUS
      <3> QED BY <1>4, <2>0, <3>1, <3>2, <3>3, <3>4, EndLast
    <2> QED BY <2>0, <2>3, <2>4, <2>5
  <1> QED BY <1>2, <1>3, <1>4 DEF SentInv, OneCallInv

\* A step of a call that sends nothing.
LEMMA CallQuiet ==
  ASSUME IInv, TypeOK', CallsInv', HolderInv', OrderInv', \A g \in Handles : QuietCall(g),
         UNCHANGED <<caller, drained, events, rxOpen, worker>>
  PROVE  IInv'
  <1>1. Quiet
    BY NothingSent
  <1>2. SessionInv'
    BY DEF IInv, SessionInv
  <1> QED BY <1>1, <1>2, QuietInv DEF IInv

\* A step of a call that sends an event.
LEMMA CallEmits ==
  ASSUME IInv, TypeOK', CallsInv', HolderInv', OrderInv',
         NEW h \in Handles, NEW e \in Events(RequestFrames), Emit(<<e>>), Outgoing(h, e),
         UNCHANGED <<caller, drained, rxOpen, worker, written>>, worker = "running",
         \A g \in Handles : pc'[g] = pc[g] \/ g = h,
         \A g \in Handles :
           \/ Forwarded(g)' = Forwarded(g) /\ \A n : e # Out(Body_(g, n))
           \/ /\ g = h /\ e = Out(Body_(h, Forwarded(h) + 1))
              /\ Forwarded(h)' = Forwarded(h) + 1
  PROVE  IInv'
  <1>1. rxOpen => Sends(e)
    BY EmitSends DEF IInv
  <1>2. ~rxOpen => Sent' = Sent /\ events' = events
    BY EmitSends DEF IInv
  <1>3. SessionInv'
    BY <1>2 DEF IInv, SessionInv
  <1>4. CASE rxOpen
    <2>1. \A g \in Handles : BatchInv(g)'
      <3> SUFFICES ASSUME NEW g \in Handles PROVE BatchInv(g)'
        OBVIOUS
      <3>1. CASE Forwarded(g)' = Forwarded(g) /\ \A n : e # Out(Body_(g, n))
        BY <1>1, <1>4, <3>1, OtherBatches
      <3>2. CASE /\ g = h /\ e = Out(Body_(h, Forwarded(h) + 1))
                 /\ Forwarded(h)' = Forwarded(h) + 1
        BY <1>1, <1>4, <3>2, NextBatch
      <3> QED BY <3>1, <3>2
    <2>2. SentInv' /\ OneCallInv'
      BY <1>1, <1>4, <2>1, CallSends
    <2> QED BY <1>3, <2>2 DEF IInv
  <1>5. CASE ~rxOpen
    <2>1. ASSUME NEW g \in Handles PROVE QuietCall(g)
      <3>1. Forwarded(g) \in Nat
        BY CallNumbers DEF IInv
      <3>2. Forwarded(g) <= Forwarded(g)'
        BY <3>1
      <3>3. pc'[g] = pc[g] \/ Outgoing(g, e)
        OBVIOUS
      <3> QED BY <1>5, <3>2, <3>3 DEF QuietCall, Outgoing, Waited
    <2> QED BY <1>2, <1>5, <2>1, CallQuiet
  <1> QED BY <1>4, <1>5

\* The types of the inbound channel and of the history of what was received.
LEMMA CallTypes ==
  ASSUME TypeOK
  PROVE  /\ inQ \in Seq(1..MaxPush) /\ pushed \in Nat
         /\ received \in [Handles -> Seq(1..MaxPush)]
         /\ body \in [Handles -> Seq(1..MaxBatches)]
         /\ written \in [Handles -> 0..MaxBatches]
         /\ pc \in [Handles -> {"idle", "ok", "err"} \cup InProgress]
         /\ bodyOpen \in [Handles -> BOOLEAN] /\ inbound \in [Handles -> BOOLEAN]
  BY DEF TypeOK, StreamTypeOK

\* handle: the head is sent, and the receiver taken if it is there.
LEMMA HandleInv ==
  ASSUME IInv, NEW h \in Handles, NEW b \in BOOLEAN, NEW t \in BOOLEAN, Handle(h, b, t)
  PROVE  IInv'
  <1> USE DEF Handle, callerVars, workerVars
  <1>0. TypeOK /\ CallInv(h)
    BY DEF IInv, CallsInv
  <1>1. PICK e : e = Out(Head_(h))
    OBVIOUS
  <1>2. e \in Events(RequestFrames) /\ Emit(<<e>>) /\ \A g, n : e # Out(Body_(g, n))
    BY <1>1, EventTypes, EventKinds, FrameFacts
  <1>3. events' \in Seq(Events(RequestFrames))
    BY <1>0, <1>2, EmitSends
  <1>4. TypeOK'
    <2>1. inRx' \in {"host", "taken", "dropped"} /\ pc' \in [Handles -> {"idle", "ok", "err"} \cup InProgress]
      BY <1>0 DEF TypeOK, StreamTypeOK, InProgress
    <2>2. bodyOpen' \in [Handles -> BOOLEAN] /\ inbound' \in [Handles -> BOOLEAN]
      BY <1>0 DEF TypeOK
    <2>3. trailers' \in [Handles -> {"none", "pending", "fields", "nothing"}]
      BY <1>0 DEF TypeOK
    <2> QED BY <1>0, <1>3, <2>1, <2>2, <2>3 DEF TypeOK, StreamTypeOK
  <1>5. CallsInv'
    BY <1>0, CallTypes DEF IInv, CallsInv, CallInv, QueuedInv, Forwarded, Waited
  <1>6. HolderInv'
    BY <1>0, CallTypes DEF IInv, HolderInv, CallInv
  <1>7. OrderInv'
    <2>1. CASE inRx = "host"
      <3>1. \A g \in Handles : ~inbound[g] /\ received[g] = <<>>
        BY <2>1 DEF IInv, HolderInv
      <3>2. pushed = Len(inQ) /\ \A i \in 1..Len(inQ) : inQ[i] = i
        BY <2>1 DEF IInv, OrderInv
      <3>3. Len(inQ) \in Nat
        BY <1>0, CallTypes
      <3>4. \A g \in Handles : Len(received[g]) = 0
        BY <3>1
      <3>5. \A g \in Handles : /\ Len(received[g]) + Len(inQ) = pushed
                               /\ \A i \in 1..Len(inQ) : inQ[i] = Len(received[g]) + i
        BY <3>2, <3>3, <3>4
      <3> QED BY <2>1, <3>4, <3>5 DEF OrderInv
    <2>2. CASE inRx # "host"
      <3>1. inbound' = [inbound EXCEPT ![h] = FALSE] /\ inRx' = inRx
        BY <2>2
      <3>2. \A g \in Handles : inbound'[g] => inbound[g]
        BY <1>0, <3>1, CallTypes
      <3> QED BY <2>2, <3>1, <3>2 DEF IInv, OrderInv
    <2> QED BY <2>1, <2>2
  <1>8. Outgoing(h, e) /\ \A g \in Handles : pc'[g] = pc[g] \/ g = h
    BY <1>0, <1>1, CallTypes DEF Outgoing
  <1>9. \A g \in Handles : Forwarded(g)' = Forwarded(g)
    BY DEF Forwarded
  <1> QED BY <1>2, <1>4, <1>5, <1>6, <1>7, <1>8, <1>9, CallEmits DEF outVars

\* The call is over before anything is sent.
LEMMA HandleRejectedInv ==
  ASSUME IInv, NEW h \in Handles, HandleRejected(h)
  PROVE  IInv'
  <1> USE DEF HandleRejected, streamVars, callerVars, outVars, inVars, workerVars
  <1>0. TypeOK /\ CallInv(h)
    BY DEF IInv, CallsInv
  <1>1. TypeOK'
    BY <1>0 DEF TypeOK, StreamTypeOK
  <1>2. CallsInv'
    BY <1>0, CallTypes DEF IInv, CallsInv, CallInv, QueuedInv, Forwarded, Waited
  <1>3. HolderInv' /\ OrderInv'
    BY InboundStays
  <1>4. ASSUME NEW g \in Handles PROVE QuietCall(g)
    <2>1. Forwarded(g)' = Forwarded(g) /\ Forwarded(g) \in Nat
      BY CallNumbers DEF Forwarded, IInv
    <2> QED BY <1>0, <2>1, CallTypes DEF QuietCall, InProgress, Waited
  <1> QED BY <1>1, <1>2, <1>3, <1>4, CallQuiet

\* The call fails with its head sent: at once, or while it waits for trailers.
LEMMA PipeFailsInv ==
  ASSUME IInv, NEW h \in Handles, PipeFails(h)
  PROVE  IInv'
  <1> USE DEF PipeFails, callerVars, workerVars
  <1>0. TypeOK /\ CallInv(h)
    BY DEF IInv, CallsInv
  <1>1. PICK e : e = Out(Head_(h))
    OBVIOUS
  <1>2. e \in Events(RequestFrames) /\ \A g, n : e # Out(Body_(g, n))
    BY <1>1, EventTypes, EventKinds, FrameFacts
  <1>3. events' \in Seq(Events(RequestFrames))
    BY <1>0, <1>1, <1>2, EmitSends DEF TypeOK, StreamTypeOK
  <1>4. TypeOK'
    <2>1. inRx' \in {"host", "taken", "dropped"}
      BY <1>0 DEF TypeOK, StreamTypeOK
    <2>2. inQ' = inQ \/ inQ' = <<>>
      OBVIOUS
    <2>3. \A S : <<>> \in Seq(S)
      OBVIOUS
    <2>4. inQ \in Seq(1..MaxPush) /\ <<>> \in Seq(1..MaxPush)
      BY <1>0, <2>3, CallTypes
    <2>5. inQ' \in Seq(1..MaxPush)
      BY <2>2, <2>4
    <2> QED BY <1>0, <1>3, <2>1, <2>5 DEF TypeOK, StreamTypeOK
  <1>5. CallsInv'
    BY <1>0, CallTypes DEF IInv, CallsInv, CallInv, QueuedInv, Forwarded, Waited
  <1>6. HolderInv' /\ OrderInv'
    BY DroppedInv, InboundStays DEF inVars
  <1>7. \A g \in Handles : Forwarded(g)' = Forwarded(g) /\ (pc'[g] = pc[g] \/ g = h)
    BY <1>0, CallTypes DEF Forwarded
  <1>8. CASE pc[h] = "idle" /\ Emit(<<Out(Head_(h))>>)
    <2>1. Outgoing(h, e) /\ Emit(<<e>>)
      BY <1>0, <1>1, <1>8, CallTypes DEF Outgoing
    <2> QED BY <1>2, <1>4, <1>5, <1>6, <1>7, <2>1, CallEmits
  <1>9. CASE pc[h] = "trailers" /\ UNCHANGED events
    <2>1. ASSUME NEW g \in Handles PROVE QuietCall(g)
      <3>1. Forwarded(g) \in Nat
        BY CallNumbers DEF IInv
      <3> QED BY <1>0, <1>7, <1>9, <3>1, CallTypes DEF QuietCall, InProgress, Waited
    <2> QED BY <1>4, <1>5, <1>6, <1>9, <2>1, CallQuiet
  <1> QED BY <1>8, <1>9

\* The guest writes a batch: it is queued after those that are.
LEMMA GuestWritesInv ==
  ASSUME IInv, NEW h \in Handles, GuestWrites(h)
  PROVE  IInv'
  <1> USE DEF GuestWrites, streamVars, callerVars, outVars, inVars, workerVars
  <1>0. TypeOK /\ CallInv(h) /\ QueuedInv(h) /\ pc[h] = "piping"
    BY DEF IInv, CallsInv, CallInv
  <1>a. PICK q : q = body[h]
    OBVIOUS
  <1>1. PICK w \in Nat, l \in Nat : w = written[h] /\ l = Len(body[h]) /\ q = body[h]
    BY <1>0, <1>a, CallNumbers DEF IInv
  <1>2. w + 1 \in 1..MaxBatches /\ l <= w /\ q \in Seq(1..MaxBatches) /\ Len(q) = l
        /\ \A i \in 1..l : q[i] = (w - l) + i
    BY <1>0, <1>1, CallTypes, HandlesAssumption DEF QueuedInv, Forwarded
  <1>3. /\ written' = [written EXCEPT ![h] = w + 1] /\ body' = [body EXCEPT ![h] = Append(q, w + 1)]
    BY <1>1
  <1>4. /\ Append(q, w + 1) \in Seq(1..MaxBatches) /\ Len(Append(q, w + 1)) = l + 1
        /\ Append(q, w + 1)[l + 1] = w + 1
        /\ \A i \in 1..l : Append(q, w + 1)[i] = q[i]
    BY <1>2
  <1>5. TypeOK'
    <2>1. written' \in [Handles -> 0..MaxBatches] /\ body' \in [Handles -> Seq(1..MaxBatches)]
      BY <1>0, <1>2, <1>3, <1>4, CallTypes
    <2> QED BY <1>0, <2>1 DEF TypeOK, StreamTypeOK
  <1>6. /\ written'[h] = w + 1 /\ body'[h] = Append(q, w + 1)
        /\ \A g \in Handles : g # h => written'[g] = written[g] /\ body'[g] = body[g]
    BY <1>0, <1>3, CallTypes
  <1>7. Forwarded(h) = w - l /\ Forwarded(h)' = (w + 1) - (l + 1)
    BY <1>1, <1>4, <1>6 DEF Forwarded
  <1>8. CallsInv'
    <2>1. ASSUME NEW g \in Handles, g # h PROVE CallInv(g)' /\ QueuedInv(g)'
      BY <1>6, <2>1 DEF IInv, CallsInv, CallInv, QueuedInv, Forwarded
    <2>2. CallInv(h)'
      BY <1>0, <1>6 DEF CallInv, Waited
    <2>3. QueuedInv(h)'
      <3>1. Len(body'[h]) = l + 1 /\ l + 1 <= w + 1
        BY <1>2, <1>4, <1>6
      <3>2. ASSUME NEW i \in 1..(l + 1) PROVE body'[h][i] = (w - l) + i
        <4>0. /\ i \in Int /\ (i \in 1..l \/ i = l + 1)
              /\ (w - l) + (l + 1) = w + 1
          OBVIOUS
        <4>1. CASE i \in 1..l
          BY <1>2, <1>4, <1>6, <4>1
        <4>2. CASE i = l + 1
          <5>1. body'[h][l + 1] = w + 1
            BY <1>4, <1>6
          <5> QED BY <4>0, <4>2, <5>1, Zenon
        <4> QED BY <4>0, <4>1, <4>2, Zenon
      <3>3. Forwarded(h)' = w - l
        BY <1>7
      <3> QED BY <1>6, <3>1, <3>2, <3>3 DEF QueuedInv
    <2> QED BY <2>1, <2>2, <2>3 DEF CallsInv
  <1>9. HolderInv' /\ OrderInv'
    BY InboundStays
  <1>10. ASSUME NEW g \in Handles PROVE QuietCall(g)
    <2>1. Forwarded(g)' = Forwarded(g) /\ Forwarded(g) \in Nat
      <3>1. CASE g = h
        BY <1>7, <3>1, CallNumbers DEF IInv
      <3>2. CASE g # h
        BY <1>6, <3>2, CallNumbers DEF Forwarded, IInv
      <3> QED BY <3>1, <3>2
    <2>2. written'[g] = written[g] \/ pc[g] = "piping"
      BY <1>0, <1>6
    <2> QED BY <2>1, <2>2 DEF QuietCall
  <1> QED BY <1>5, <1>8, <1>9, <1>10, CallQuiet

\* Steps that move a call, or its body or trailers, and nothing else.
LEMMA MovesInv ==
  ASSUME IInv, NEW h \in Handles,
         \/ GuestClosesBody(h) \/ PipeEnd(h) \/ TrailersExpire(h)
         \/ \E t \in {"fields", "nothing"} : GuestResolvesTrailers(h, t)
  PROVE  IInv'
  <1> USE DEF streamVars, callerVars, outVars, inVars, workerVars
  <1>0. TypeOK /\ CallInv(h)
    BY DEF IInv, CallsInv
  <1>1. /\ UNCHANGED <<streamVars, body, written, inbound, received>> /\ worker = "running"
        /\ \/ pc' = pc
           \/ pc' = [pc EXCEPT ![h] = "trailers"] /\ pc[h] = "piping" /\ body[h] = <<>> /\ ~bodyOpen[h]
           \/ pc' = [pc EXCEPT ![h] = "ending"] /\ pc[h] = "trailers"
        /\ bodyOpen' = bodyOpen \/ bodyOpen' = [bodyOpen EXCEPT ![h] = FALSE]
        /\ trailers' = trailers \/ (\E t \in {"fields", "nothing"} : trailers' = [trailers EXCEPT ![h] = t])
    BY DEF GuestClosesBody, GuestResolvesTrailers, PipeEnd, TrailersExpire
  <1>2. TypeOK'
    <2>1. pc' \in [Handles -> {"idle", "ok", "err"} \cup InProgress]
      BY <1>0, <1>1, CallTypes DEF InProgress
    <2>2. bodyOpen' \in [Handles -> BOOLEAN]
      BY <1>0, <1>1, CallTypes
    <2>3. trailers' \in [Handles -> {"none", "pending", "fields", "nothing"}]
      BY <1>0, <1>1 DEF TypeOK
    <2> QED BY <1>0, <1>1, <2>1, <2>2, <2>3 DEF TypeOK, StreamTypeOK
  <1>3. CallsInv'
    <2>1. ASSUME NEW g \in Handles PROVE QueuedInv(g)'
      BY <1>1 DEF IInv, CallsInv, QueuedInv, Forwarded
    <2>2. ASSUME NEW g \in Handles, g # h PROVE CallInv(g)'
      BY <1>0, <1>1, <2>2, CallTypes DEF IInv, CallsInv, CallInv
    <2>3. CallInv(h)'
      <3>1. bodyOpen'[h] => bodyOpen[h]
        BY <1>0, <1>1, CallTypes
      <3>2. CASE pc' = pc
        BY <1>0, <1>1, <3>1, <3>2 DEF CallInv
      <3>3. CASE pc'[h] = "trailers" /\ pc[h] = "piping" /\ body[h] = <<>> /\ ~bodyOpen[h]
        BY <1>0, <1>1, <3>1, <3>3 DEF CallInv, Waited
      <3>4. CASE pc'[h] = "ending" /\ pc[h] = "trailers"
        BY <1>0, <1>1, <3>1, <3>4 DEF CallInv, Waited
      <3> QED BY <1>0, <1>1, <3>2, <3>3, <3>4, CallTypes
    <2> QED BY <2>1, <2>2, <2>3 DEF CallsInv
  <1>4. HolderInv' /\ OrderInv'
    BY <1>1, InboundStays
  <1>5. ASSUME NEW g \in Handles PROVE QuietCall(g)
    <2>1. Forwarded(g)' = Forwarded(g) /\ Forwarded(g) \in Nat
      BY <1>1, CallNumbers DEF Forwarded, IInv
    <2> QED BY <1>0, <1>1, <2>1, CallTypes DEF QuietCall, InProgress, Waited
  <1> QED BY <1>1, <1>2, <1>3, <1>4, <1>5, CallQuiet

\* A call reads the oldest inbound frame: the head, or one of the body.
LEMMA ReadsInv ==
  ASSUME IInv, NEW h \in Handles, GuestReadsBody(h) \/ ReceiveHead(h)
  PROVE  IInv'
  <1> USE DEF callerVars, outVars, workerVars
  <1>0. TypeOK /\ CallInv(h) /\ pc[h] \in Waited
    BY DEF IInv, CallsInv, GuestReadsBody, ReceiveHead, Waited
  <1>1. /\ received' = [received EXCEPT ![h] = Append(@, Head(inQ))] /\ inQ' = Tail(inQ) /\ inQ # <<>>
        /\ UNCHANGED <<callerVars, outVars, inTx, inRx, pushed, workerVars,
                       body, bodyOpen, written, trailers, inbound>>
        /\ pc' = [pc EXCEPT ![h] = "ok"]
    <2>1. CASE GuestReadsBody(h)
      BY <1>0, <2>1, CallTypes DEF GuestReadsBody
    <2>2. CASE ReceiveHead(h)
      BY <2>2 DEF ReceiveHead
    <2> QED BY <2>1, <2>2
  <1>2. inbound[h] /\ inRx = "taken"
    BY <1>0, <1>1 DEF CallInv, IInv, HolderInv, OrderInv, TypeOK, StreamTypeOK
  <1>3. inQ \in Seq(1..MaxPush) /\ received[h] \in Seq(1..MaxPush) /\ pushed \in Nat
    BY <1>0, CallTypes
  <1>4. /\ Head(inQ) = inQ[1] /\ Head(inQ) \in 1..MaxPush /\ Tail(inQ) \in Seq(1..MaxPush)
        /\ Len(inQ) \in Nat \ {0} /\ Len(Tail(inQ)) = Len(inQ) - 1
        /\ \A i \in 1..Len(inQ) - 1 : Tail(inQ)[i] = inQ[i + 1]
    BY <1>1, <1>3, OldestFirst, Zenon
  <1>a. PICK q, x : q = received[h] /\ x = Head(inQ)
    OBVIOUS
  <1>b. Len(received[h]) \in Nat /\ Len(inQ) \in Nat
    BY <1>3
  <1>5. PICK a \in Nat, b \in Nat : a = Len(received[h]) /\ b = Len(inQ) /\ q = received[h] /\ x = Head(inQ)
    BY <1>a, <1>b
  <1>6. /\ b > 0 /\ a + b = pushed /\ x = a + 1 /\ x \in 1..MaxPush /\ q \in Seq(1..MaxPush)
        /\ \A i \in 1..b : inQ[i] = a + i
        /\ \A i \in 1..a : q[i] = i
    <2>1. /\ a + b = pushed /\ \A i \in 1..b : inQ[i] = a + i
          /\ \A i \in 1..a : q[i] = i
      BY <1>2, <1>5 DEF IInv, OrderInv
    <2> QED BY <1>3, <1>4, <1>5, <2>1
  <1>7. /\ Append(q, x) \in Seq(1..MaxPush) /\ Len(Append(q, x)) = a + 1
        /\ Append(q, x)[a + 1] = x /\ \A i \in 1..a : Append(q, x)[i] = q[i]
    BY <1>5, <1>6
  <1>8. /\ received'[h] = Append(q, x) /\ received' \in [Handles -> Seq(1..MaxPush)]
        /\ \A g \in Handles : g # h => received'[g] = received[g]
    BY <1>0, <1>1, <1>5, <1>7, CallTypes
  <1>9. TypeOK'
    <2>1. pc' \in [Handles -> {"idle", "ok", "err"} \cup InProgress] /\ inQ' \in Seq(1..MaxPush)
      BY <1>0, <1>1, <1>4, CallTypes
    <2> QED BY <1>0, <1>1, <1>8, <2>1 DEF TypeOK, StreamTypeOK
  <1>10. CallsInv'
    BY <1>0, <1>1, <1>2, CallTypes DEF IInv, CallsInv, CallInv, QueuedInv, Forwarded, Waited
  <1>11. HolderInv'
    BY <1>1, <1>2, <1>8 DEF IInv, HolderInv
  <1>12. OrderInv'
    <2>1. \A g \in Handles : inbound'[g] => g = h
      BY <1>1, <1>2 DEF IInv, HolderInv
    <2>2. \A g \in Handles : \A i \in 1..Len(received'[g]) : received'[g][i] = i
      <3>1. \A i \in 1..(a + 1) : Append(q, x)[i] = i
        <4> SUFFICES ASSUME NEW i \in 1..(a + 1) PROVE Append(q, x)[i] = i
          OBVIOUS
        <4>1. i \in 1..a \/ i = a + 1
          OBVIOUS
        <4> QED BY <1>6, <1>7, <4>1
      <3>2. \A g \in Handles : g # h => \A i \in 1..Len(received'[g]) : received'[g][i] = i
        BY <1>8 DEF IInv, OrderInv
      <3>3. Len(received'[h]) = a + 1 /\ \A i \in 1..(a + 1) : received'[h][i] = i
        BY <1>7, <1>8, <3>1
      <3> QED BY <3>2, <3>3
    <2>3. /\ Len(received'[h]) + Len(inQ') = pushed'
          /\ \A i \in 1..Len(inQ') : inQ'[i] = Len(received'[h]) + i
      <3>1. Len(received'[h]) = a + 1 /\ Len(inQ') = b - 1 /\ pushed' = pushed
        BY <1>1, <1>4, <1>5, <1>7, <1>8
      <3>2. ASSUME NEW i \in 1..(b - 1) PROVE inQ'[i] = (a + 1) + i
        <4>1. i + 1 \in 1..b /\ i \in 1..Len(inQ) - 1
          BY <1>5
        <4>2. inQ'[i] = inQ[i + 1] /\ inQ[i + 1] = a + (i + 1)
          BY <1>1, <1>4, <1>6, <4>1
        <4> QED BY <4>2
      <3>3. (a + 1) + (b - 1) = pushed
        BY <1>6
      <3> QED BY <3>1, <3>2, <3>3
    <2>4. inRx' = "taken"
      BY <1>1, <1>2
    <2> QED BY <2>1, <2>2, <2>3, <2>4 DEF OrderInv
  <1>13. ASSUME NEW g \in Handles PROVE QuietCall(g)
    <2>1. Forwarded(g)' = Forwarded(g) /\ Forwarded(g) \in Nat
      BY <1>1, CallNumbers DEF Forwarded, IInv
    <2> QED BY <1>0, <1>1, <2>1, CallTypes DEF QuietCall, InProgress, Waited
  <1> QED BY <1>1, <1>9, <1>10, <1>11, <1>12, <1>13, CallQuiet

\* The response is dropped, or its head never comes.
LEMMA DropsInv ==
  ASSUME IInv, NEW h \in Handles, GuestDropsBody(h) \/ HeadFails(h)
  PROVE  IInv'
  <1> USE DEF callerVars, outVars, workerVars, handleVars
  <1>0. TypeOK /\ CallInv(h) /\ pc[h] \in Waited
    BY DEF IInv, CallsInv, GuestDropsBody, HeadFails, Waited
  <1>1. /\ inRx' = "dropped" /\ inQ' = <<>>
        /\ UNCHANGED <<callerVars, outVars, inTx, pushed, workerVars,
                       body, bodyOpen, written, trailers, inbound, received>>
        /\ pc' = pc \/ (pc' = [pc EXCEPT ![h] = "err"])
    BY DEF GuestDropsBody, HeadFails
  <1>2. TypeOK'
    <2>1. inQ' \in Seq(1..MaxPush) /\ pc' \in [Handles -> {"idle", "ok", "err"} \cup InProgress]
      <3>1. \A S : <<>> \in Seq(S)
        OBVIOUS
      <3>2. inQ' \in Seq(1..MaxPush)
        BY <1>1, <3>1
      <3>3. pc' \in [Handles -> {"idle", "ok", "err"} \cup InProgress]
        BY <1>0, <1>1, CallTypes
      <3> QED BY <3>2, <3>3
    <2> QED BY <1>0, <1>1, <2>1 DEF TypeOK, StreamTypeOK
  <1>3. CallsInv'
    BY <1>0, <1>1, CallTypes DEF IInv, CallsInv, CallInv, QueuedInv, Forwarded, Waited
  <1>4. HolderInv' /\ OrderInv'
    BY <1>1, DroppedInv
  <1>5. ASSUME NEW g \in Handles PROVE QuietCall(g)
    <2>1. Forwarded(g)' = Forwarded(g) /\ Forwarded(g) \in Nat
      BY <1>1, CallNumbers DEF Forwarded, IInv
    <2> QED BY <1>0, <1>1, <2>1, CallTypes DEF QuietCall, InProgress, Waited
  <1> QED BY <1>1, <1>2, <1>3, <1>4, <1>5, CallQuiet

\* A batch is forwarded: the oldest of the queue, which is the next.
LEMMA ForwardBodyInv ==
  ASSUME IInv, NEW h \in Handles, ForwardBody(h)
  PROVE  IInv'
  <1> USE DEF ForwardBody, callerVars, inVars, workerVars
  <1>0. TypeOK /\ CallInv(h) /\ QueuedInv(h) /\ pc[h] = "piping"
    BY DEF IInv, CallsInv
  <1>a. PICK q, x : q = body[h] /\ x = Head(body[h])
    OBVIOUS
  <1>1. PICK w \in Nat, l \in Nat : w = written[h] /\ l = Len(body[h])
    BY <1>0, CallNumbers DEF IInv
  <1>2. /\ q \in Seq(1..MaxBatches) /\ q # <<>> /\ Len(q) = l /\ l <= w
        /\ \A i \in 1..l : q[i] = (w - l) + i
    BY <1>0, <1>1, <1>a, CallTypes DEF QueuedInv, Forwarded
  <1>3. /\ x = q[1] /\ x \in 1..MaxBatches /\ Tail(q) \in Seq(1..MaxBatches)
        /\ Len(q) \in Nat \ {0} /\ Len(Tail(q)) = Len(q) - 1
        /\ \A i \in 1..Len(q) - 1 : Tail(q)[i] = q[i + 1]
    BY <1>2, <1>a, OldestFirst, Zenon
  <1>4. body'[h] = Tail(q) /\ (\A g \in Handles : g # h => body'[g] = body[g])
        /\ body' \in [Handles -> Seq(1..MaxBatches)]
    BY <1>0, <1>3, <1>a, CallTypes
  <1>5. x = (w - l) + 1 /\ l > 0
    BY <1>2, <1>3
  <1>6. Forwarded(h) = w - l /\ Forwarded(h)' = w - (l - 1)
    BY <1>1, <1>2, <1>3, <1>4 DEF Forwarded
  <1>7. Forwarded(h)' = Forwarded(h) + 1 /\ x = Forwarded(h) + 1
    BY <1>5, <1>6
  <1>8. PICK e : e = Out(Body_(h, x))
    OBVIOUS
  <1>9. e \in Events(RequestFrames) /\ Emit(<<e>>) /\ \A g, n : e = Out(Body_(g, n)) => g = h
    <2>1. e \in Events(RequestFrames)
      BY <1>3, <1>8, EventTypes
    <2>2. Emit(<<e>>)
      BY <1>8, <1>a
    <2>3. ASSUME NEW g, NEW n, e = Out(Body_(g, n)) PROVE g = h
      <3>1. Body_(g, n) = Body_(h, x)
        <4>1. Out(Body_(g, n)).frame = Body_(g, n) /\ Out(Body_(h, x)).frame = Body_(h, x)
          BY EventKinds
        <4> QED BY <1>8, <2>3, <4>1
      <3>2. Body_(g, n).of = g /\ Body_(h, x).of = h
        BY FrameFacts
      <3> QED BY <3>1, <3>2
    <2> QED BY <2>1, <2>2, <2>3
  <1>10. TypeOK'
    <2>1. events' \in Seq(Events(RequestFrames))
      BY <1>0, <1>9, EmitSends
    <2> QED BY <1>0, <1>4, <2>1 DEF TypeOK, StreamTypeOK
  <1>11. CallsInv'
    <2>1. ASSUME NEW g \in Handles, g # h PROVE CallInv(g)' /\ QueuedInv(g)'
      BY <1>4, <2>1 DEF IInv, CallsInv, CallInv, QueuedInv, Forwarded
    <2>2. CallInv(h)'
      BY <1>0 DEF CallInv, Waited
    <2>3. QueuedInv(h)'
      <3>1. Len(body'[h]) = l - 1 /\ l - 1 <= w
        BY <1>2, <1>3, <1>4
      <3>2. ASSUME NEW i \in 1..(l - 1) PROVE body'[h][i] = (w - (l - 1)) + i
        <4>1. i + 1 \in 1..l /\ i \in 1..Len(q) - 1
          BY <1>2
        <4>2. body'[h][i] = q[i + 1] /\ q[i + 1] = (w - l) + (i + 1)
          BY <1>2, <1>3, <1>4, <4>1
        <4>3. (w - l) + (i + 1) = (w - (l - 1)) + i
          OBVIOUS
        <4> QED BY <4>2, <4>3
      <3> QED BY <1>1, <1>6, <3>1, <3>2 DEF QueuedInv
    <2> QED BY <2>1, <2>2, <2>3 DEF CallsInv
  <1>12. HolderInv' /\ OrderInv'
    BY InboundStays
  <1>13. Outgoing(h, e) /\ \A g \in Handles : pc'[g] = pc[g]
    BY <1>0, <1>8 DEF Outgoing
  <1>14. ASSUME NEW g \in Handles
         PROVE  \/ Forwarded(g)' = Forwarded(g) /\ \A n : e # Out(Body_(g, n))
                \/ /\ g = h /\ e = Out(Body_(h, Forwarded(h) + 1))
                   /\ Forwarded(h)' = Forwarded(h) + 1
    <2>1. CASE g = h
      BY <1>7, <1>8, <2>1
    <2>2. CASE g # h
      BY <1>4, <1>9, <2>2 DEF Forwarded
    <2> QED BY <2>1, <2>2
  <1> QED BY <1>0, <1>9, <1>10, <1>11, <1>12, <1>13, <1>14, CallEmits

\* The trailers are sent, or there are none.
LEMMA TrailersResolvedInv ==
  ASSUME IInv, NEW h \in Handles, TrailersResolved(h)
  PROVE  IInv'
  <1> USE DEF TrailersResolved, callerVars, inVars, workerVars
  <1>0. TypeOK /\ CallInv(h) /\ pc[h] = "trailers"
    BY DEF IInv, CallsInv
  <1>1. PICK e : e = Out(Trailers_(h))
    OBVIOUS
  <1>2. e \in Events(RequestFrames) /\ \A g, n : e # Out(Body_(g, n))
    BY <1>1, EventTypes, EventKinds, FrameFacts
  <1>3. events \in Seq(Events(RequestFrames))
    BY <1>0 DEF TypeOK, StreamTypeOK
  <1>4. Emit(<<e>>) \/ events' = events
    <2>1. CASE trailers[h] = "fields"
      BY <1>1, <2>1
    <2>2. CASE trailers[h] # "fields"
      <3>1. events \o <<>> = events
        BY <1>3
      <3>2. Emit(<<>>)
        BY <2>2
      <3> QED BY <3>1, <3>2 DEF Emit
    <2> QED BY <2>1, <2>2
  <1>5. events' \in Seq(Events(RequestFrames))
    BY <1>0, <1>2, <1>3, <1>4, EmitSends
  <1>6. TypeOK'
    <2>1. pc' \in [Handles -> {"idle", "ok", "err"} \cup InProgress]
      BY <1>0, CallTypes DEF InProgress
    <2> QED BY <1>0, <1>5, <2>1 DEF TypeOK, StreamTypeOK
  <1>7. CallsInv'
    BY <1>0, CallTypes DEF IInv, CallsInv, CallInv, QueuedInv, Forwarded, Waited
  <1>8. HolderInv' /\ OrderInv'
    BY InboundStays
  <1>9. /\ pc'[h] = "ending" /\ \A g \in Handles : pc'[g] = pc[g] \/ g = h
        /\ \A g \in Handles : Forwarded(g)' = Forwarded(g)
    BY <1>0, CallTypes DEF Forwarded
  <1>10. CASE Emit(<<e>>)
    <2>1. Outgoing(h, e)
      BY <1>0, <1>1, <1>9 DEF Outgoing
    <2> QED BY <1>2, <1>6, <1>7, <1>8, <1>9, <1>10, <2>1, CallEmits
  <1>11. CASE events' = events
    <2>1. ASSUME NEW g \in Handles PROVE QuietCall(g)
      <3>1. Forwarded(g) \in Nat
        BY CallNumbers DEF IInv
      <3> QED BY <1>0, <1>9, <3>1 DEF QuietCall, InProgress, Waited
    <2> QED BY <1>6, <1>7, <1>8, <1>11, <2>1, CallQuiet
  <1> QED BY <1>4, <1>10, <1>11

\* OUT_END: all of the body has been forwarded.
LEMMA EndOutInv ==
  ASSUME IInv, NEW h \in Handles, EndOut(h)
  PROVE  IInv'
  <1> USE DEF EndOut, callerVars, inVars, workerVars
  <1>0. TypeOK /\ CallInv(h) /\ pc[h] = "ending"
    BY DEF IInv, CallsInv
  <1>1. PICK e : e = OutEnd
    OBVIOUS
  <1>2. e \in Events(RequestFrames) /\ Emit(<<e>>) /\ \A g, n : e # Out(Body_(g, n))
    BY <1>1, EventTypes, EventKinds
  <1>3. TypeOK'
    <2>1. pc' \in [Handles -> {"idle", "ok", "err"} \cup InProgress]
      BY <1>0, CallTypes DEF InProgress
    <2>2. events' \in Seq(Events(RequestFrames))
      BY <1>0, <1>2, EmitSends
    <2> QED BY <1>0, <2>1, <2>2 DEF TypeOK, StreamTypeOK
  <1>4. CallsInv'
    BY <1>0, CallTypes DEF IInv, CallsInv, CallInv, QueuedInv, Forwarded, Waited
  <1>5. HolderInv' /\ OrderInv'
    BY InboundStays
  <1>6. /\ pc'[h] \in {"awaiting", "err"} /\ \A g \in Handles : pc'[g] = pc[g] \/ g = h
        /\ \A g \in Handles : Forwarded(g)' = Forwarded(g)
    BY <1>0, CallTypes DEF Forwarded
  <1>7. Outgoing(h, e)
    BY <1>0, <1>1, <1>6 DEF Outgoing
  <1> QED BY <1>2, <1>3, <1>4, <1>5, <1>6, <1>7, CallEmits

\* Every step keeps the invariant.
LEMMA NextInv == IInv /\ [Next]_vars => IInv'
  <1> SUFFICES ASSUME IInv, [Next]_vars PROVE IInv'
    OBVIOUS
  <1>1. CASE Transport /\ UNCHANGED handleVars
    BY <1>1, CallerInv, WorkerInv DEF Transport
  <1>2. CASE worker = "setup" /\ DriverReturns("error") /\ UNCHANGED handleVars
    BY <1>2, WorkerInv
  <1>3. ASSUME NEW h \in Handles, Guest(h) PROVE IInv'
    <2>1. CASE \E b, t \in BOOLEAN : Handle(h, b, t)
      BY <2>1, HandleInv
    <2>2. CASE HandleRejected(h)
      BY <2>2, HandleRejectedInv
    <2>3. CASE PipeFails(h)
      BY <2>3, PipeFailsInv
    <2>4. CASE GuestWrites(h)
      BY <2>4, GuestWritesInv
    <2>5. CASE GuestClosesBody(h) \/ \E t \in {"fields", "nothing"} : GuestResolvesTrailers(h, t)
      BY <2>5, MovesInv
    <2>6. CASE GuestReadsBody(h)
      BY <2>6, ReadsInv
    <2>7. CASE GuestDropsBody(h)
      BY <2>7, DropsInv
    <2> QED BY <1>3, <2>1, <2>2, <2>3, <2>4, <2>5, <2>6, <2>7 DEF Guest
  <1>4. ASSUME NEW h \in Handles, Step(h) PROVE IInv'
    <2>1. CASE ForwardBody(h)
      BY <2>1, ForwardBodyInv
    <2>2. CASE PipeEnd(h) \/ TrailersExpire(h)
      BY <2>2, MovesInv
    <2>3. CASE TrailersResolved(h)
      BY <2>3, TrailersResolvedInv
    <2>4. CASE EndOut(h)
      BY <2>4, EndOutInv
    <2>5. CASE ReceiveHead(h)
      BY <2>5, ReadsInv
    <2>6. CASE HeadFails(h)
      BY <2>6, DropsInv
    <2> QED BY <1>4, <2>1, <2>2, <2>3, <2>4, <2>5, <2>6 DEF Step
  <1>5. CASE \E o \in {"output", "error"} : GuestEnds(o)
    BY <1>5, WorkerInv DEF GuestEnds
  <1>6. CASE UNCHANGED vars
    <2>1. UNCHANGED <<streamVars, handleVars>>
      BY <1>6 DEF vars
    <2>2. TypeOK' /\ SessionInv' /\ CallsInv' /\ HolderInv' /\ OrderInv'
      <3> USE <2>1 DEF IInv, streamVars, callerVars, outVars, inVars, workerVars, handleVars
      <3>1. TypeOK'
        BY DEF TypeOK, StreamTypeOK
      <3>2. SessionInv'
        BY DEF SessionInv
      <3>3. CallsInv'
        BY DEF CallsInv, CallInv, QueuedInv, Forwarded
      <3>4. HolderInv' /\ OrderInv'
        BY InboundStays
      <3> QED BY <3>1, <3>2, <3>3, <3>4
    <2>3. \A h \in Handles : QuietCall(h)
      BY <2>1, IdleCalls
    <2>4. Quiet
      BY <2>1, NothingSent DEF streamVars, callerVars, outVars, workerVars
    <2>5. SentInv' /\ OneCallInv'
      BY <2>2, <2>3, <2>4, QuietInv
    <2> QED BY <2>2, <2>5 DEF IInv
  <1> QED BY <1>1, <1>2, <1>3, <1>4, <1>5, <1>6 DEF Next

\* The inductive invariant holds in every reachable state.
THEOREM Invariance == Spec => []IInv
  BY InitInv, NextInv, PTL DEF Spec
-----------------------------------------------------------------------------
(* What follows from it.                                                   *)

\* What the caller has drained is a beginning of what was sent.
LEMMA DrainedFirst ==
  ASSUME TypeOK
  PROVE  /\ Len(drained) \in Nat /\ DOMAIN drained = 1..Len(drained)
         /\ Len(Sent) \in Nat /\ Len(drained) <= Len(Sent)
         /\ \A i \in 1..Len(drained) : i \in 1..Len(Sent) /\ Sent[i] = drained[i]
         /\ \A i \in 1..Len(drained) : drained[i] \in Events(RequestFrames)
         /\ events = <<>> => Len(drained) = Len(Sent)
  <1>1. drained \in Seq(Events(RequestFrames)) /\ events \in Seq(Events(RequestFrames))
    BY DEF TypeOK, StreamTypeOK
  <1> QED BY <1>1 DEF Sent

\* Every variable of a wasi:http session stays in its range.
THEOREM TypeCorrect == Spec => []TypeOK
  BY Invariance, PTL DEF IInv

\* hwr_p3s_push to the guest's reads: for every number of calls and pushes, the
\* frames reach one call, in the order pushed, none skipped.
THEOREM OneCallGetsTheResponse == Spec => []ResponseInOrder
  <1>1. IInv => ResponseInOrder
    <2> SUFFICES ASSUME IInv, NEW h \in Handles
                 PROVE  /\ received[h] # <<>> => \A g \in Handles \ {h} : received[g] = <<>>
                        /\ \A i \in DOMAIN received[h] : received[h][i] = i
      BY DEF ResponseInOrder
    <2>1. DOMAIN received[h] = 1..Len(received[h])
      BY DEF IInv, TypeOK
    <2>2. \A i \in DOMAIN received[h] : received[h][i] = i
      BY <2>1 DEF IInv, OrderInv
    <2>3. received[h] # <<>> => \A g \in Handles \ {h} : received[g] = <<>>
      BY DEF IInv, HolderInv
    <2> QED BY <2>2, <2>3
  <1> QED BY <1>1, Invariance, PTL

\* handle_via_transport ends its request before it waits: for every number of
\* calls, a caller and a worker that wait on each other have an OUT_END between
\* them and one call that waits.
THEOREM WaitsOnlyWhenAsked == Spec => []CallerWasAsked
  <1>1. IInv => CallerWasAsked
    <2> SUFFICES ASSUME IInv, NEW h \in Handles,
                        caller = "polling", events = <<>>, pc[h] = "awaiting"
                 PROVE  Ended /\ \A g \in Handles \ {h} : pc[g] \notin {"awaiting", "ok"}
      BY DEF CallerWasAsked
    <2>1. rxOpen
      BY DEF IInv, SessionInv
    <2>2. PICK e \in 1..Len(Sent) : Sent[e].kind = "end"
      BY <2>1 DEF IInv, SentInv, AskedInv, Waited
    <2>3. Ended
      BY <2>2, DrainedFirst DEF IInv, Ended
    <2>4. ASSUME NEW g \in Handles \ {h} PROVE pc[g] \notin {"awaiting", "ok"}
      BY DEF IInv, CallsInv, CallInv, Waited, HolderInv
    <2> QED BY <2>3, <2>4
  <1> QED BY <1>1, Invariance, PTL

\* RequestBodyConsumer to poll: for every number of calls and batches, the body
\* the caller drains is what the guest wrote, in its order, and all of it once
\* the request has ended.
THEOREM BodyArrivesIntact == Spec => []BodyIntact
  <1>1. IInv => BodyIntact
    <2> SUFFICES ASSUME IInv, NEW h \in Handles
                 PROVE  /\ \A i \in DOMAIN drained, n \in 1..MaxBatches : BatchAt(drained, i, h, n) =>
                             /\ n <= written[h]
                             /\ \A m \in 1..(n - 1) : \E j \in 1..(i - 1) : BatchAt(drained, j, h, m)
                             /\ \A j \in DOMAIN drained : BatchAt(drained, j, h, n) => i = j
                        /\ Ended /\ Handles = {h} =>
                             \A n \in 1..written[h] : \E i \in DOMAIN drained : BatchAt(drained, i, h, n)
      BY DEF BodyIntact
    <2>0. /\ Len(drained) \in Nat /\ DOMAIN drained = 1..Len(drained)
          /\ \A i \in 1..Len(drained) : i \in 1..Len(Sent) /\ Sent[i] = drained[i]
      BY DrainedFirst DEF IInv
    <2>1. \A i \in 1..Len(drained) : \A n : BatchAt(drained, i, h, n) <=> BatchAt(Sent, i, h, n)
      BY <2>0 DEF BatchAt
    <2>2. /\ written[h] \in Nat /\ Forwarded(h) \in Nat /\ Forwarded(h) <= written[h]
          /\ BatchInv(h)
      BY CallNumbers DEF IInv, SentInv
    <2>3. ASSUME NEW i \in DOMAIN drained, NEW n \in 1..MaxBatches, BatchAt(drained, i, h, n)
          PROVE  /\ n <= written[h]
                 /\ \A m \in 1..(n - 1) : \E j \in 1..(i - 1) : BatchAt(drained, j, h, m)
                 /\ \A j \in DOMAIN drained : BatchAt(drained, j, h, n) => i = j
      <3>1. i \in 1..Len(drained) /\ i \in 1..Len(Sent) /\ BatchAt(Sent, i, h, n)
        BY <2>0, <2>1, <2>3
      <3>2. /\ n <= Forwarded(h)
            /\ \A m \in 1..(n - 1) : \E j \in 1..(i - 1) : BatchAt(Sent, j, h, m)
            /\ \A j \in 1..Len(Sent) : BatchAt(Sent, j, h, n) => i = j
        BY <2>2, <3>1 DEF BatchInv
      <3>3. n <= written[h]
        BY <2>2, <3>2
      <3>4. \A j \in 1..(i - 1) : j \in 1..Len(drained)
        BY <2>0, <3>1
      <3>5. \A m \in 1..(n - 1) : \E j \in 1..(i - 1) : BatchAt(drained, j, h, m)
        BY <2>1, <3>2, <3>4
      <3>6. \A j \in DOMAIN drained : BatchAt(drained, j, h, n) => i = j
        BY <2>0, <2>1, <3>2
      <3> QED BY <3>3, <3>5, <3>6
    <2>4. ASSUME Ended, Handles = {h}, NEW n \in 1..written[h]
          PROVE  \E i \in DOMAIN drained : BatchAt(drained, i, h, n)
      <3>1. PICK e \in 1..Len(drained) : drained[e].kind = "end"
        BY <2>0, <2>4 DEF Ended
      <3>2. PICK i \in 1..(e - 1) : BatchAt(Sent, i, h, n)
        BY <2>0, <2>4, <3>1 DEF IInv, OneCallInv, EndInv
      <3>3. i \in 1..Len(drained)
        BY <2>0
      <3> QED BY <2>0, <2>1, <3>2, <3>3
    <2> QED BY <2>3, <2>4
  <1> QED BY <1>1, Invariance, PTL

\* An event is what its kind says.
LEMMA OutEvents ==
  ASSUME NEW e \in Events(RequestFrames)
  PROVE  /\ e.kind \in {"out", "end", "done"}
         /\ e.kind = "out" => e = Out(e.frame) /\ e.frame \in RequestFrames
  <1>1. CASE e \in {Out(f) : f \in RequestFrames}
    BY <1>1, EventKinds
  <1>2. CASE e = OutEnd
    BY <1>2, EventKinds
  <1>3. CASE e \in {Done(o) : o \in Outcomes}
    BY <1>3, EventKinds
  <1> QED BY <1>1, <1>2, <1>3 DEF Events

\* The frames of the only call.
LEMMA OneCallFrames ==
  ASSUME NEW h, Handles = {h}, NEW f \in RequestFrames
  PROVE  /\ f.kind \in Kinds
         /\ f.kind = "HEAD" => f = Head_(h)
         /\ f.kind = "TRAILERS" => f = Trailers_(h)
  BY DEF RequestFrames, Kinds, Head_, Trailers_

\* handle_via_transport and parse_request_frames: what the caller of a guest that
\* makes one call has drained when it is told OUT_END is one well-formed request,
\* whatever the sizes of the body and the channel.
THEOREM SessionIsOneRequest ==
  ASSUME NEW h, Handles = {h}
  PROVE  Spec => []SessionGrammar
  <1>1. IInv => SessionGrammar
    <2> SUFFICES ASSUME IInv, NEW e \in DOMAIN drained, drained[e].kind = "end"
                 PROVE  /\ \A i \in 1..(e - 1) : drained[i].kind = "out"
                        /\ ParseRequestFrames([i \in 1..(e - 1) |-> drained[i].frame]) = "ok"
                        /\ \A j \in DOMAIN drained : j > e => drained[j].kind = "done"
      BY DEF SessionGrammar
    <2>0. /\ Len(drained) \in Nat /\ DOMAIN drained = 1..Len(drained) /\ Len(Sent) \in Nat
          /\ \A i \in 1..Len(drained) : i \in 1..Len(Sent) /\ Sent[i] = drained[i]
          /\ \A i \in 1..Len(drained) : drained[i] \in Events(RequestFrames)
      BY DrainedFirst DEF IInv
    <2>1. e \in 1..Len(drained) /\ e \in 1..Len(Sent) /\ Sent[e].kind = "end"
      BY <2>0
    <2>2. DoneInv /\ HeadInv(h) /\ TrailersInv(h) /\ EndInv(h)
      BY DEF IInv, SentInv, OneCallInv
    <2>3. \A j \in 1..Len(Sent) : j > e => Sent[j].kind = "done"
      BY <2>1, <2>2 DEF EndInv
    <2>4. ASSUME NEW i \in 1..(e - 1)
          PROVE  /\ i \in 1..Len(drained) /\ i \in 1..Len(Sent) /\ Sent[i] = drained[i]
                 /\ drained[i].kind = "out" /\ drained[i] = Out(drained[i].frame)
                 /\ drained[i].frame \in RequestFrames
      <3>1. i \in 1..Len(drained) /\ i \in 1..Len(Sent) /\ Sent[i] = drained[i]
        BY <2>0, <2>1
      <3>2. Sent[i].kind # "done"
        BY <2>0, <2>1, <2>2, <3>1 DEF DoneInv
      <3>3. Sent[i].kind # "end"
        BY <2>1, <2>2, <3>1 DEF EndInv
      <3>4. drained[i].kind = "out"
        BY <2>0, <3>1, <3>2, <3>3, OutEvents
      <3> QED BY <2>0, <3>1, <3>4, OutEvents
    <2>5. PICK fs : fs = [i \in 1..(e - 1) |-> drained[i].frame]
      OBVIOUS
    <2>6. Sent[1] = Out(Head_(h)) /\ e > 1
      <3>1. Sent[1] = Out(Head_(h))
        BY <2>1, <2>2 DEF HeadInv
      <3>2. e # 1
        BY <2>1, <3>1, EventKinds
      <3> QED BY <2>1, <3>1, <3>2
    <2>7. /\ fs \in Seq(RequestFrames) /\ DOMAIN fs = 1..(e - 1) /\ fs # <<>>
          /\ \A i \in 1..(e - 1) : fs[i] \in RequestFrames /\ Sent[i] = Out(fs[i])
      <3>1. \A i \in 1..(e - 1) : fs[i] = drained[i].frame
        BY <2>5
      <3>2. e - 1 \in Nat
        BY <2>1
      <3>3. fs \in Seq(RequestFrames) /\ Len(fs) = e - 1 /\ DOMAIN fs = 1..(e - 1)
        BY <2>4, <2>5, <3>2
      <3>4. fs # <<>>
        BY <2>6, <3>2, <3>3
      <3> QED BY <2>4, <3>1, <3>3, <3>4
    <2>8. ASSUME NEW i \in 1..(e - 1) PROVE FrameError(fs, i) = "ok"
      <3>1. fs[i].kind \in Kinds
        BY <2>7, OneCallFrames
      <3>2. ASSUME NEW j \in 1..(i - 1), fs[j].kind = "TRAILERS" PROVE FALSE
        <4>1. j \in 1..(e - 1) /\ i > j
          BY <2>1
        <4>2. Sent[j] = Out(Trailers_(h))
          BY <2>7, <3>2, <4>1, OneCallFrames
        <4> QED BY <2>2, <2>4, <4>1, <4>2 DEF TrailersInv
      <3>3. CASE i = 1
        <4>1. fs[1] = Head_(h)
          <5>1. Out(fs[1]) = Out(Head_(h))
            BY <2>6, <2>7, <3>3
          <5>2. Out(fs[1]).frame = fs[1] /\ Out(Head_(h)).frame = Head_(h)
            BY EventKinds
          <5> QED BY <5>1, <5>2
        <4>2. fs[1].kind = "HEAD"
          BY <4>1, FrameFacts
        <4> QED BY <3>1, <3>2, <3>3, <4>2 DEF FrameError
      <3>4. CASE i # 1
        <4>1. fs[i].kind # "HEAD"
          BY <2>2, <2>4, <2>7, <3>4, OneCallFrames DEF HeadInv
        <4> QED BY <3>1, <3>2, <3>4, <4>1 DEF FrameError
      <3> QED BY <3>3, <3>4
    <2>9. ParseRequestFrames(fs) = "ok"
      BY <2>7, <2>8 DEF ParseRequestFrames
    <2> QED BY <2>0, <2>3, <2>4, <2>5, <2>9
  <1> QED BY <1>1, Invariance, PTL
=============================================================================
