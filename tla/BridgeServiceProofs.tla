------------------------ MODULE BridgeServiceProofs ------------------------
(***************************************************************************)
(* Proofs about the event queue of the bridge service.  The order of       *)
(* events is kept in parts: what was delivered, the batch under way and    *)
(* the buffer are each increasing, each below the next, and together they  *)
(* are all the accepted events but the lost ones.                          *)
(***************************************************************************)
EXTENDS BridgeService, SequenceTheorems, TLAPS

Increasing(s) == \A i, j \in 1..Len(s) : i < j => s[i] < s[j]
Below(s, t)   == \A i \in 1..Len(s) : \A j \in 1..Len(t) : s[i] < t[j]
Elements(s)   == {s[i] : i \in 1..Len(s)}

(* Sequences of naturals. *)
LEMMA IncreasingConcat ==
  ASSUME NEW s \in Seq(Nat), NEW t \in Seq(Nat), Increasing(s), Increasing(t), Below(s, t)
  PROVE  Increasing(s \o t)
<1>1. /\ Len(s \o t) = Len(s) + Len(t) /\ Len(s) \in Nat /\ Len(t) \in Nat
      /\ \A i \in 1..(Len(s) + Len(t)) :
             (s \o t)[i] = IF i <= Len(s) THEN s[i] ELSE t[i - Len(s)]
  BY ConcatProperties
<1> SUFFICES ASSUME NEW i \in 1..Len(s \o t), NEW j \in 1..Len(s \o t), i < j
             PROVE  (s \o t)[i] < (s \o t)[j]
  BY DEF Increasing
<1>2. CASE j <= Len(s)
  BY <1>1, <1>2 DEF Increasing
<1>3. CASE i <= Len(s) /\ j > Len(s)
  <2>1. (s \o t)[i] = s[i] /\ (s \o t)[j] = t[j - Len(s)]
    BY <1>1, <1>3
  <2>2. i \in 1..Len(s) /\ j - Len(s) \in 1..Len(t)
    BY <1>1, <1>3
  <2> QED
    BY <2>1, <2>2 DEF Below
<1>4. CASE i > Len(s)
  <2>1. (s \o t)[i] = t[i - Len(s)] /\ (s \o t)[j] = t[j - Len(s)]
    BY <1>1, <1>4
  <2>2. i - Len(s) \in 1..Len(t) /\ j - Len(s) \in 1..Len(t) /\ i - Len(s) < j - Len(s)
    BY <1>1, <1>4
  <2> QED
    BY <2>1, <2>2 DEF Increasing
<1> QED
  BY <1>1, <1>2, <1>3, <1>4

LEMMA ElementsConcat ==
  ASSUME NEW s \in Seq(Nat), NEW t \in Seq(Nat)
  PROVE  Elements(s \o t) = Elements(s) \cup Elements(t)
<1>1. /\ Len(s \o t) = Len(s) + Len(t) /\ Len(s) \in Nat /\ Len(t) \in Nat
      /\ \A i \in 1..(Len(s) + Len(t)) :
             (s \o t)[i] = IF i <= Len(s) THEN s[i] ELSE t[i - Len(s)]
  BY ConcatProperties
<1>2. ASSUME NEW i \in 1..Len(s \o t) PROVE (s \o t)[i] \in Elements(s) \cup Elements(t)
  BY <1>1 DEF Elements
<1>3. ASSUME NEW i \in 1..Len(s) PROVE s[i] \in Elements(s \o t)
  <2>1. i \in 1..Len(s \o t) /\ (s \o t)[i] = s[i]
    BY <1>1
  <2> QED
    BY <2>1 DEF Elements
<1>4. ASSUME NEW i \in 1..Len(t) PROVE t[i] \in Elements(s \o t)
  <2>1. i + Len(s) \in 1..Len(s \o t) /\ (s \o t)[i + Len(s)] = t[i]
    BY <1>1
  <2> QED
    BY <2>1 DEF Elements
<1> QED
  BY <1>2, <1>3, <1>4 DEF Elements

LEMMA BelowElements ==
  ASSUME NEW s, NEW t
  PROVE  Below(s, t) <=> \A x \in Elements(s), y \in Elements(t) : x < y
BY DEF Below, Elements

(* A batch is a prefix of the buffer. *)
LEMMA SplitSeq ==
  ASSUME NEW s \in Seq(Nat), NEW k \in 0..Len(s)
  PROVE  LET a == SubSeq(s, 1, k)
             b == SubSeq(s, k + 1, Len(s))
         IN  /\ a \in Seq(Nat) /\ Len(a) = k /\ b \in Seq(Nat) /\ Len(b) = Len(s) - k
             /\ Elements(a) \cup Elements(b) = Elements(s)
             /\ Increasing(s) => Increasing(a) /\ Increasing(b) /\ Below(a, b)
<1> DEFINE a == SubSeq(s, 1, k)
           b == SubSeq(s, k + 1, Len(s))
<1>1. Len(s) \in Nat
  OBVIOUS
<1>2. a \in Seq(Nat) /\ Len(a) = k /\ \A i \in 1..k : a[i] = s[i]
  BY <1>1
<1>3. /\ b \in Seq(Nat) /\ Len(b) = Len(s) - k
      /\ \A i \in 1..(Len(s) - k) : b[i] = s[k + i]
  BY <1>1
<1> HIDE DEF a, b
<1>4. Elements(a) \cup Elements(b) \subseteq Elements(s)
  <2>1. ASSUME NEW i \in 1..k PROVE a[i] \in Elements(s)
    BY <1>1, <1>2 DEF Elements
  <2>2. ASSUME NEW i \in 1..(Len(s) - k) PROVE b[i] \in Elements(s)
    <3>1. k + i \in 1..Len(s) /\ b[i] = s[k + i]
      BY <1>1, <1>3
    <3> QED
      BY <3>1 DEF Elements
  <2> QED
    BY <1>2, <1>3, <2>1, <2>2 DEF Elements
<1>5. ASSUME NEW i \in 1..Len(s) PROVE s[i] \in Elements(a) \cup Elements(b)
  <2>1. CASE i <= k
    <3>1. i \in 1..Len(a) /\ a[i] = s[i]
      BY <1>1, <1>2, <2>1
    <3> QED
      BY <3>1 DEF Elements
  <2>2. CASE i > k
    <3>1. i - k \in 1..(Len(s) - k) /\ b[i - k] = s[i]
      BY <1>1, <1>3, <2>2
    <3> QED
      BY <1>3, <3>1 DEF Elements
  <2> QED
    BY <2>1, <2>2
<1>6. ASSUME Increasing(s) PROVE Increasing(a) /\ Increasing(b) /\ Below(a, b)
  <2> k \in Nat /\ Len(a) = k /\ Len(b) = Len(s) - k /\ Len(s) \in Nat /\ k <= Len(s)
    BY <1>1, <1>2, <1>3
  <2>1. ASSUME NEW i \in 1..Len(a), NEW j \in 1..Len(a), i < j PROVE a[i] < a[j]
    <3>1. i \in 1..Len(s) /\ j \in 1..Len(s)
      OBVIOUS
    <3> QED
      BY <1>2, <1>6, <2>1, <3>1 DEF Increasing
  <2>2. ASSUME NEW i \in 1..Len(b), NEW j \in 1..Len(b), i < j PROVE b[i] < b[j]
    <3>1. k + i \in 1..Len(s) /\ k + j \in 1..Len(s) /\ k + i < k + j
      BY <2>2
    <3> QED
      BY <1>3, <1>6, <3>1 DEF Increasing
  <2>3. ASSUME NEW i \in 1..Len(a), NEW j \in 1..Len(b) PROVE a[i] < b[j]
    <3>1. i \in 1..Len(s) /\ k + j \in 1..Len(s) /\ i < k + j
      OBVIOUS
    <3> QED
      BY <1>2, <1>3, <1>6, <3>1 DEF Increasing
  <2> QED
    BY <2>1, <2>2, <2>3 DEF Increasing, Below
<1>7. Elements(s) \subseteq Elements(a) \cup Elements(b)
  BY <1>5 DEF Elements
<1> QED
  BY <1>2, <1>3, <1>4, <1>6, <1>7 DEF a, b

-----------------------------------------------------------------------------
(* The parts of the order of events. *)

Sequences3 ==
    /\ delivered \in Seq(Nat) /\ batch \in Seq(Nat) /\ buffer \in Seq(Nat)
    /\ accepted \in Nat /\ Len(batch) <= Capacity
    /\ Len(delivered) + Len(batch) + Len(buffer) <= accepted

Order ==
    /\ Increasing(delivered) /\ Increasing(batch) /\ Increasing(buffer)
    /\ Below(delivered, batch) /\ Below(delivered, buffer) /\ Below(batch, buffer)
    /\ lost \subseteq 1..accepted
    /\ Elements(delivered) \cup Elements(batch) \cup Elements(buffer) = (1..accepted) \ lost

Parts == Sequences3 /\ Order

(* The step leaves the events where they are. *)
EventsStay == UNCHANGED <<queueVars, batch, delivered, lost>>

LEMMA InitParts == Init => Parts
<1> SUFFICES ASSUME Init PROVE Parts
  OBVIOUS
<1>1. /\ buffer = <<>> /\ batch = <<>> /\ delivered = <<>> /\ lost = {} /\ accepted = 0
      /\ <<>> \in Seq(Nat) /\ Len(<<>>) = 0
  BY DEF Init
<1>2. Elements(<<>>) = {}
  BY DEF Elements
<1> QED
  BY <1>1, <1>2, BridgeAssumption DEF Parts, Sequences3, Order, Increasing, Below

LEMMA EmptySequence == /\ <<>> \in Seq(Nat) /\ Len(<<>>) = 0 /\ Elements(<<>>) = {}
                       /\ Increasing(<<>>)
                       /\ \A s : Below(s, <<>>) /\ Below(<<>>, s)
BY DEF Elements, Increasing, Below

LEMMA AddsParts ==
  ASSUME Parts, NEW s, EnqueueAdds(s)
  PROVE  Parts'
<1>1. /\ accepted' = accepted + 1 /\ buffer' = Append(buffer, accepted + 1)
      /\ UNCHANGED <<batch, delivered, lost>>
  BY DEF EnqueueAdds, sendVars
<1>2. /\ buffer \in Seq(Nat) /\ accepted \in Nat /\ batch \in Seq(Nat) /\ delivered \in Seq(Nat)
  BY DEF Parts, Sequences3
<1>3. /\ buffer' \in Seq(Nat) /\ Len(buffer') = Len(buffer) + 1
      /\ \A i \in 1..Len(buffer) : buffer'[i] = buffer[i]
      /\ buffer'[Len(buffer) + 1] = accepted + 1
  BY <1>1, <1>2
<1>4. Sequences3'
  BY <1>1, <1>3, <1>2 DEF Parts, Sequences3
<1>5. Elements(buffer') = Elements(buffer) \cup {accepted + 1}
  <2>1. \A i \in 1..(Len(buffer) + 1) : i \in 1..Len(buffer) \/ i = Len(buffer) + 1
    BY <1>2
  <2>2. \A i \in 1..Len(buffer) : i \in 1..Len(buffer')
    BY <1>2, <1>3
  <2>3. Len(buffer) + 1 \in 1..Len(buffer')
    BY <1>2, <1>3
  <2> QED
    BY <1>3, <2>1, <2>2, <2>3 DEF Elements
<1>6. \A x \in Elements(delivered) \cup Elements(batch) \cup Elements(buffer) :
         x \in Nat /\ x < accepted + 1
  BY <1>2 DEF Parts, Order
<1>7. Increasing(buffer')
  <2>1. \A i \in 1..Len(buffer) : buffer[i] < accepted + 1
    BY <1>6 DEF Elements
  <2> QED
    <3> SUFFICES ASSUME NEW i \in 1..Len(buffer'), NEW j \in 1..Len(buffer'), i < j
                 PROVE  buffer'[i] < buffer'[j]
      BY DEF Increasing
    <3>1. i \in 1..Len(buffer) /\ buffer'[i] = buffer[i]
      BY <1>2, <1>3, SMTT(40)
    <3>2. CASE j = Len(buffer) + 1
      BY <1>3, <2>1, <3>1, <3>2
    <3>3. CASE j \in 1..Len(buffer)
      BY <1>3, <3>1, <3>3 DEF Parts, Order, Increasing
    <3>4. Len(buffer') = Len(buffer) + 1 /\ Len(buffer) \in Nat
      BY <1>2, <1>3
    <3> QED
      BY <3>2, <3>3, <3>4
<1>8. Below(delivered, buffer') /\ Below(batch, buffer')
  BY <1>5, <1>6, BelowElements DEF Parts, Order
<1>9. lost \subseteq 1..accepted' /\ accepted' \notin lost
  BY <1>1, <1>2 DEF Parts, Order
<1>10. Elements(delivered) \cup Elements(batch) \cup Elements(buffer') = (1..accepted') \ lost
  BY <1>1, <1>2, <1>5, <1>9 DEF Parts, Order
<1> QED
  BY <1>1, <1>4, <1>7, <1>8, <1>9, <1>10 DEF Parts, Order

LEMMA BatchParts ==
  ASSUME Parts, GetNextBatch
  PROVE  Parts'
<1> DEFINE k == IF Len(buffer) < Capacity THEN Len(buffer) ELSE Capacity
<1>1. /\ batch = <<>> /\ batch' = SubSeq(buffer, 1, k) /\ NextBatch = SubSeq(buffer, 1, k)
      /\ buffer' = SubSeq(buffer, Len(NextBatch) + 1, Len(buffer))
      /\ UNCHANGED <<accepted, delivered, lost>>
  BY DEF GetNextBatch, NextBatch
<1>2. /\ buffer \in Seq(Nat) /\ accepted \in Nat /\ delivered \in Seq(Nat)
  BY DEF Parts, Sequences3
<1>3. k \in 0..Len(buffer) /\ k <= Capacity
  BY <1>2, BridgeAssumption
<1> HIDE DEF k
<1>4. /\ batch' \in Seq(Nat) /\ Len(batch') = k
      /\ buffer' \in Seq(Nat) /\ Len(buffer') = Len(buffer) - k
      /\ Elements(batch') \cup Elements(buffer') = Elements(buffer)
      /\ Increasing(batch') /\ Increasing(buffer') /\ Below(batch', buffer')
  <2>1. Increasing(buffer)
    BY DEF Parts, Order
  <2>2. Len(NextBatch) = k
    BY <1>1, <1>2, <1>3
  <2> QED
    BY <1>1, <1>2, <1>3, <2>1, <2>2, SplitSeq, SMTT(40)
<1>5. Sequences3'
  <2>1. Len(delivered) + 0 + Len(buffer) <= accepted
    BY <1>1, EmptySequence DEF Parts, Sequences3
  <2>2. Len(delivered) + Len(batch') + Len(buffer') <= accepted
    BY <1>2, <1>3, <1>4, <2>1
  <2> QED
    BY <1>1, <1>2, <1>3, <1>4, <2>2 DEF Sequences3
<1>6. Below(delivered, batch') /\ Below(delivered, buffer')
  BY <1>4, BelowElements DEF Parts, Order
<1> QED
  BY <1>1, <1>4, <1>5, <1>6, EmptySequence DEF Parts, Order

LEMMA SendParts ==
  ASSUME Parts, OnEvent
  PROVE  Parts'
<1>1. /\ delivered' = delivered \o batch /\ batch' = <<>>
      /\ UNCHANGED <<accepted, buffer, lost>>
  BY DEF OnEvent, queueVars
<1>2. /\ buffer \in Seq(Nat) /\ accepted \in Nat /\ batch \in Seq(Nat) /\ delivered \in Seq(Nat)
  BY DEF Parts, Sequences3
<1>3. /\ delivered' \in Seq(Nat) /\ Len(delivered') = Len(delivered) + Len(batch)
  BY <1>1, <1>2
<1>4. Sequences3'
  BY <1>1, <1>2, <1>3, EmptySequence, BridgeAssumption DEF Parts, Sequences3
<1>5. Increasing(delivered')
  BY <1>1, <1>2, IncreasingConcat DEF Parts, Order
<1>6. Elements(delivered') = Elements(delivered) \cup Elements(batch)
  BY <1>1, <1>2, ElementsConcat
<1>7. Below(delivered', buffer)
  BY <1>6, BelowElements DEF Parts, Order
<1> QED
  BY <1>1, <1>4, <1>5, <1>6, <1>7, EmptySequence DEF Parts, Order

LEMMA ThrowParts ==
  ASSUME Parts, OnEventThrows
  PROVE  Parts'
<1>1. /\ lost' = lost \cup ToSet(batch) /\ batch' = <<>>
      /\ UNCHANGED <<accepted, buffer, delivered>>
  BY DEF OnEventThrows, queueVars
<1>2. /\ buffer \in Seq(Nat) /\ accepted \in Nat /\ batch \in Seq(Nat) /\ delivered \in Seq(Nat)
  BY DEF Parts, Sequences3
<1>3. ToSet(batch) = Elements(batch)
  BY <1>2 DEF ToSet, Elements
<1>4. Sequences3'
  BY <1>1, <1>2, EmptySequence, BridgeAssumption DEF Parts, Sequences3
<1>5. /\ \A x \in Elements(delivered), y \in Elements(batch) : x < y
      /\ \A x \in Elements(batch), y \in Elements(buffer) : x < y
  BY BelowElements DEF Parts, Order
<1>6. Elements(batch) \subseteq 1..accepted
  BY DEF Parts, Order
<1>7. Elements(batch) \cap (Elements(delivered) \cup Elements(buffer)) = {}
  BY <1>2, <1>5, <1>6
<1>8. Elements(delivered) \cup Elements(buffer) = (1..accepted) \ (lost \cup Elements(batch))
  BY <1>7 DEF Parts, Order
<1> QED
  BY <1>1, <1>3, <1>4, <1>6, <1>8, EmptySequence DEF Parts, Order

LEMMA StayParts == Parts /\ EventsStay => Parts'
BY DEF Parts, Sequences3, Order, EventsStay, queueVars

LEMMA NextParts == Parts /\ [Next]_vars => Parts'
<1> SUFFICES ASSUME Parts, [Next]_vars PROVE Parts'
  OBVIOUS
<1> USE DEF queueVars, sendVars, vars
<1>1. ASSUME NEW s \in Senders, Enqueue(s) PROVE Parts'
  <2>1. CASE EnqueueAdds(s)
    BY <2>1, AddsParts
  <2>2. CASE EnqueueIgnored(s) \/ EnqueueChecksConsumer(s) \/ EnqueuePosts(s)
    BY <2>2, StayParts DEF EnqueueIgnored, EnqueueChecksConsumer, EnqueuePosts, EventsStay
  <2> QED
    BY <1>1, <2>1, <2>2 DEF Enqueue
<1>2. CASE FlushStarts \/ TimerFires \/ HandlerStep
  BY <1>2, StayParts
     DEF FlushStarts, TimerFires, HandlerStep, FlushFindsNothing, FlushBinds, FlushBindFails,
         EventsStay
<1>3. CASE MainStep
  <2>1. CASE GetNextBatch \/ OnEvent \/ OnEventThrows
    BY <2>1, BatchParts, SendParts, ThrowParts
  <2>2. CASE OnServiceConnected \/ OnNullBinding \/ SendingDone
    BY <2>2, StayParts DEF OnServiceConnected, OnNullBinding, SendingDone, EventsStay
  <2> QED
    BY <1>3, <2>1, <2>2 DEF MainStep
<1>4. CASE EnableTestMode \/ DisableTestMode \/ (\E w \in Waiters : Wait(w)) \/ Quiescent
           \/ UNCHANGED vars
  BY <1>4, StayParts
     DEF EnableTestMode, DisableTestMode, Wait, WaitStarts, WaitTimesOut, WaitLeavesLock,
         WaitReturns, Quiescent, EventsStay
<1> QED
  BY <1>1, <1>2, <1>3, <1>4 DEF Next

(* Nothing is lost but the batch of an onEvent that threw, nothing is sent  *)
(* twice, and order is kept across batches and connections, for any number  *)
(* of events, faults and callers and any capacity.                          *)
THEOREM EventsInOrder == Spec => []SentOnceInOrder
<1>1. Parts => SentOnceInOrder
  <2> SUFFICES ASSUME Parts PROVE SentOnceInOrder
    OBVIOUS
  <2>1. buffer \in Seq(Nat) /\ batch \in Seq(Nat) /\ delivered \in Seq(Nat)
    BY DEF Parts, Sequences3
  <2> DEFINE front == delivered \o batch
             sent == front \o buffer
  <2>2. front \in Seq(Nat) /\ Increasing(front)
        /\ Elements(front) = Elements(delivered) \cup Elements(batch)
    BY <2>1, IncreasingConcat, ElementsConcat DEF Parts, Order
  <2>3. Below(front, buffer)
    BY <2>2, BelowElements DEF Parts, Order
  <2> HIDE DEF front
  <2>4. /\ sent \in Seq(Nat) /\ Increasing(sent)
        /\ Elements(sent) = Elements(front) \cup Elements(buffer)
    BY <2>1, <2>2, <2>3, IncreasingConcat, ElementsConcat DEF Parts, Order
  <2>5. DOMAIN sent = 1..Len(sent) /\ ToSet(sent) = Elements(sent)
    <3> HIDE DEF sent
    <3>1. DOMAIN sent = 1..Len(sent)
      BY <2>4
    <3> QED
      BY <3>1 DEF ToSet, Elements
  <2>6. Elements(sent) = (1..accepted) \ lost
    BY <2>2, <2>4 DEF Parts, Order
  <2> HIDE DEF sent
  <2> QED
    BY <2>4, <2>5, <2>6 DEF SentOnceInOrder, Increasing, front, sent
<1> QED
  BY <1>1, InitParts, NextParts, PTL DEF Spec

-----------------------------------------------------------------------------
(* Types. *)

(* The type invariant but for the sequences, which Parts bounds. *)
Switches == consumer \in BOOLEAN /\ sending \in BOOLEAN /\ stranded \in BOOLEAN
WaitCalls == [at : {"idle", "waiting", "woken", "left"}, from : 0..MaxEvents,
              left : 0..MaxEvents, clear : BOOLEAN, answer : {"none", "true", "false"},
              emptied : BOOLEAN, torn : BOOLEAN]
Counts ==
    /\ toggles \in 0..MaxToggles /\ faults \in 0..MaxFaults
    /\ accepted \in 0..MaxEvents /\ waits \in 0..MaxWaits
    /\ calls \in [Senders -> [at : {"idle", "checked", "added"}, flush : BOOLEAN,
                              size : 0..MaxEvents]]
    /\ posted \in Nat /\ timers \in Nat /\ binding \in Nat
    /\ flusher \in {"idle", "configured"}
    /\ wait \in [Waiters -> WaitCalls]
Scalars == Switches /\ Counts

LEMMA InitScalars == Init => Scalars
<1>1. /\ MaxEvents \in Nat /\ MaxFaults \in Nat /\ MaxToggles \in Nat /\ MaxWaits \in Nat
  BY BridgeAssumption
<1>2. 0 \in 0..MaxEvents /\ 0 \in 0..MaxFaults /\ 0 \in 0..MaxToggles /\ 0 \in 0..MaxWaits
  BY <1>1
<1>3. ASSUME Init PROVE Switches
  BY <1>3, Zenon DEF Init, Switches
<1>4. ASSUME Init PROVE Counts
  <2>1. NoWait \in WaitCalls
    BY <1>2 DEF NoWait, WaitCalls
  <2> QED
    BY <1>2, <1>4, <2>1 DEF Init, Counts, Idle
<1> QED
  BY <1>3, <1>4 DEF Scalars

LEMMA NextScalars == Parts /\ Scalars /\ [Next]_vars => Scalars'
<1> SUFFICES ASSUME Parts, Scalars, [Next]_vars PROVE Scalars'
  OBVIOUS
<1>0. /\ MaxEvents \in Nat /\ MaxFaults \in Nat /\ MaxToggles \in Nat /\ MaxWaits \in Nat
  BY BridgeAssumption
<1>1. Switches'
  BY Zenon DEF Scalars, Switches, Next, Enqueue, EnqueueIgnored, EnqueueChecksConsumer,
     EnqueueAdds, EnqueuePosts, FlushStarts, TimerFires, HandlerStep, FlushFindsNothing,
     FlushBinds, FlushBindFails, MainStep, OnServiceConnected, OnNullBinding, GetNextBatch,
     SendingDone, OnEvent, OnEventThrows, EnableTestMode, DisableTestMode, Wait, WaitStarts,
     WaitTimesOut, WaitLeavesLock, WaitReturns, Quiescent, vars, sendVars, faultVars, configVars
<1> Counts
  BY DEF Scalars
<1> USE <1>0 DEF queueVars, looperVars, sendVars, faultVars, configVars, waitVars
<1>2. ASSUME NEW s \in Senders, Enqueue(s) PROVE Counts'
  <2>1. CASE EnqueueIgnored(s)
    BY <2>1 DEF EnqueueIgnored, vars, Counts
  <2>2. CASE EnqueueChecksConsumer(s)
    BY <2>2 DEF EnqueueChecksConsumer, Counts
  <2>3. CASE EnqueueAdds(s)
    <3>1. Len(buffer) \in Nat /\ Len(buffer) <= accepted
      BY DEF Parts, Sequences3
    <3>2. Len(buffer) + 1 \in 0..MaxEvents /\ accepted + 1 \in 0..MaxEvents
      BY <2>3, <3>1, SMTT(40) DEF EnqueueAdds, Counts
    <3>3. calls' \in [Senders -> [at : {"idle", "checked", "added"}, flush : BOOLEAN,
                                  size : 0..MaxEvents]]
      BY <2>3, <3>2 DEF EnqueueAdds, Counts
    <3> QED
      BY <2>3, <3>2, <3>3 DEF EnqueueAdds, Counts
  <2>4. CASE EnqueuePosts(s)
    BY <2>4 DEF EnqueuePosts, Counts, Idle
  <2> QED
    BY <1>2, <2>1, <2>2, <2>3, <2>4 DEF Enqueue
<1>3. ASSUME FlushStarts \/ TimerFires PROVE Counts'
  <2>1. CASE FlushStarts
    BY <2>1 DEF FlushStarts, Counts
  <2>2. CASE TimerFires
    BY <2>2 DEF TimerFires, Counts
  <2> QED
    BY <1>3, <2>1, <2>2
<1>4. ASSUME HandlerStep PROVE Counts'
  BY <1>4, SMTT(40) DEF HandlerStep, FlushFindsNothing, FlushBinds, FlushBindFails, Counts
<1>5. ASSUME OnServiceConnected \/ OnNullBinding \/ SendingDone PROVE Counts'
  BY <1>5 DEF OnServiceConnected, OnNullBinding, SendingDone, Counts
<1>6. ASSUME GetNextBatch PROVE Counts'
  <2>1. ASSUME NEW c \in WaitCalls PROVE [c EXCEPT !.at = "woken", !.emptied = TRUE] \in WaitCalls
    BY DEF WaitCalls
  <2>2. wait' \in [Waiters -> WaitCalls]
    BY <1>6, <2>1 DEF GetNextBatch, Counts
  <2> QED
    BY <1>6, <2>2 DEF GetNextBatch, Counts
<1>7. ASSUME OnEvent \/ OnEventThrows PROVE Counts'
  BY <1>7, SMTT(40) DEF OnEvent, OnEventThrows, Counts
<1>8. ASSUME EnableTestMode \/ DisableTestMode PROVE Counts'
  BY <1>8 DEF EnableTestMode, DisableTestMode, Counts
<1>9. ASSUME NEW w \in Waiters, Wait(w) PROVE Counts'
  <2>1. PICK c \in WaitCalls : wait' = [wait EXCEPT ![w] = c]
    <3> DEFINE call == [NoWait EXCEPT !.from = accepted, !.left = accepted]
    <3>1. CASE WaitStarts(w)
      <4>1. [call EXCEPT !.answer = "true"] \in WaitCalls /\ [call EXCEPT !.at = "waiting"] \in WaitCalls
        BY DEF NoWait, WaitCalls, Counts
      <4> QED
        BY <3>1, <4>1 DEF WaitStarts
    <3>2. CASE WaitTimesOut(w)
      <4>1. [wait[w] EXCEPT !.at = "woken"] \in WaitCalls
        BY DEF WaitCalls, Counts
      <4> QED
        BY <3>2, <4>1 DEF WaitTimesOut
    <3>3. CASE WaitLeavesLock(w)
      <4>1. [wait[w] EXCEPT !.at = "left", !.left = accepted, !.clear = (buffer = <<>>)] \in WaitCalls
        BY DEF WaitCalls, Counts
      <4> QED
        BY <3>3, <4>1 DEF WaitLeavesLock
    <3>4. CASE WaitReturns(w)
      <4>1. ASSUME NEW a \in {"true", "false"}, NEW t \in BOOLEAN
            PROVE  [wait[w] EXCEPT !.at = "idle", !.answer = a, !.torn = t] \in WaitCalls
        BY DEF WaitCalls, Counts
      <4> QED
        BY <3>4, <4>1 DEF WaitReturns
    <3> QED
      BY <1>9, <3>1, <3>2, <3>3, <3>4 DEF Wait
  <2>2. wait' \in [Waiters -> WaitCalls]
    BY <2>1 DEF Counts
  <2>3. waits' = waits \/ (waits < MaxWaits /\ waits' = waits + 1)
    BY <1>9 DEF Wait, WaitStarts, WaitTimesOut, WaitLeavesLock, WaitReturns
  <2>4. waits' \in 0..MaxWaits
    BY <2>3 DEF Counts
  <2> QED
    BY <1>9, <2>2, <2>4 DEF Wait, WaitStarts, WaitTimesOut, WaitLeavesLock, WaitReturns, Counts
<1>10. ASSUME Quiescent \/ UNCHANGED vars PROVE Counts'
  BY <1>10 DEF Quiescent, vars, Counts
<1>11. Counts'
  BY <1>2, <1>3, <1>4, <1>5, <1>6, <1>7, <1>8, <1>9, <1>10 DEF Next, MainStep
<1> QED
  BY <1>1, <1>11 DEF Scalars

LEMMA SeqOfElements ==
  ASSUME NEW s \in Seq(Nat), NEW T, Elements(s) \subseteq T
  PROVE  s \in Seq(T)
<1>1. \A i \in 1..Len(s) : s[i] \in T
  BY DEF Elements
<1> QED
  BY <1>1

(* Every variable has its type, no batch exceeds the capacity, and what is  *)
(* in the buffer, sent or lost is an event that was accepted.               *)
THEOREM TypeCorrect == Spec => []TypeOK
<1>1. Parts /\ Scalars => TypeOK
  <2> SUFFICES ASSUME Parts, Scalars PROVE TypeOK
    OBVIOUS
  <2>1. /\ buffer \in Seq(1..accepted) /\ batch \in Seq(1..accepted)
        /\ delivered \in Seq(1..accepted)
    BY SeqOfElements DEF Parts, Sequences3, Order
  <2> QED
    BY <2>1 DEF TypeOK, Scalars, Switches, Counts, WaitCalls, Parts, Sequences3, Order
<1> QED
  BY <1>1, InitParts, NextParts, InitScalars, NextScalars, PTL DEF Spec

-----------------------------------------------------------------------------
(* Buffered events are covered. *)

LEMMA NextCovered ==
  Parts /\ Scalars /\ BufferedEventsCovered /\ [Next]_vars => BufferedEventsCovered'
<1> SUFFICES ASSUME Parts, Scalars, BufferedEventsCovered, [Next]_vars,
                    buffer' # <<>>, ~stranded'
             PROVE  FlushPending'
  BY DEF BufferedEventsCovered
<1> USE DEF queueVars, looperVars, sendVars, faultVars, configVars, waitVars
<1>0. /\ posted \in Nat /\ timers \in Nat /\ binding \in Nat /\ buffer \in Seq(Nat)
      /\ calls \in [Senders -> [at : {"idle", "checked", "added"}, flush : BOOLEAN,
                              size : 0..MaxEvents]]
  BY DEF Scalars, Counts, Parts, Sequences3
(* The calls are as they were. *)
<1>1. ASSUME FlushPending, calls' = calls,
             posted' > 0 \/ timers' > 0 \/ flusher' = "configured" \/ binding' > 0 \/ sending'
             \/ UNCHANGED <<looperVars, binding, sending>>
      PROVE  FlushPending'
  BY <1>1 DEF FlushPending, FlushNow, ArmsTimer
<1>2. ASSUME NEW s \in Senders, Enqueue(s) PROVE FlushPending'
  <2>1. CASE EnqueueIgnored(s)
    BY <1>1, <2>1 DEF EnqueueIgnored, vars, BufferedEventsCovered
  <2>2. CASE EnqueueChecksConsumer(s)
    <3>1. FlushPending
      BY <2>2 DEF EnqueueChecksConsumer, BufferedEventsCovered
    <3>2. calls[s].at = "idle" /\ \A u \in Senders \ {s} : calls'[u] = calls[u]
      BY <1>0, <2>2 DEF EnqueueChecksConsumer
    <3> QED
      BY <2>2, <3>1, <3>2 DEF EnqueueChecksConsumer, FlushPending, FlushNow, ArmsTimer
  <2>3. CASE EnqueueAdds(s)
    <3>1. /\ calls[s].at = "checked" /\ \A u \in Senders \ {s} : calls'[u] = calls[u]
          /\ calls'[s].at = "added" /\ calls'[s].size = Len(buffer) + 1
          /\ UNCHANGED <<looperVars, binding, sending, stranded>>
      BY <1>0, <2>3 DEF EnqueueAdds
    <3>2. CASE buffer = <<>>
      <4>1. calls'[s].size = 1
        BY <3>1, <3>2
      <4> QED
        BY <3>1, <4>1 DEF FlushPending, FlushNow, ArmsTimer
    <3>3. CASE buffer # <<>>
      <4>1. FlushPending
        BY <3>1, <3>3 DEF BufferedEventsCovered
      <4> QED
        BY <3>1, <4>1 DEF FlushPending, FlushNow, ArmsTimer
    <3> QED
      BY <3>2, <3>3
  <2>4. CASE EnqueuePosts(s)
    <3>1. /\ FlushPending /\ \A u \in Senders \ {s} : calls'[u] = calls[u]
          /\ UNCHANGED <<flusher, binding, sending>>
      BY <1>0, <2>4 DEF EnqueuePosts, BufferedEventsCovered
    <3>2. CASE FlushNow(s) \/ ArmsTimer(s)
      <4>1. posted' > 0 \/ timers' > 0
        BY <1>0, <2>4, <3>2 DEF EnqueuePosts
      <4> QED
        BY <4>1 DEF FlushPending
    <3>3. CASE ~FlushNow(s) /\ ~ArmsTimer(s)
      <4>1. UNCHANGED <<posted, timers>>
        BY <2>4, <3>3 DEF EnqueuePosts
      <4> QED
        BY <3>1, <3>3, <4>1 DEF FlushPending, FlushNow, ArmsTimer
    <3> QED
      BY <3>2, <3>3
  <2> QED
    BY <1>2, <2>1, <2>2, <2>3, <2>4 DEF Enqueue
<1>3. CASE FlushStarts \/ TimerFires
  <2>1. flusher' = "configured"
    BY <1>3 DEF FlushStarts, TimerFires
  <2> QED
    BY <2>1 DEF FlushPending
<1>4. CASE HandlerStep
  <2>1. binding' > 0
    BY <1>0, <1>4 DEF HandlerStep, FlushFindsNothing, FlushBinds, FlushBindFails
  <2> QED
    BY <2>1 DEF FlushPending
<1>5. CASE OnServiceConnected \/ OnNullBinding \/ SendingDone \/ GetNextBatch \/ OnEventThrows
  <2>1. sending'
    BY <1>5
       DEF OnServiceConnected, OnNullBinding, SendingDone, GetNextBatch, OnEventThrows
  <2> QED
    BY <2>1 DEF FlushPending
<1>6. CASE OnEvent \/ EnableTestMode \/ DisableTestMode \/ (\E w \in Waiters : Wait(w))
           \/ Quiescent \/ UNCHANGED vars
  <2>1. UNCHANGED <<buffer, stranded, calls, looperVars, binding, sending>>
    BY <1>6 DEF OnEvent, EnableTestMode, DisableTestMode, Wait, WaitStarts, WaitTimesOut,
                WaitLeavesLock, WaitReturns, Quiescent, vars
  <2>2. FlushPending
    BY <2>1 DEF BufferedEventsCovered
  <2> QED
    BY <1>1, <2>1, <2>2
<1> QED
  BY <1>2, <1>3, <1>4, <1>5, <1>6 DEF Next, MainStep

(* Buffered events are never forgotten: unless a flush has given up since   *)
(* the buffer was last emptied, one is under way or scheduled, wherever the *)
(* calls of enqueueEvent are between the lock and the post.                 *)
THEOREM EventsCovered == Spec => []BufferedEventsCovered
<1>1. Init => BufferedEventsCovered
  BY DEF Init, BufferedEventsCovered
<1> QED
  BY <1>1, InitParts, NextParts, InitScalars, NextScalars, NextCovered, PTL DEF Spec

-----------------------------------------------------------------------------
(* What waitQueueFlushed returns. *)

Beyond(n) == \A i \in 1..Len(buffer) : buffer[i] > n

(* A call that was notified before it left mLock found the buffer empty, or *)
(* events queued since the notification in it.                              *)
WaitOK(w) ==
    /\ wait[w].from <= wait[w].left /\ wait[w].left <= accepted
    /\ wait[w].at # "idle" => wait[w].answer = "none"
    /\ wait[w].emptied => Beyond(wait[w].from)
    /\ wait[w].at = "left" /\ wait[w].emptied /\ ~wait[w].clear => accepted > wait[w].from
    /\ wait[w].at = "idle" /\ wait[w].answer = "true" /\ ~wait[w].torn => Beyond(wait[w].left)
    /\ wait[w].emptied /\ wait[w].answer = "false" => accepted > wait[w].from

(* Events that come into the buffer are new. *)
BufferMoves ==
    /\ accepted' \in Nat /\ accepted' >= accepted
    /\ \A i \in 1..Len(buffer') : buffer'[i] > accepted \/ \E j \in 1..Len(buffer) : buffer'[i] = buffer[j]

LEMMA BufferSteps ==
  ASSUME Parts, [Next]_vars
  PROVE  BufferMoves /\ buffer' \in Seq(Nat)
<1> USE DEF queueVars, sendVars, vars
<1>1. buffer \in Seq(Nat) /\ accepted \in Nat
  BY DEF Parts, Sequences3
<1>2. CASE buffer' = buffer /\ accepted' = accepted
  BY <1>1, <1>2 DEF BufferMoves
<1>3. ASSUME NEW s \in Senders, EnqueueAdds(s) PROVE BufferMoves /\ buffer' \in Seq(Nat)
  <2>1. buffer' = Append(buffer, accepted + 1) /\ accepted' = accepted + 1
    BY <1>3 DEF EnqueueAdds
  <2> QED
    BY <1>1, <2>1 DEF BufferMoves
<1>4. CASE GetNextBatch
  <2>1. Parts'
    BY <1>4, BatchParts
  <2>2. Elements(buffer') \subseteq Elements(buffer) /\ accepted' = accepted
    <3> DEFINE k == IF Len(buffer) < Capacity THEN Len(buffer) ELSE Capacity
    <3>1. NextBatch = SubSeq(buffer, 1, k) /\ k \in 0..Len(buffer)
      BY <1>1, BridgeAssumption DEF NextBatch
    <3>2. /\ buffer' = SubSeq(buffer, Len(NextBatch) + 1, Len(buffer)) /\ accepted' = accepted
      BY <1>4 DEF GetNextBatch
    <3> HIDE DEF k
    <3>3. Len(NextBatch) = k
      BY <1>1, <3>1
    <3> QED
      BY <1>1, <3>1, <3>2, <3>3, SplitSeq
  <2>3. buffer' \in Seq(Nat) /\ accepted' \in Nat
    BY <2>1 DEF Parts, Sequences3
  <2>4. ASSUME NEW i \in 1..Len(buffer') PROVE \E j \in 1..Len(buffer) : buffer'[i] = buffer[j]
    BY <2>2 DEF Elements
  <2> QED
    BY <1>1, <2>2, <2>3, <2>4 DEF BufferMoves
<1>5. (buffer' = buffer /\ accepted' = accepted) \/ GetNextBatch \/ \E s \in Senders : EnqueueAdds(s)
  BY DEF Next, Enqueue, EnqueueIgnored, EnqueueChecksConsumer, EnqueuePosts, FlushStarts,
     TimerFires, HandlerStep, FlushFindsNothing, FlushBinds, FlushBindFails, MainStep,
     OnServiceConnected, OnNullBinding, SendingDone, OnEvent, OnEventThrows, EnableTestMode,
     DisableTestMode, Wait, WaitStarts, WaitTimesOut, WaitLeavesLock, WaitReturns, Quiescent
<1> QED
  BY <1>2, <1>3, <1>4, <1>5

LEMMA BeyondKept ==
  ASSUME Parts, BufferMoves, buffer' \in Seq(Nat), NEW n \in Nat, n <= accepted, Beyond(n)
  PROVE  Beyond(n)'
<1> SUFFICES ASSUME NEW i \in 1..Len(buffer') PROVE buffer'[i] > n
  BY DEF Beyond
<1>1. buffer'[i] > accepted \/ \E j \in 1..Len(buffer) : buffer'[i] = buffer[j]
  BY DEF BufferMoves
<1>2. CASE buffer'[i] > accepted
  <2>1. buffer'[i] \in Nat /\ accepted \in Nat
    BY DEF Parts, Sequences3
  <2> QED
    BY <1>2, <2>1
<1>3. CASE \E j \in 1..Len(buffer) : buffer'[i] = buffer[j]
  BY <1>3 DEF Beyond
<1> QED
  BY <1>1, <1>2, <1>3

(* What a call is typed as, and what the events are. *)
LEMMA WaitTypes ==
  ASSUME Parts, Scalars, NEW w \in Waiters
  PROVE  /\ wait[w].from \in Nat /\ wait[w].left \in Nat /\ accepted \in Nat
         /\ wait[w] \in WaitCalls /\ buffer \in Seq(Nat)
BY DEF Parts, Sequences3, Scalars, Counts, WaitCalls

(* A call that does not move. *)
LEMMA WaitKept ==
  ASSUME Parts, Scalars, BufferMoves, buffer' \in Seq(Nat),
         NEW w \in Waiters, WaitOK(w), wait'[w] = wait[w]
  PROVE  WaitOK(w)'
<1>1. wait[w].from \in Nat /\ wait[w].left \in Nat /\ accepted \in Nat
  BY WaitTypes
<1>2. wait[w].from <= accepted /\ wait[w].left <= accepted
  BY <1>1 DEF WaitOK
<1>3. \A n \in {wait[w].from, wait[w].left} : Beyond(n) => Beyond(n)'
  BY <1>1, <1>2, BeyondKept
<1>4. /\ Beyond(wait[w].from) => Beyond(wait[w].from)'
      /\ Beyond(wait[w].left) => Beyond(wait[w].left)'
  <2>1. PICK f, l : f = wait[w].from /\ l = wait[w].left
    OBVIOUS
  <2>2. (Beyond(f) => Beyond(f)') /\ (Beyond(l) => Beyond(l)')
    BY <1>3, <2>1
  <2> QED
    BY <2>1, <2>2 DEF Beyond
<1>5. /\ accepted' \in Nat /\ accepted' >= accepted
  BY DEF BufferMoves
<1> QED
  BY <1>1, <1>4, <1>5 DEF WaitOK

(* The main thread takes a batch; if it is the last, the calls that wait    *)
(* are notified.                                                            *)
LEMMA NotifyWaits ==
  ASSUME Parts, Scalars, BufferMoves, buffer' \in Seq(Nat), NEW w \in Waiters, WaitOK(w), GetNextBatch
  PROVE  WaitOK(w)'
<1>1. CASE wait[w].at = "waiting" /\ buffer' = <<>>
  <2>1. wait'[w] = [wait[w] EXCEPT !.at = "woken", !.emptied = TRUE] /\ accepted' = accepted
    BY <1>1 DEF GetNextBatch
  <2>2. wait[w] \in WaitCalls
    BY WaitTypes
  <2>3. /\ wait'[w].at = "woken" /\ wait'[w].from = wait[w].from /\ wait'[w].left = wait[w].left
        /\ wait'[w].answer = wait[w].answer
    BY <2>1, <2>2 DEF WaitCalls
  <2>4. Len(buffer') = 0
    BY <1>1
  <2>5. Beyond(wait[w].from)'
    BY <2>4 DEF Beyond
  <2> QED
    BY <1>1, <2>1, <2>3, <2>5 DEF WaitOK
<1>2. CASE ~(wait[w].at = "waiting" /\ buffer' = <<>>)
  <2>1. wait'[w] = wait[w]
    BY <1>2 DEF GetNextBatch
  <2> QED
    BY <2>1, WaitKept
<1> QED
  BY <1>1, <1>2

(* The steps of the call itself, which leave the buffer alone. *)
LEMMA OwnWaits ==
  ASSUME Parts, Scalars, NEW w \in Waiters, WaitOK(w), Wait(w)
  PROVE  WaitOK(w)'
<1>1. /\ buffer' = buffer /\ accepted' = accepted
  BY DEF Wait, WaitStarts, WaitTimesOut, WaitLeavesLock, WaitReturns, queueVars
<1>2. /\ wait[w].from \in Nat /\ wait[w].left \in Nat /\ accepted \in Nat
      /\ wait[w] \in WaitCalls /\ buffer \in Seq(Nat) /\ wait \in [Waiters -> WaitCalls]
  BY WaitTypes DEF Scalars, Counts
<1>3. CASE WaitStarts(w)
  <2>1. CASE buffer = <<>>
    <3>1. wait'[w] = [NoWait EXCEPT !.from = accepted, !.left = accepted, !.answer = "true"]
      BY <1>2, <1>3, <2>1 DEF WaitStarts, NoWait
    <3>2. /\ wait'[w].at = "idle" /\ wait'[w].from = accepted /\ wait'[w].left = accepted
          /\ ~wait'[w].emptied /\ Len(buffer') = 0
      BY <1>1, <2>1, <3>1 DEF NoWait
    <3> QED
      BY <1>1, <1>2, <3>2 DEF WaitOK, Beyond
  <2>2. CASE buffer # <<>>
    <3>1. wait'[w] = [NoWait EXCEPT !.from = accepted, !.left = accepted, !.at = "waiting"]
      BY <1>2, <1>3, <2>2 DEF WaitStarts, NoWait
    <3>2. /\ wait'[w].at = "waiting" /\ wait'[w].from = accepted /\ wait'[w].left = accepted
          /\ wait'[w].answer = "none" /\ ~wait'[w].emptied
      BY <3>1 DEF NoWait
    <3> QED
      BY <1>1, <1>2, <3>2 DEF WaitOK
  <2> QED
    BY <2>1, <2>2
<1>4. CASE WaitTimesOut(w)
  <2>1. wait[w].at = "waiting" /\ wait'[w] = [wait[w] EXCEPT !.at = "woken"]
    BY <1>2, <1>4 DEF WaitTimesOut
  <2>2. /\ wait'[w].at = "woken" /\ wait'[w].from = wait[w].from /\ wait'[w].left = wait[w].left
        /\ wait'[w].answer = wait[w].answer /\ wait'[w].emptied = wait[w].emptied
    BY <1>2, <2>1 DEF WaitCalls
  <2> QED
    BY <1>1, <2>1, <2>2 DEF WaitOK, Beyond
<1>5. CASE WaitLeavesLock(w)
  <2>1. /\ wait[w].at = "woken"
        /\ wait'[w] = [wait[w] EXCEPT !.at = "left", !.left = accepted, !.clear = (buffer = <<>>)]
    BY <1>2, <1>5 DEF WaitLeavesLock
  <2>2. /\ wait'[w].at = "left" /\ wait'[w].from = wait[w].from /\ wait'[w].left = accepted
        /\ wait'[w].answer = wait[w].answer /\ wait'[w].emptied = wait[w].emptied
        /\ wait'[w].clear = (buffer = <<>>)
    BY <1>2, <2>1 DEF WaitCalls
  <2>3. wait[w].from <= accepted
    BY <1>2 DEF WaitOK
  <2>4. ASSUME wait[w].emptied, buffer # <<>> PROVE accepted > wait[w].from
    <3>1. 1 \in 1..Len(buffer) /\ buffer[1] \in Elements(buffer)
      BY <1>2, <2>4 DEF Elements
    <3>2. buffer[1] <= accepted /\ buffer[1] \in Nat
      BY <1>2, <3>1 DEF Parts, Order
    <3>3. buffer[1] > wait[w].from
      BY <2>4, <3>1 DEF WaitOK, Beyond
    <3> QED
      BY <1>2, <3>2, <3>3
  <2>5. wait'[w].answer = "none"
    BY <2>1, <2>2 DEF WaitOK
  <2>6. ASSUME wait'[w].emptied PROVE \A i \in 1..Len(buffer') : buffer'[i] > wait'[w].from
    <3>1. Beyond(wait[w].from)
      BY <2>2, <2>6 DEF WaitOK
    <3> QED
      BY <1>1, <2>2, <3>1 DEF Beyond
  <2>7. ASSUME wait'[w].emptied, ~wait'[w].clear PROVE accepted > wait'[w].from
    <3>1. wait[w].emptied /\ buffer # <<>>
      BY <2>2, <2>7
    <3> QED
      BY <2>2, <2>4, <3>1
  <2>8. wait'[w].from <= wait'[w].left /\ wait'[w].left <= accepted'
    BY <1>1, <1>2, <2>2, <2>3
  <2> QED
    BY <1>1, <2>2, <2>5, <2>6, <2>7, <2>8 DEF WaitOK, Beyond
<1>6. CASE WaitReturns(w)
  <2>1. PICK answer \in {"true", "false"}, torn \in BOOLEAN :
           /\ ~torn => IF answer = "true" THEN ReadsEmpty(w) ELSE ReadsNonEmpty(w)
           /\ torn => answer = "true"
           /\ wait' = [wait EXCEPT ![w] = [@ EXCEPT !.at = "idle", !.answer = answer, !.torn = torn]]
    BY <1>6 DEF WaitReturns
  <2>2. wait'[w] = [wait[w] EXCEPT !.at = "idle", !.answer = answer, !.torn = torn]
    BY <1>2, <2>1
  <2>3. /\ wait'[w].at = "idle" /\ wait'[w].from = wait[w].from /\ wait'[w].left = wait[w].left
        /\ wait'[w].answer = answer /\ wait'[w].emptied = wait[w].emptied /\ wait'[w].torn = torn
    BY <1>2, <2>2 DEF WaitCalls
  <2>4. ASSUME answer = "true", ~torn PROVE Beyond(wait[w].left)
    <3>1. ReadsEmpty(w) /\ DOMAIN buffer = 1..Len(buffer)
      BY <1>2, <2>1, <2>4
    <3> QED
      BY <3>1 DEF ReadsEmpty, Beyond
  <2>5. ASSUME answer = "false", wait[w].emptied PROVE accepted > wait[w].from
    <3>1. ReadsNonEmpty(w) /\ wait[w].at = "left"
      BY <1>6, <2>1, <2>5 DEF WaitReturns
    <3>2. CASE ~wait[w].clear
      BY <2>5, <3>1, <3>2 DEF WaitOK
    <3>3. CASE accepted # wait[w].left
      BY <1>2, <3>3 DEF WaitOK
    <3> QED
      BY <3>1, <3>2, <3>3 DEF ReadsNonEmpty
  <2> QED
    BY <1>1, <1>2, <2>3, <2>4, <2>5 DEF WaitOK, Beyond
<1> QED
  BY <1>3, <1>4, <1>5, <1>6 DEF Wait

Waits == \A w \in Waiters : WaitOK(w)

LEMMA NextWaits == Parts /\ Scalars /\ Waits /\ [Next]_vars => Waits'
<1> SUFFICES ASSUME Parts, Scalars, Waits, [Next]_vars, NEW w \in Waiters PROVE WaitOK(w)'
  BY DEF Waits
<1>1. BufferMoves /\ buffer' \in Seq(Nat) /\ WaitOK(w)
  BY BufferSteps DEF Waits
<1>2. CASE GetNextBatch
  BY <1>1, <1>2, NotifyWaits
<1>3. CASE \E u \in Waiters : Wait(u)
  <2>1. PICK u \in Waiters : Wait(u)
    BY <1>3
  <2>2. CASE u = w
    BY <1>1, <2>1, <2>2, OwnWaits
  <2>3. CASE u # w
    <3>1. wait'[w] = wait[w]
      BY <2>1, <2>3 DEF Wait, WaitStarts, WaitTimesOut, WaitLeavesLock, WaitReturns,
                        Scalars, Counts
    <3> QED
      BY <1>1, <3>1, WaitKept
  <2> QED
    BY <2>2, <2>3
<1>4. CASE wait' = wait
  BY <1>1, <1>4, WaitKept
<1>5. wait' = wait \/ GetNextBatch \/ \E u \in Waiters : Wait(u)
  BY DEF Next, Enqueue, EnqueueIgnored, EnqueueChecksConsumer, EnqueueAdds, EnqueuePosts,
     FlushStarts, TimerFires, HandlerStep, FlushFindsNothing, FlushBinds, FlushBindFails,
     MainStep, OnServiceConnected, OnNullBinding, SendingDone, OnEvent, OnEventThrows,
     EnableTestMode, DisableTestMode, Quiescent, vars, waitVars
<1> QED
  BY <1>2, <1>3, <1>4, <1>5

(* The answers of waitQueueFlushed mean something, though it reads the      *)
(* buffer outside mLock: true, that what was there when it left mLock is    *)
(* gone; false after a notification, that an event was queued since.        *)
THEOREM FlushedAnswer == Spec => []QueueFlushedAnswer
<1>1. Init => Waits
  <2> SUFFICES ASSUME Init, NEW w \in Waiters PROVE WaitOK(w)
    BY DEF Waits
  <2>1. /\ wait[w] = NoWait /\ accepted = 0
    BY DEF Init
  <2> QED
    BY <2>1 DEF WaitOK, NoWait
<1>2. Parts /\ Waits => QueueFlushedAnswer
  <2> SUFFICES ASSUME Parts, Waits PROVE QueueFlushedAnswer
    OBVIOUS
  <2>1. DOMAIN buffer = 1..Len(buffer)
    BY DEF Parts, Sequences3
  <2> QED
    BY <2>1 DEF Waits, WaitOK, Beyond, QueueFlushedAnswer
<1> QED
  BY <1>1, <1>2, InitParts, NextParts, InitScalars, NextScalars, NextWaits, PTL DEF Spec
=============================================================================
