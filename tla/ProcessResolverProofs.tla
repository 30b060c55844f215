----------------------- MODULE ProcessResolverProofs -----------------------
(***************************************************************************)
(* Proofs about the resolution of processes and offsets.  A state is good  *)
(* when the system's part of it is (SystemOK) and each waiter's part is    *)
(* (WaiterOK).  A step of the system only extends started, which no        *)
(* waiter's part notices but for the notices on their way; a step of a     *)
(* waiter leaves the other waiters alone and takes records out of the ring *)
(* only.                                                                   *)
(***************************************************************************)
EXTENDS ProcessResolver, DataLemmas

Records == [pid : Pids \cup {0}, name : Names]

(* A record of the ring that has a pid is of a process that was started. *)
SystemOK ==
    /\ starts \in 0..MaxStarts /\ foreign \in BOOLEAN /\ useObserver \in BOOLEAN
    /\ started \in SUBSET Processes /\ running \subseteq started /\ ready \subseteq running
    /\ \A p, q \in running : p.pid = q.pid => p = q
    /\ ring \in Seq(Records) /\ Len(ring) <= RingCapacity
    /\ \A i \in 1..Len(ring) : ring[i].pid > 0 => ring[i] \in started

Stages == {"start", "observing", "received", "expired", "attached", "polling", "offsets"} \cup Ends

Shapes ==
    /\ pc \in [Waiters -> Stages] /\ want \in [Waiters -> Selections]
    /\ inflight \in [Waiters -> Seq(Processes)] /\ channel \in [Waiters -> Seq(Processes)]
    /\ delivered \in [Waiters -> Seq(Processes)] /\ decided \in [Waiters -> Nat]
    /\ found \in [Waiters -> Processes \cup {Nobody}] /\ attempts \in [Waiters -> Nat]

(* What a waiter goes on with was started under the name it asked for. *)
IsTarget(w) ==
    /\ Matches(w, found[w].name)
    /\ \E p \in started :
           /\ p.pid = found[w].pid
           /\ \/ p.name = found[w].name
              \/ want[w] = [kind |-> "named", name |-> SystemServer] /\ p.name \in SystemServerLike

(* p is the first that matches of the first n starts the observer told of. *)
FirstTold(w, p, n) ==
    \E i \in 1..n : /\ Awaited(w, i) /\ p = delivered[w][i]
                    /\ \A j \in 1..(i - 1) : ~Awaited(w, j)

NoneTold(w, n) == \A i \in 1..n : ~Awaited(w, i)

(* While the waiter has not decided, the channel tells what the observer    *)
(* was told: it is empty if nothing matched, and its head is the first      *)
(* match.                                                                   *)
Waiting(w) ==
    /\ channel[w] = <<>> => NoneTold(w, Len(delivered[w]))
    /\ channel[w] # <<>> => FirstTold(w, channel[w][1], Len(delivered[w]))

(* What a waiter's wait has come to.  A lookup that has not ended has a     *)
(* retry left.                                                              *)
Outcome(w) ==
    /\ attempts[w] <= MaxRetries + 1 /\ (pc[w] \notin Ends => attempts[w] <= MaxRetries)
    /\ pc[w] \in {"start", "attached", "polling"} => delivered[w] = <<>> /\ channel[w] = <<>>
    /\ pc[w] \in {"attached", "polling"} => ~useObserver
    /\ pc[w] \in {"start", "attached", "polling"} => decided[w] = 0
    /\ pc[w] = "observing" => Waiting(w)
    /\ pc[w] \in {"observing", "received", "expired"} => useObserver
    /\ pc[w] \in {"expired", "timed_out"} => NoneTold(w, decided[w])
    /\ pc[w] \in {"received", "offsets", "resolved"} => IsTarget(w)
    /\ pc[w] \in {"received", "offsets", "resolved"} /\ useObserver /\ want[w].kind = "on_start"
       => FirstTold(w, found[w], decided[w])

WaiterOK(w) ==
    /\ \A i \in 1..Len(inflight[w]) : inflight[w][i] \in started
    /\ \A i \in 1..Len(channel[w]) : channel[w][i] \in started /\ Matches(w, channel[w][i].name)
    /\ decided[w] <= Len(delivered[w])
    /\ Outcome(w)

Good == SystemOK /\ Shapes /\ \A w \in Waiters : WaiterOK(w)

LEMMA InitGood == Init => Good
<1> SUFFICES ASSUME Init PROVE Good
  OBVIOUS
<1> USE ProcessAssumption
<1>1. SystemOK
  <2>1. Process(SystemPid, SystemServer) \in Processes
    BY DEF Process, Processes
  <2>2. ring \in Seq(Records) /\ Len(ring) = 0
    BY DEF Init
  <2> QED
    BY <2>1, <2>2 DEF Init, SystemOK
<1>2. Shapes
  BY DEF Init, Shapes, Stages
<1>3. ASSUME NEW w \in Waiters PROVE WaiterOK(w)
  BY DEF Init, WaiterOK, Outcome, Ends
<1> QED
  BY <1>1, <1>2, <1>3 DEF Good

-----------------------------------------------------------------------------
(* Steps of the system. *)

(* A waiter's part only asks started to hold what it held. *)
LEMMA WaiterKept ==
  ASSUME NEW w \in Waiters, WaiterOK(w), started \subseteq started',
         useObserver' = useObserver, want' = want,
         pc'[w] = pc[w], found'[w] = found[w], attempts'[w] = attempts[w],
         channel'[w] = channel[w], delivered'[w] = delivered[w], decided'[w] = decided[w],
         \A i \in 1..Len(inflight'[w]) : inflight'[w][i] \in started'
  PROVE  WaiterOK(w)'
<1>1. \A x : Matches(w, x)' <=> Matches(w, x)
  BY DEF Matches
<1>2. \A i : Awaited(w, i)' <=> Awaited(w, i)
  BY <1>1 DEF Awaited
<1>3. /\ \A n : NoneTold(w, n)' <=> NoneTold(w, n)
      /\ \A p, n : FirstTold(w, p, n)' <=> FirstTold(w, p, n)
  BY <1>2 DEF NoneTold, FirstTold
<1>4. Waiting(w)' <=> Waiting(w)
  BY <1>3 DEF Waiting
<1>5. IsTarget(w) => IsTarget(w)'
  BY <1>1 DEF IsTarget
<1>6. Outcome(w)'
  BY <1>3, <1>4, <1>5 DEF WaiterOK, Outcome
<1> QED
  BY <1>1, <1>6 DEF WaiterOK

LEMMA LiveProbesNat == LiveProbes \in Nat
<1> DEFINE S == {w \in Waiters : pc[w] = "attached"}
<1>1. IsFiniteSet(S)
  BY ProcessAssumption, FS_Subset
<1>2. Cardinality(S) \in Nat
  BY <1>1, FS_CardinalityType
<1> QED
  BY <1>2 DEF LiveProbes

LEMMA StartsGood ==
  ASSUME Good, NEW name \in Names, ProcessStarts(name)
  PROVE  Good'
<1>1. PICK pid \in Pids \ {p.pid : p \in running} :
         LET new == Process(pid, name)
         IN  /\ starts < MaxStarts /\ starts' = starts + 1
             /\ started' = started \cup {new} /\ running' = running \cup {new}
             /\ inflight' = [w \in Waiters |-> IF Observed(w) THEN Append(inflight[w], new)
                                                              ELSE inflight[w]]
             /\ \E n \in 0..Min({LiveProbes, RingCapacity - Len(ring)}) :
                    \E records \in [1..n -> {new, Process(0, name)}] : ring' = ring \o records
             /\ UNCHANGED <<useObserver, ready, foreign, pc, want, channel, delivered, decided,
                            found, attempts>>
  BY DEF ProcessStarts
<1> DEFINE new == Process(pid, name)
           more == Min({LiveProbes, RingCapacity - Len(ring)})
<1>2. new \in Processes /\ new.pid = pid /\ pid > 0
  <2>1. pid \in Pids /\ pid \in Nat /\ pid # 0
    BY ProcessAssumption
  <2>2. new = [pid |-> pid, name |-> name]
    BY DEF Process
  <2> HIDE DEF new
  <2> QED
    BY <2>1, <2>2 DEF Processes
<1>3. new \in Records /\ Process(0, name) \in Records /\ Process(0, name).pid = 0
  BY DEF Process, Records
<1>4. SystemOK /\ Shapes /\ Len(ring) \in Nat
  BY DEF Good, SystemOK
<1>5. more \in 0..(RingCapacity - Len(ring))
  <2>1. RingCapacity - Len(ring) \in Nat
    BY <1>4, ProcessAssumption DEF SystemOK
  <2>2. {LiveProbes, RingCapacity - Len(ring)} \in SUBSET Nat
    BY <2>1, LiveProbesNat
  <2>3. /\ more \in {LiveProbes, RingCapacity - Len(ring)}
        /\ more <= RingCapacity - Len(ring)
    BY <2>2, MinIsLeast
  <2> QED
    BY <2>1, <2>2, <2>3
<1> HIDE DEF new, more
<1>6. PICK n \in 0..more : \E records \in [1..n -> {new, Process(0, name)}] : ring' = ring \o records
  BY <1>1 DEF new, more
<1>7. PICK records \in [1..n -> {new, Process(0, name)}] : ring' = ring \o records
  BY <1>6
<1>8. n \in Nat /\ n <= RingCapacity - Len(ring)
  BY <1>4, <1>5, <1>6, ProcessAssumption
<1>9. records \in Seq(Records) /\ Len(records) = n
  BY <1>3, <1>7, <1>8
<1>10. /\ ring' \in Seq(Records) /\ Len(ring') = Len(ring) + n
       /\ \A i \in 1..Len(ring') :
              ring'[i] = IF i <= Len(ring) THEN ring[i] ELSE records[i - Len(ring)]
  <2>1. ring \in Seq(Records)
    BY <1>4 DEF SystemOK
  <2> QED
    BY <1>7, <1>9, <2>1, ConcatProperties, ZenonT(40)
<1>11. /\ started' = started \cup {new} /\ running' = running \cup {new}
       /\ starts < MaxStarts /\ starts' = starts + 1 /\ pid \notin {p.pid : p \in running}
       /\ inflight' = [w \in Waiters |-> IF Observed(w) THEN Append(inflight[w], new)
                                                        ELSE inflight[w]]
       /\ UNCHANGED <<useObserver, ready, foreign, pc, want, channel, delivered, decided,
                      found, attempts>>
  BY <1>1 DEF new
<1>12. ASSUME NEW i \in 1..Len(ring'), ring'[i].pid > 0 PROVE ring'[i] \in started'
  <2>1. CASE i <= Len(ring)
    <3>1. ring'[i] = ring[i] /\ i \in 1..Len(ring)
      BY <1>4, <1>8, <1>10, <2>1
    <3> QED
      BY <1>4, <1>11, <1>12, <3>1 DEF SystemOK
  <2>2. CASE i > Len(ring)
    <3>1. PICK j : j = i - Len(ring)
      OBVIOUS
    <3>2. ~(i <= Len(ring)) /\ j \in 1..n
      BY <1>4, <1>8, <1>10, <2>2, <3>1
    <3>3. ring'[i] = records[j]
      BY <1>10, <3>1, <3>2
    <3>4. ring'[i] \in {new, Process(0, name)}
      BY <1>7, <3>2, <3>3
    <3> QED
      BY <1>3, <1>11, <1>12, <3>4
  <2> QED
    BY <1>4, <1>8, <1>10, <2>1, <2>2
<1>13. SystemOK'
  <2>1. Len(ring') <= RingCapacity
    BY <1>4, <1>8, <1>10, ProcessAssumption
  <2>2. \A p, q \in running' : p.pid = q.pid => p = q
    BY <1>2, <1>4, <1>11 DEF SystemOK
  <2>3. starts' \in 0..MaxStarts
    BY <1>4, <1>11, ProcessAssumption DEF SystemOK
  <2>4. /\ started' \in SUBSET Processes /\ running' \subseteq started' /\ ready' \subseteq running'
        /\ foreign' \in BOOLEAN /\ useObserver' \in BOOLEAN
    BY <1>2, <1>4, <1>11 DEF SystemOK
  <2> QED
    BY <1>10, <1>12, <2>1, <2>2, <2>3, <2>4 DEF SystemOK
<1>14. Shapes'
  <2>1. inflight' \in [Waiters -> Seq(Processes)]
    BY <1>2, <1>4, <1>11 DEF Shapes
  <2> QED
    BY <1>4, <1>11, <2>1 DEF Shapes
<1>15. ASSUME NEW w \in Waiters PROVE WaiterOK(w)'
  <2>1. WaiterOK(w) /\ inflight[w] \in Seq(Processes)
    BY DEF Good, Shapes
  <2>2. inflight'[w] = Append(inflight[w], new) \/ inflight'[w] = inflight[w]
    BY <1>11
  <2>3. \A i \in 1..Len(inflight'[w]) : inflight'[w][i] \in started'
    <3>1. CASE inflight'[w] = Append(inflight[w], new)
      BY <1>2, <1>11, <2>1, <3>1 DEF WaiterOK
    <3>2. CASE inflight'[w] = inflight[w]
      BY <1>11, <2>1, <3>2 DEF WaiterOK
    <3> QED
      BY <2>2, <3>1, <3>2
  <2> QED
    BY <1>11, <2>1, <2>3, WaiterKept
<1> QED
  BY <1>13, <1>14, <1>15 DEF Good

LEMMA ReadyOrDiesGood ==
  ASSUME Good, NEW p, ProcessReady(p) \/ ProcessDies(p)
  PROVE  Good'
<1>1. /\ running' \subseteq running /\ ready' \subseteq running'
      /\ UNCHANGED <<useObserver, starts, started, foreign, ring, pc, want, observerVars,
                     found, attempts>>
  BY DEF ProcessReady, ProcessDies, Good, SystemOK
<1>2. SystemOK'
  BY <1>1 DEF Good, SystemOK
<1>3. Shapes'
  BY <1>1 DEF Good, Shapes, observerVars
<1>4. ASSUME NEW w \in Waiters PROVE WaiterOK(w)'
  <2>1. WaiterOK(w) /\ \A i \in 1..Len(inflight'[w]) : inflight'[w][i] \in started'
    BY <1>1 DEF Good, WaiterOK, observerVars
  <2> QED
    BY <1>1, <2>1, WaiterKept DEF observerVars
<1> QED
  BY <1>2, <1>3, <1>4 DEF Good

-----------------------------------------------------------------------------
(* Steps of a waiter and of its observer. *)

(* What a step of waiter w may do to the rest of the state. *)
OwnStep(w) ==
    /\ UNCHANGED <<processVars, want>> /\ ring' \in {ring, <<>>}
    /\ \A u \in Waiters \ {w} :
           /\ pc'[u] = pc[u] /\ found'[u] = found[u] /\ attempts'[u] = attempts[u]
           /\ inflight'[u] = inflight[u] /\ channel'[u] = channel[u]
           /\ delivered'[u] = delivered[u] /\ decided'[u] = decided[u]

LEMMA OwnStepGood ==
  ASSUME Good, NEW w \in Waiters, OwnStep(w), Shapes', WaiterOK(w)'
  PROVE  Good'
<1>1. SystemOK /\ UNCHANGED <<useObserver, starts, started, running, ready, foreign, want>>
  BY DEF Good, OwnStep, processVars
<1>2. SystemOK'
  <2>1. CASE ring' = ring
    BY <1>1, <2>1 DEF SystemOK
  <2>2. CASE ring' = <<>>
    <3>1. Len(ring') = 0 /\ ring' \in Seq(Records)
      BY <2>2
    <3> QED
      BY <1>1, <3>1, ProcessAssumption DEF SystemOK
  <2> QED
    BY <2>1, <2>2 DEF OwnStep
<1>3. ASSUME NEW u \in Waiters \ {w} PROVE WaiterOK(u)'
  <2>1. WaiterOK(u) /\ \A i \in 1..Len(inflight'[u]) : inflight'[u][i] \in started'
    BY <1>1 DEF Good, WaiterOK, OwnStep
  <2> QED
    BY <1>1, <2>1, WaiterKept DEF OwnStep
<1> QED
  BY <1>2, <1>3 DEF Good

(* Many steps change a waiter's progress, its attempts and what it found    *)
(* only, and perhaps empty the ring: what is left to show is its outcome.   *)
LEMMA PlainStepGood ==
  ASSUME Good, NEW w \in Waiters, NEW from, NEW to \in Stages, Moves(w, from, to),
         UNCHANGED <<processVars, want, observerVars>>, ring' \in {ring, <<>>},
         NEW p \in Processes \cup {Nobody}, found' = found \/ found' = [found EXCEPT ![w] = p],
         NEW k \in Nat, attempts' = attempts \/ attempts' = [attempts EXCEPT ![w] = k],
         Outcome(w)'
  PROVE  Good'
<1>1. /\ pc \in [Waiters -> Stages] /\ pc' = [pc EXCEPT ![w] = to]
      /\ found \in [Waiters -> Processes \cup {Nobody}] /\ attempts \in [Waiters -> Nat]
  BY DEF Moves, Good, Shapes
<1>2. found' \in [Waiters -> Processes \cup {Nobody}] /\ attempts' \in [Waiters -> Nat]
  BY <1>1
<1>3. Shapes'
  BY <1>1, <1>2 DEF Good, Shapes, observerVars
<1>4. OwnStep(w)
  BY <1>1 DEF OwnStep, observerVars
<1>5. WaiterOK(w)'
  BY DEF Good, WaiterOK, Matches, observerVars, processVars
<1> QED
  BY <1>3, <1>4, <1>5, OwnStepGood

(* The wait has not begun, or has found nothing. *)
LEMMA MoveGood ==
  ASSUME Good, NEW w \in Waiters, NEW from, NEW to, Moves(w, from, to),
         UNCHANGED <<processVars, want, observerVars, found, attempts>>,
         ring' \in {ring, <<>>}, from \notin Ends,
         \/ to = "failed"
         \/ from = "start" /\ to = "observing" /\ useObserver
         \/ from \in {"start", "attached", "polling"} /\ to \in {"attached", "polling"} /\ ~useObserver
         \/ from = "polling" /\ to = "timed_out"
  PROVE  Good'
<1>1. pc[w] = from /\ pc'[w] = to /\ to \in Stages
  BY DEF Moves, Good, Shapes, Stages, Ends
<1>2. WaiterOK(w) /\ attempts[w] \in Nat /\ delivered[w] \in Seq(Processes)
  BY DEF Good, Shapes
<1>3. attempts'[w] <= MaxRetries + 1 /\ (pc'[w] \notin Ends => attempts'[w] <= MaxRetries)
  BY <1>1, <1>2, ProcessAssumption DEF WaiterOK, Outcome, Ends
<1>4. Waiting(w)' <=> Waiting(w)
  BY DEF Waiting, NoneTold, FirstTold, Awaited, Matches, observerVars
<1>5. to = "observing" => Waiting(w)
  BY <1>1, <1>2 DEF Waiting, NoneTold, WaiterOK, Outcome, Ends
<1>6. to = "timed_out" => NoneTold(w, decided[w])'
  BY <1>1, <1>2 DEF NoneTold, WaiterOK, Outcome, observerVars, Ends
<1>7. Outcome(w)'
  BY <1>1, <1>2, <1>3, <1>4, <1>5, <1>6 DEF WaiterOK, Outcome, observerVars, processVars, Ends
<1>8. Nobody \in Processes \cup {Nobody} /\ found' = found /\ attempts' = attempts
  OBVIOUS
<1> QED
  BY <1>1, <1>7, <1>8, PlainStepGood

(* A waiter takes up a process of the target's name, other than from an     *)
(* observer.                                                                *)
LEMMA FindsGood ==
  ASSUME Good, NEW w \in Waiters, NEW from, Moves(w, from, "offsets"), from \notin Ends,
         NEW p \in Processes, found' = [found EXCEPT ![w] = p],
         UNCHANGED <<processVars, want, observerVars, attempts>>, ring' \in {ring, <<>>},
         ~useObserver \/ want[w].kind = "named", IsTarget(w)'
  PROVE  Good'
<1>1. pc[w] = from /\ pc'[w] = "offsets" /\ "offsets" \in Stages
  BY DEF Moves, Good, Shapes, Stages
<1>2. WaiterOK(w) /\ attempts[w] \in Nat
  BY DEF Good, Shapes
<1>3. Outcome(w)'
  BY <1>1, <1>2 DEF WaiterOK, Outcome, observerVars, processVars, Ends
<1> QED
  BY <1>1, <1>2, <1>3, PlainStepGood

LEMMA LookupGood ==
  ASSUME Good, NEW w \in Waiters, LookupRunning(w)
  PROVE  Good'
<1>1. PICK p \in running :
         p.name \in Answering(want[w].name) /\ found' = [found EXCEPT ![w] = Process(p.pid, want[w].name)]
  BY DEF LookupRunning
<1>2. /\ want[w].kind = "named" /\ want[w].name # NoName /\ Moves(w, "start", "offsets")
      /\ UNCHANGED <<systemVars, want, observerVars, attempts>>
  BY DEF LookupRunning
<1>3. want[w] \in Selections /\ p \in Processes /\ p \in started
  BY DEF Good, Shapes, SystemOK
<1> DEFINE q == Process(p.pid, want[w].name)
<1>4. q \in Processes /\ q.pid = p.pid /\ q.name = want[w].name
  BY <1>2, <1>3 DEF Process, Processes, Selections
<1> HIDE DEF q
<1>5. found'[w] = q
  BY <1>1 DEF Good, Shapes, q
<1>6. want[w].name = SystemServer => want[w] = [kind |-> "named", name |-> SystemServer]
  BY <1>2, <1>3 DEF Selections
<1>7. IsTarget(w)'
  <2>1. Matches(w, found[w].name)'
    BY <1>2, <1>4, <1>5 DEF Matches
  <2>2. \/ p.name = q.name
        \/ want[w] = [kind |-> "named", name |-> SystemServer] /\ p.name \in SystemServerLike
    BY <1>1, <1>4, <1>6 DEF Answering
  <2> QED
    BY <1>2, <1>3, <1>4, <1>5, <2>1, <2>2 DEF IsTarget, systemVars, processVars
<1>8. UNCHANGED <<processVars, want, observerVars, attempts>> /\ ring' = ring
  BY <1>2 DEF systemVars
<1>9. found' = [found EXCEPT ![w] = q] /\ "start" \notin Ends
  BY <1>1 DEF q, Ends
<1> QED
  BY <1>2, <1>4, <1>7, <1>8, <1>9, FindsGood

(* The record found first has a pid, so its process was started. *)
LEMMA PollGood ==
  ASSUME Good, NEW w \in Waiters, PollFinds(w)
  PROVE  Good'
<1>1. ring \in Seq(Records) /\ DOMAIN ring = 1..Len(ring) /\ Len(ring) \in Nat
  BY DEF Good, SystemOK
<1>2. Usable(w) \in SUBSET Nat /\ Usable(w) # {}
  BY <1>1 DEF PollFinds, Usable
<1>3. Min(Usable(w)) \in Usable(w)
  BY <1>2, MinIsLeast
<1> DEFINE n == Min(Usable(w))
<1>4. n \in 1..Len(ring) /\ Matches(w, ring[n].name) /\ ring[n].pid > 0
  BY <1>1, <1>3 DEF Usable
<1>5. ring[n] \in started /\ ring[n] \in Processes
  BY <1>4 DEF Good, SystemOK
<1>6. /\ Moves(w, "polling", "offsets") /\ found' = [found EXCEPT ![w] = ring[n]] /\ ring' = <<>>
      /\ UNCHANGED <<processVars, want, observerVars, attempts>>
  BY DEF PollFinds
<1>7. ~useObserver
  BY <1>6 DEF Moves, Good, WaiterOK, Outcome
<1> HIDE DEF n
<1>8. found'[w] = ring[n]
  BY <1>6 DEF Good, Shapes
<1>9. IsTarget(w)'
  BY <1>4, <1>5, <1>6, <1>8 DEF IsTarget, Matches, processVars
<1> QED
  BY <1>5, <1>6, <1>7, <1>9, FindsGood DEF Ends

(* The lookup of offsets. *)
LEMMA OffsetsGood ==
  ASSUME Good, NEW w \in Waiters, OffsetsFound(w) \/ OffsetsRetry(w) \/ OffsetsFail(w)
  PROVE  Good'
<1>1. PICK to \in {"resolved", "offsets", "failed"} :
         /\ Moves(w, "offsets", to) /\ (to = "offsets" => MayRetry(w))
         /\ attempts' = [attempts EXCEPT ![w] = @ + 1]
         /\ UNCHANGED <<systemVars, want, observerVars, found>>
  BY DEF OffsetsFound, OffsetsRetry, OffsetsFail
<1>2. pc[w] = "offsets" /\ pc'[w] = to /\ to \in Stages
  BY <1>1 DEF Moves, Good, Shapes, Stages, Ends
<1>3. WaiterOK(w) /\ attempts[w] \in Nat /\ attempts'[w] = attempts[w] + 1
  BY <1>1 DEF Good, Shapes
<1>4. attempts'[w] <= MaxRetries + 1 /\ (pc'[w] \notin Ends => attempts'[w] <= MaxRetries)
  BY <1>1, <1>2, <1>3, ProcessAssumption DEF WaiterOK, Outcome, MayRetry, Ends
<1>5. IsTarget(w)' <=> IsTarget(w)
  BY <1>1 DEF IsTarget, Matches, systemVars, processVars
<1>6. \A p, n : FirstTold(w, p, n)' <=> FirstTold(w, p, n)
  BY <1>1 DEF FirstTold, Awaited, Matches, observerVars
<1>7. Outcome(w)'
  BY <1>1, <1>2, <1>3, <1>4, <1>5, <1>6
     DEF WaiterOK, Outcome, observerVars, systemVars, processVars, Ends
<1>8. attempts' = [attempts EXCEPT ![w] = attempts[w] + 1] /\ attempts[w] + 1 \in Nat
  BY <1>1, <1>3
<1>9. Nobody \in Processes \cup {Nobody} /\ found' = found /\ ring' = ring
      /\ UNCHANGED <<processVars, want, observerVars>>
  BY <1>1 DEF systemVars
<1> QED
  BY <1>1, <1>2, <1>7, <1>8, <1>9, PlainStepGood

(* recv_timeout makes up its mind: the channel tells what was told so far.  *)
LEMMA RecvGood ==
  ASSUME Good, NEW w \in Waiters, RecvReturns(w) \/ RecvTimesOut(w)
  PROVE  Good'
<1> DEFINE n == Len(delivered[w])
<1>1. /\ Shapes /\ WaiterOK(w) /\ pc[w] = "observing" /\ useObserver /\ Waiting(w)
      /\ channel[w] \in Seq(Processes) /\ n \in Nat /\ attempts[w] \in Nat
  BY DEF Good, Shapes, WaiterOK, Outcome, RecvReturns, RecvTimesOut, Moves
<1>2. /\ decided' = [decided EXCEPT ![w] = n] /\ decided'[w] = n
      /\ UNCHANGED <<processVars, ring, want, inflight, delivered, attempts>>
      /\ UNCHANGED <<useObserver, started>>
  BY <1>1 DEF RecvReturns, RecvTimesOut, systemVars, processVars, Shapes
<1>3. \A i : Awaited(w, i)' <=> Awaited(w, i)
  BY <1>2 DEF Awaited, Matches
<1>4. /\ NoneTold(w, n) => NoneTold(w, decided[w])'
      /\ \A p : FirstTold(w, p, n) /\ found'[w] = p => FirstTold(w, found[w], decided[w])'
  BY <1>2, <1>3 DEF NoneTold, FirstTold
<1> HIDE DEF n
<1>5. CASE RecvTimesOut(w)
  <2>1. /\ pc' = [pc EXCEPT ![w] = "expired"] /\ pc'[w] = "expired" /\ channel[w] = <<>>
        /\ UNCHANGED <<channel, found>>
    BY <1>1, <1>5 DEF RecvTimesOut, Moves, Shapes
  <2>2. Shapes'
    BY <1>1, <1>2, <2>1 DEF Shapes, Stages
  <2>3. OwnStep(w)
    BY <1>1, <1>2, <2>1 DEF OwnStep, Shapes
  <2>4. NoneTold(w, decided[w])'
    BY <1>1, <1>4, <2>1 DEF Waiting, n
  <2>5. Outcome(w)'
    BY <1>1, <1>2, <2>1, <2>4 DEF WaiterOK, Outcome, Ends
  <2>6. (\A i \in 1..Len(channel[w]) : channel[w][i] \in started /\ Matches(w, channel[w][i].name))'
    BY <1>1, <1>2, <2>1 DEF WaiterOK, Matches
  <2>7. decided'[w] <= Len(delivered'[w])
    BY <1>1, <1>2 DEF n
  <2>8. \A i \in 1..Len(inflight'[w]) : inflight'[w][i] \in started'
    BY <1>1, <1>2 DEF WaiterOK
  <2>9. WaiterOK(w)'
    BY <2>5, <2>6, <2>7, <2>8 DEF WaiterOK
  <2> QED
    BY <2>2, <2>3, <2>9, OwnStepGood
<1>6. CASE RecvReturns(w)
  <2>1. /\ pc' = [pc EXCEPT ![w] = "received"] /\ pc'[w] = "received" /\ channel[w] # <<>>
        /\ channel' = [channel EXCEPT ![w] = Tail(@)] /\ channel'[w] = Tail(channel[w])
    BY <1>1, <1>6 DEF RecvReturns, Moves, Shapes
  <2>2. Head(channel[w]) = channel[w][1] /\ 1 \in 1..Len(channel[w]) /\ channel[w][1] \in Processes
    BY <1>1, <2>1
  <2>3. found' = [found EXCEPT ![w] = channel[w][1]] /\ found'[w] = channel[w][1]
    BY <1>1, <1>6, <2>2 DEF RecvReturns, Shapes
  <2>4. Tail(channel[w]) \in Seq(Processes)
    BY <1>1, <2>1
  <2>5. Shapes'
    <3>1. channel' \in [Waiters -> Seq(Processes)]
      BY <1>1, <2>1, <2>4 DEF Shapes
    <3>2. found' \in [Waiters -> Processes \cup {Nobody}] /\ decided' \in [Waiters -> Nat]
      BY <1>1, <1>2, <2>2, <2>3 DEF Shapes
    <3> QED
      BY <1>1, <1>2, <2>1, <3>1, <3>2 DEF Shapes, Stages
  <2>6. OwnStep(w)
    BY <1>1, <1>2, <2>1, <2>3 DEF OwnStep, Shapes
  <2>7. FirstTold(w, found[w], decided[w])'
    BY <1>1, <1>4, <2>1, <2>3 DEF Waiting, n
  <2>8. IsTarget(w)'
    BY <1>1, <1>2, <2>2, <2>3 DEF IsTarget, WaiterOK, Matches
  <2>9. Outcome(w)'
    BY <1>1, <1>2, <2>1, <2>7, <2>8 DEF WaiterOK, Outcome, Ends
  <2>10. (\A i \in 1..Len(channel[w]) : channel[w][i] \in started /\ Matches(w, channel[w][i].name))'
    <3> SUFFICES ASSUME NEW i \in 1..Len(Tail(channel[w]))
                 PROVE  Tail(channel[w])[i] \in started /\ Matches(w, Tail(channel[w])[i].name)
      <4>1. started' = started /\ want' = want /\ channel'[w] = Tail(channel[w])
        BY <1>2, <2>1
      <4> QED
        BY <4>1 DEF Matches
    <3>1. i + 1 \in 1..Len(channel[w]) /\ Tail(channel[w])[i] = channel[w][i + 1]
      BY <1>1, <2>1
    <3> QED
      BY <1>1, <3>1 DEF WaiterOK
  <2>11. decided'[w] <= Len(delivered'[w])
    BY <1>1, <1>2 DEF n
  <2>12. \A i \in 1..Len(inflight'[w]) : inflight'[w][i] \in started'
    BY <1>1, <1>2 DEF WaiterOK
  <2>13. WaiterOK(w)'
    BY <2>9, <2>10, <2>11, <2>12 DEF WaiterOK
  <2> QED
    BY <2>5, <2>6, <2>13, OwnStepGood
<1> QED
  BY <1>5, <1>6

(* What comes after the decision goes with the observer and the receiver.   *)
LEMMA DropGood ==
  ASSUME Good, NEW w \in Waiters, DropObserver(w)
  PROVE  Good'
<1>1. PICK to \in {"offsets", "timed_out"} :
         /\ pc[w] = (IF to = "offsets" THEN "received" ELSE "expired")
         /\ pc' = [pc EXCEPT ![w] = to]
         /\ inflight' = [inflight EXCEPT ![w] = <<>>] /\ channel' = [channel EXCEPT ![w] = <<>>]
         /\ UNCHANGED <<systemVars, want, delivered, decided, found, attempts>>
  BY DEF DropObserver, Moves
<1>2. Shapes /\ WaiterOK(w) /\ <<>> \in Seq(Processes) /\ attempts[w] \in Nat
  BY DEF Good, Shapes
<1>3. pc'[w] = to /\ inflight'[w] = <<>> /\ channel'[w] = <<>> /\ Len(<<>>) = 0
  BY <1>1, <1>2 DEF Shapes
<1>4. Shapes'
  BY <1>1, <1>2 DEF Shapes, Stages, Ends
<1>5. OwnStep(w)
  BY <1>1, <1>2 DEF OwnStep, Shapes, systemVars
<1>6. /\ IsTarget(w)' <=> IsTarget(w)
      /\ \A p, n : FirstTold(w, p, n)' <=> FirstTold(w, p, n)
      /\ \A n : NoneTold(w, n)' <=> NoneTold(w, n)
  BY <1>1 DEF IsTarget, FirstTold, NoneTold, Awaited, Matches, systemVars, processVars
<1>7. attempts'[w] <= MaxRetries + 1 /\ (pc'[w] \notin Ends => attempts'[w] <= MaxRetries)
  BY <1>1, <1>2 DEF WaiterOK, Outcome, Ends
<1>8. Outcome(w)'
  BY <1>1, <1>2, <1>3, <1>6, <1>7 DEF WaiterOK, Outcome, systemVars, processVars, Ends
<1>9. decided'[w] <= Len(delivered'[w])
  BY <1>1, <1>2 DEF WaiterOK
<1>10. WaiterOK(w)'
  BY <1>3, <1>8, <1>9 DEF WaiterOK
<1> QED
  BY <1>4, <1>5, <1>10, OwnStepGood

(* The observer is told of the next start. *)
LEMMA NoticeGood ==
  ASSUME Good, NEW w \in Waiters, OnProcessStarted(w)
  PROVE  Good'
<1>0. PICK p, n : p = Head(inflight[w]) /\ n = Len(delivered[w])
  OBVIOUS
<1>1. /\ inflight[w] \in Seq(Processes) /\ channel[w] \in Seq(Processes)
      /\ delivered[w] \in Seq(Processes) /\ n \in Nat /\ attempts[w] \in Nat
      /\ Shapes /\ WaiterOK(w) /\ decided[w] \in Nat
  BY <1>0 DEF Good, Shapes
<1>2. /\ Observed(w) /\ inflight[w] # <<>>
      /\ inflight' = [inflight EXCEPT ![w] = Tail(@)]
      /\ delivered' = [delivered EXCEPT ![w] = Append(@, p)]
      /\ channel' = [channel EXCEPT ![w] = IF Matches(w, p.name) THEN Append(@, p) ELSE @]
      /\ UNCHANGED <<systemVars, pc, want, decided, found, attempts>>
  BY <1>0 DEF OnProcessStarted
<1>3. p \in Processes /\ p \in started
  BY <1>0, <1>1, <1>2 DEF WaiterOK
<1>4. /\ Tail(inflight[w]) \in Seq(Processes)
      /\ \A i \in 1..Len(Tail(inflight[w])) : Tail(inflight[w])[i] \in started
  BY <1>1, <1>2 DEF WaiterOK
<1>5. /\ inflight'[w] = Tail(inflight[w]) /\ delivered'[w] = Append(delivered[w], p)
      /\ channel'[w] = IF Matches(w, p.name) THEN Append(channel[w], p) ELSE channel[w]
  BY <1>1, <1>2 DEF Shapes
<1>6. /\ delivered'[w] \in Seq(Processes) /\ Len(delivered'[w]) = n + 1
      /\ delivered'[w][n + 1] = p /\ \A i \in 1..n : delivered'[w][i] = delivered[w][i]
      /\ channel'[w] \in Seq(Processes)
  BY <1>0, <1>1, <1>3, <1>5
<1>7. Shapes'
  <2>1. inflight' \in [Waiters -> Seq(Processes)]
    BY <1>1, <1>2, <1>4 DEF Shapes
  <2>2. channel' \in [Waiters -> Seq(Processes)] /\ delivered' \in [Waiters -> Seq(Processes)]
    BY <1>1, <1>2, <1>3 DEF Shapes
  <2> QED
    BY <1>1, <1>2, <2>1, <2>2 DEF Shapes
<1>8. OwnStep(w)
  BY <1>1, <1>2 DEF OwnStep, Shapes, systemVars
<1>9. /\ \A i \in 1..n : Awaited(w, i)' <=> Awaited(w, i)
      /\ Awaited(w, n + 1)' <=> Matches(w, p.name)
  BY <1>2, <1>6 DEF Awaited, Matches
<1>10. ASSUME NEW k \in 0..n
       PROVE  /\ NoneTold(w, k)' <=> NoneTold(w, k)
              /\ \A q : FirstTold(w, q, k)' <=> FirstTold(w, q, k)
  <2>1. \A i \in 1..k : i \in 1..n /\ \A j \in 1..(i - 1) : j \in 1..n
    BY <1>1
  <2>2. NoneTold(w, k)' <=> NoneTold(w, k)
    BY <1>9, <2>1 DEF NoneTold
  <2>3. ASSUME NEW q PROVE FirstTold(w, q, k)' <=> FirstTold(w, q, k)
    BY <1>6, <1>9, <2>1 DEF FirstTold
  <2> QED
    BY <2>2, <2>3
<1>11. \A i \in 1..Len(channel'[w]) : channel'[w][i] \in started /\ Matches(w, channel'[w][i].name)
  <2>1. CASE Matches(w, p.name)
    <3>1. channel'[w] = Append(channel[w], p)
      BY <1>5, <2>1
    <3> QED
      BY <1>1, <1>3, <2>1, <3>1 DEF WaiterOK
  <2>2. CASE ~Matches(w, p.name)
    BY <1>1, <1>5, <2>2 DEF WaiterOK
  <2> QED
    BY <2>1, <2>2
<1>12. pc[w] = "observing" => Waiting(w)'
  <2> SUFFICES ASSUME pc[w] = "observing" PROVE Waiting(w)'
    OBVIOUS
  <2>1. Waiting(w) /\ n \in 0..n
    BY <1>1 DEF WaiterOK, Outcome
  <2>2. ASSUME NEW q, FirstTold(w, q, n) PROVE FirstTold(w, q, n + 1)'
    <3>1. FirstTold(w, q, n)'
      BY <1>10, <2>1, <2>2
    <3>2. \A i \in 1..n : i \in 1..(n + 1)
      BY <1>1
    <3> QED
      BY <3>1, <3>2 DEF FirstTold
  <2>3. CASE Matches(w, p.name) /\ channel[w] = <<>>
    <3>1. channel'[w] # <<>> /\ channel'[w][1] = p
      BY <1>3, <1>5, <2>3
    <3>2. NoneTold(w, n)'
      BY <1>0, <1>10, <2>1, <2>3 DEF Waiting
    <3>3. FirstTold(w, p, n + 1)'
      <4>1. n + 1 \in 1..(n + 1) /\ \A j \in 1..((n + 1) - 1) : j \in 1..n
        BY <1>1
      <4> QED
        BY <1>6, <1>9, <2>3, <3>2, <4>1 DEF FirstTold, NoneTold
    <3> QED
      BY <1>6, <3>1, <3>3 DEF Waiting
  <2>4. CASE channel[w] # <<>>
    <3>1. channel'[w] # <<>> /\ channel'[w][1] = channel[w][1]
      <4>1. CASE Matches(w, p.name)
        <5>1. channel'[w] = Append(channel[w], p) /\ Len(channel[w]) > 0
          BY <1>1, <1>5, <2>4, <4>1
        <5> QED
          BY <1>1, <1>3, <5>1
      <4>2. CASE ~Matches(w, p.name)
        BY <1>5, <2>4, <4>2
      <4> QED
        BY <4>1, <4>2
    <3>2. FirstTold(w, channel[w][1], n)
      BY <1>0, <2>1, <2>4 DEF Waiting
    <3>3. FirstTold(w, channel[w][1], n + 1)'
      <4>1. PICK q : q = channel[w][1]
        OBVIOUS
      <4>2. FirstTold(w, q, n + 1)'
        BY <2>2, <3>2, <4>1
      <4> QED
        BY <3>1, <4>1, <4>2
    <3> QED
      BY <1>6, <3>1, <3>3 DEF Waiting
  <2>5. CASE ~Matches(w, p.name) /\ channel[w] = <<>>
    <3>1. NoneTold(w, n)' /\ channel'[w] = <<>>
      BY <1>0, <1>5, <1>10, <2>1, <2>5 DEF Waiting
    <3>2. \A i \in 1..(n + 1) : i \in 1..n \/ i = n + 1
      BY <1>1
    <3>3. NoneTold(w, n + 1)'
      BY <1>9, <2>5, <3>1, <3>2 DEF NoneTold
    <3> QED
      BY <1>6, <3>1, <3>3 DEF Waiting
  <2> QED
    BY <2>3, <2>4, <2>5
<1>13. decided[w] \in 0..n
  BY <1>0, <1>1 DEF WaiterOK
<1>14. Outcome(w)'
  <2>1. /\ NoneTold(w, decided[w])' <=> NoneTold(w, decided[w])
        /\ FirstTold(w, found[w], decided[w])' <=> FirstTold(w, found[w], decided[w])
    <3>1. decided'[w] = decided[w] /\ found'[w] = found[w]
      BY <1>2
    <3>2. PICK k, q : k = decided[w] /\ q = found[w]
      OBVIOUS
    <3>3. k \in 0..n
      BY <1>13, <3>2
    <3>4. (NoneTold(w, k)' <=> NoneTold(w, k)) /\ (FirstTold(w, q, k)' <=> FirstTold(w, q, k))
      BY <1>10, <3>3
    <3> QED
      BY <3>1, <3>2, <3>4 DEF NoneTold, FirstTold
  <2>2. IsTarget(w)' <=> IsTarget(w)
    BY <1>2 DEF IsTarget, Matches, systemVars, processVars
  <2> QED
    BY <1>1, <1>2, <1>12, <2>1, <2>2 DEF WaiterOK, Outcome, Observed, systemVars, processVars
<1>15. WaiterOK(w)'
  <2>1. decided'[w] <= Len(delivered'[w])
    BY <1>1, <1>2, <1>6, <1>13
  <2>2. started' = started /\ want' = want
    BY <1>2 DEF systemVars, processVars
  <2>3. \A i \in 1..Len(inflight'[w]) : inflight'[w][i] \in started'
    BY <1>4, <1>5, <2>2
  <2> QED
    BY <1>11, <1>14, <2>1, <2>2, <2>3 DEF WaiterOK, Matches
<1> QED
  BY <1>7, <1>8, <1>15, OwnStepGood

LEMMA NextGood == Good /\ [Next]_vars => Good'
<1> SUFFICES ASSUME Good, [Next]_vars PROVE Good'
  OBVIOUS
<1>1. CASE \E name \in Names : ProcessStarts(name)
  BY <1>1, StartsGood
<1>2. CASE \E p \in running : ProcessReady(p) \/ ProcessDies(p)
  BY <1>2, ReadyOrDiesGood
<1>3. ASSUME NEW w \in Waiters, WaiterStep(w) \/ PollFindsNothing(w) PROVE Good'
  <2>1. CASE LookupRunning(w) \/ PollFinds(w)
    BY <2>1, LookupGood, PollGood
  <2>2. CASE RecvReturns(w) \/ RecvTimesOut(w) \/ DropObserver(w)
    BY <2>2, RecvGood, DropGood
  <2>3. CASE OffsetsFound(w) \/ OffsetsRetry(w) \/ OffsetsFail(w)
    BY <2>3, OffsetsGood
  <2> USE DEF systemVars, Ends
  <2>4. CASE LookupFails(w) \/ RegisterFails(w) \/ OpenPerfEventFails(w)
    BY <2>4, MoveGood DEF LookupFails, RegisterFails, OpenPerfEventFails
  <2>5. CASE RegisterObserver(w) \/ OpenPerfEvent(w)
    BY <2>5, MoveGood DEF RegisterObserver, OpenPerfEvent
  <2>6. pc[w] \in {"attached", "polling"} => ~useObserver
    BY <1>3 DEF Good, WaiterOK, Outcome
  <2>7. CASE DropPerfEvent(w)
    BY <2>6, <2>7, MoveGood DEF DropPerfEvent, Moves
  <2>8. CASE PollFails(w) \/ PollFindsNothing(w) \/ TimerExpires(w)
    BY <2>6, <2>8, MoveGood DEF PollFails, PollFindsNothing, TimerExpires, Moves
  <2> QED
    BY <1>3, <2>1, <2>2, <2>3, <2>4, <2>5, <2>7, <2>8 DEF WaiterStep
<1>4. CASE \E w \in Waiters : OnProcessStarted(w)
  BY <1>4, NoticeGood
<1>5. CASE UNCHANGED vars
  <2>1. SystemOK' /\ Shapes'
    BY <1>5 DEF Good, SystemOK, Shapes, vars
  <2>2. ASSUME NEW w \in Waiters PROVE WaiterOK(w)'
    <3>1. WaiterOK(w) /\ \A i \in 1..Len(inflight'[w]) : inflight'[w][i] \in started'
      BY <1>5 DEF Good, WaiterOK, vars
    <3> QED
      BY <1>5, <3>1, WaiterKept DEF vars
  <2> QED
    BY <2>1, <2>2 DEF Good
<1> QED
  BY <1>1, <1>2, <1>3, <1>4, <1>5 DEF Next, AllEnded

LEMMA AlwaysGood == Spec => []Good
BY InitGood, NextGood, PTL DEF Spec

-----------------------------------------------------------------------------
(* The theorems. *)

(* The offset lookup makes one call more than its retries at most, the ring *)
(* buffer never overflows, and every process a waiter holds has a pid and a *)
(* name, while processes die and pids are used again.                       *)
THEOREM TypeCorrect == Spec => []TypeOK
<1>1. Good => TypeOK
  <2> SUFFICES ASSUME Good PROVE TypeOK
    OBVIOUS
  <2>1. ring \in Seq([pid : Pids \cup {0}, name : Names])
    BY DEF Good, SystemOK, Records
  <2>2. ASSUME NEW w \in Waiters
        PROVE  decided[w] \in 0..Len(delivered[w]) /\ attempts[w] \in 0..(MaxRetries + 1)
    BY ProcessAssumption DEF Good, Shapes, WaiterOK, Outcome
  <2> QED
    BY <2>1, <2>2 DEF TypeOK, Good, SystemOK, Shapes, Stages
<1> QED
  BY <1>1, AlwaysGood, PTL

(* The pid whose offsets are looked up was that of a process of the         *)
(* target's name, whichever way it was found: in the list of running        *)
(* processes, where system_server's name may be longer, from an observer,   *)
(* or in a ring buffer that other tasks' probes write to and that holds     *)
(* records without a pid and of processes that are gone.                    *)
THEOREM TargetResolved == Spec => []ResolvedIsTarget
<1>1. Good => ResolvedIsTarget
  BY DEF Good, WaiterOK, Outcome, IsTarget, ResolvedIsTarget
<1> QED
  BY <1>1, AlwaysGood, PTL

(* A wait with an observer comes to what the observer was told before       *)
(* recv_timeout made up its mind, for any number of starts and any order of *)
(* notices, messages and the deadline, those between the deadline and the   *)
(* end of the observer included.                                            *)
THEOREM StartsNotMissed == Spec => []NoStartMissed
<1>1. Good => NoStartMissed
  BY DEF Good, WaiterOK, Outcome, NoneTold, FirstTold, NoStartMissed
<1> QED
  BY <1>1, AlwaysGood, PTL
=============================================================================
