--------------------------- MODULE HandlersProofs ---------------------------
(***************************************************************************)
(* Proofs about the poll loop and its handlers.  Whatever a handler does,  *)
(* what it does to the loop is one of a few moves (Move): the proofs about *)
(* the loop are about the moves, and each handler is shown to make no      *)
(* other step.                                                             *)
(***************************************************************************)
EXTENDS Handlers, DataLemmas

-----------------------------------------------------------------------------
(* The moves of the loop. *)

(* Outputs about record id, and outputs of on_finished. *)
OutputsOf(id, outs) ==
    IsSeq(outs) /\ \A i \in 1..Len(outs) : outs[i].id = id /\ outs[i].what \notin Summaries
IsSummary(o) ==
    /\ o.what \in Summaries /\ o.id \in 0..MaxHits[mapPath]
    /\ o.what = "grant" => mapPath = "Accessibility_output_buf"
SummaryOutputs(outs) == IsSeq(outs) /\ \A i \in 1..Len(outs) : IsSummary(outs[i])

Accepts(r, outs) ==
    /\ phase = "handling" /\ r.id = Head(batch).id /\ r.ready = TRUE
    /\ OutputsOf(Head(batch).id, outs)
    /\ Accept(r, outs)

Refuses(outs, type, point) ==
    /\ phase = "handling" /\ OutputsOf(Head(batch).id, outs) /\ type \in ErrorTypes
    /\ Refuse(outs, type, point)

Finishes(outs) == SummaryOutputs(outs) /\ (FinishOk(outs) \/ FinishFails(outs))

(* The thread never starts, or ends in the middle of a record. *)
Aborts ==
    /\ phase \in {"new", "handling"} /\ End("error")
    /\ UNCHANGED <<mapPath, clock, duration, hits, ring, batch, total, seen, out, reports, polled>>

Move ==
    \/ LoopStep
    \/ \E data : Reserve(data)
    \/ \E i, data : SubmitAs(i, data)
    \/ \E r, outs : Accepts(r, outs)
    \/ \E outs, type, point : Refuses(outs, type, point)
    \/ \E outs : Finishes(outs)
    \/ Aborts

-----------------------------------------------------------------------------
(* The invariant of the loop. *)

(* Record number k. *)
IsRecordNo(r, k) == r = [id |-> k, ready |-> r.ready, data |-> r.data] /\ r.ready \in BOOLEAN

Timing ==
    /\ mapPath \in Maps /\ clock \in 0..MaxTime
    /\ duration \in Durations[mapPath] /\ duration \in Nat
    /\ until \in Nat \cup {-1}
    /\ phase = "polling" => until \in 0..duration
    /\ phase = "finishing" => clock > duration

(* The records reserved are those accepted, those of the batch and those in *)
(* the buffer, in the order of their numbers.                               *)
Numbered ==
    /\ IsSeq(seen) /\ IsSeq(batch) /\ IsSeq(ring)
    /\ hits \in Nat /\ hits = Len(seen) + Len(batch) + Len(ring)
    /\ hits <= MaxHits[mapPath] /\ Len(ring) <= RingCapacity
    /\ total = Len(seen) + Len(batch)
    /\ \A i \in 1..Len(seen) : seen[i].id = i /\ seen[i].ready = TRUE
    /\ \A i \in 1..Len(batch) : IsRecordNo(batch[i], Len(seen) + i) /\ batch[i].ready
    /\ \A i \in 1..Len(ring) : IsRecordNo(ring[i], Len(seen) + Len(batch) + i)

Phased ==
    /\ phase \in Phases
    /\ phase = "handling" => Len(batch) > 0
    /\ phase \in {"new", "ready", "polling", "finishing"} => Len(batch) = 0

Judged ==
    /\ verdict \in {"none", "ok", "error", "reported"}
    /\ (phase = "ended") <=> (verdict # "none")
    /\ IsSeq(reports) /\ Len(reports) = (IF verdict = "reported" THEN 1 ELSE 0)
    /\ \A i \in 1..Len(reports) : reports[i].type \in ErrorTypes
    /\ verdict # "ok" => polled = <<>>
    /\ verdict = "ok" => /\ Len(batch) = 0 /\ clock > duration
                         /\ \/ polled = <<>>
                            \/ IsSeq(polled) /\ Len(polled) = 1 /\ polled[1].total = Len(seen)

(* Until the loop ends every output is about a record accepted. *)
Ordered ==
    /\ IsSeq(out)
    /\ phase # "ended" => \A n \in 1..Len(out) : out[n].id \in Nat /\ out[n].id <= Len(seen)
    /\ \A m, n \in 1..Len(out) : m < n /\ out[n].what \notin Summaries => out[m].id <= out[n].id

LoopInv == Timing /\ Numbered /\ Phased /\ Judged /\ Ordered

LEMMA InitLoop == Init => LoopInv
<1> SUFFICES ASSUME Init PROVE LoopInv
  OBVIOUS
<1>1. /\ mapPath \in Maps /\ clock = 0 /\ duration \in Durations[mapPath]
      /\ hits = 0 /\ ring = <<>> /\ phase = "new" /\ until = 0
      /\ batch = <<>> /\ total = 0 /\ seen = <<>>
      /\ out = <<>> /\ reports = <<>> /\ polled = <<>> /\ verdict = "none"
  BY DEF Init, LoopInit
<1>2. duration \in Nat /\ MaxTime \in Nat /\ RingCapacity \in Nat /\ MaxHits[mapPath] \in Nat
  BY <1>1, PollLoopAssumption, HandlersAssumption
<1>3. Timing
  BY <1>1, <1>2 DEF Timing
<1>4. Numbered
  BY <1>1, <1>2, EmptyIsSeq DEF Numbered
<1>5. Phased /\ Judged /\ Ordered
  BY <1>1, EmptyIsSeq DEF Phased, Phases, Judged, Ordered
<1> QED
  BY <1>3, <1>4, <1>5 DEF LoopInv

LEMMA StayLoop == LoopInv /\ UNCHANGED loopVars => LoopInv'
BY DEF LoopInv, Timing, Numbered, Phased, Judged, Ordered, IsRecordNo, loopVars

(* A step that leaves the records and what was written alone. *)
LEMMA RecordsStay ==
  ASSUME Numbered, Ordered, UNCHANGED <<mapPath, hits, ring, batch, total, seen, out>>,
         phase' # "ended" => phase # "ended"
  PROVE  Numbered' /\ Ordered'
BY DEF Numbered, Ordered, IsRecordNo

(* The error of the loop is reported. *)
LEMMA ReportJudged ==
  ASSUME LoopInv, phase # "ended", NEW type \in ErrorTypes, NEW point, Report(type, point),
         UNCHANGED <<clock, duration, batch, polled, seen>>
  PROVE  Judged' /\ Phased' /\ until' = 0 /\ phase' = "ended"
<1>1. /\ phase' = "ended" /\ verdict' = "reported" /\ until' = 0 /\ verdict = "none"
  BY DEF Report, End, LoopInv, Judged
<1>2. Len(reports) = 0 /\ IsSeq(reports) /\ polled = <<>>
  BY <1>1 DEF LoopInv, Judged
<1>3. PICK e : e.type = type /\ reports' = Append(reports, e)
  BY DEF Report, WriteInternalError
<1>4. IsSeq(reports') /\ Len(reports') = 1 /\ reports'[1] = e
  <2>1. /\ IsSeq(Append(reports, e)) /\ Len(Append(reports, e)) = Len(reports) + 1
        /\ Append(reports, e)[Len(reports) + 1] = e
    BY <1>2, AppendIsSeq
  <2>2. Len(reports) + 1 = 1
    BY <1>2
  <2> QED
    BY <1>3, <2>1, <2>2
<1>5. Judged'
  BY <1>1, <1>2, <1>3, <1>4 DEF Judged
<1> QED
  BY <1>1, <1>5 DEF Phased, Phases

LEMMA TickLoop == LoopInv /\ Tick => LoopInv'
<1> SUFFICES ASSUME LoopInv, Tick PROVE LoopInv'
  OBVIOUS
<1>1. Numbered' /\ Ordered' /\ Phased'
  BY RecordsStay DEF Tick, LoopInv, Phased
<1>2. Timing'
  BY PollLoopAssumption DEF Tick, LoopInv, Timing
<1>3. Judged'
  BY DEF Tick, LoopInv, Judged
<1> QED
  BY <1>1, <1>2, <1>3 DEF LoopInv

LEMMA ReserveLoop == ASSUME LoopInv, NEW data, Reserve(data) PROVE LoopInv'
<1> DEFINE new == [id |-> hits + 1, ready |-> FALSE, data |-> data]
<1>1. /\ hits' = hits + 1 /\ ring' = Append(ring, new)
      /\ Len(ring) < RingCapacity /\ hits < MaxHits[mapPath]
      /\ UNCHANGED <<mapPath, clock, duration, phase, until, batch, total, seen, out, reports,
                     polled, verdict>>
  BY DEF Reserve, Room
<1>2. /\ IsSeq(ring) /\ IsSeq(batch) /\ IsSeq(seen) /\ Len(ring) \in Nat /\ Len(batch) \in Nat
      /\ Len(seen) \in Nat /\ hits \in Nat /\ hits = Len(seen) + Len(batch) + Len(ring)
  BY SeqFacts DEF LoopInv, Numbered
<1>3. RingCapacity \in Nat /\ MaxHits[mapPath] \in Nat
  BY PollLoopAssumption, HandlersAssumption DEF LoopInv, Timing
<1>4. IsRecordNo(new, hits + 1)
  BY DEF IsRecordNo
<1> HIDE DEF new
<1>5. /\ IsSeq(ring') /\ Len(ring') = Len(ring) + 1
      /\ \A i \in 1..Len(ring) : ring'[i] = ring[i]
      /\ ring'[Len(ring) + 1] = new
  BY <1>1, <1>2, AppendIsSeq
<1>6. ASSUME NEW i \in 1..Len(ring') PROVE IsRecordNo(ring'[i], Len(seen) + Len(batch) + i)
  <2>1. i \in 1..Len(ring) \/ i = Len(ring) + 1
    BY <1>2, <1>5
  <2>2. CASE i \in 1..Len(ring)
    BY <1>5, <2>2 DEF LoopInv, Numbered
  <2>3. CASE i = Len(ring) + 1
    BY <1>2, <1>4, <1>5, <2>3
  <2> QED
    BY <2>1, <2>2, <2>3
<1>7. Numbered'
  <2>1. hits' \in Nat /\ hits' = Len(seen) + Len(batch) + Len(ring') /\ hits' <= MaxHits[mapPath]
        /\ Len(ring') <= RingCapacity
    BY <1>1, <1>2, <1>3, <1>5
  <2> QED
    BY <1>1, <1>5, <1>6, <2>1 DEF LoopInv, Numbered
<1>8. Timing' /\ Phased' /\ Judged' /\ Ordered'
  BY <1>1 DEF LoopInv, Timing, Phased, Judged, Ordered
<1> QED
  BY <1>7, <1>8 DEF LoopInv

LEMMA SubmittedRecord ==
  ASSUME NEW r, NEW k, IsRecordNo(r, k), NEW data
  PROVE  IsRecordNo([[r EXCEPT !.ready = TRUE] EXCEPT !.data = data], k)
<1>1. PICK now : now = TRUE
  OBVIOUS
<1>2. r = [id |-> k, ready |-> r.ready, data |-> r.data]
  BY DEF IsRecordNo
<1>3. [r EXCEPT !.ready = now] = [id |-> k, ready |-> now, data |-> r.data]
  BY <1>2
<1>4. [[id |-> k, ready |-> now, data |-> r.data] EXCEPT !.data = data]
         = [id |-> k, ready |-> now, data |-> data]
  OBVIOUS
<1>5. [[r EXCEPT !.ready = now] EXCEPT !.data = data]
         = [id |-> k, ready |-> now, data |-> data]
  BY <1>3, <1>4, Zenon
<1>6. IsRecordNo([id |-> k, ready |-> now, data |-> data], k)
  BY <1>1 DEF IsRecordNo
<1> QED
  BY <1>1, <1>5, <1>6, Zenon

LEMMA SubmitLoop == ASSUME LoopInv, NEW i, NEW data, SubmitAs(i, data) PROVE LoopInv'
<1>1. /\ i \in DOMAIN ring /\ ring' = [ring EXCEPT ![i].ready = TRUE, ![i].data = data]
      /\ UNCHANGED <<mapPath, clock, duration, hits, phase, until, batch, total, seen, out,
                     reports, polled, verdict>>
  BY DEF SubmitAs
<1>2. IsSeq(ring) /\ Len(ring) \in Nat /\ DOMAIN ring = 1..Len(ring)
  BY SeqFacts DEF LoopInv, Numbered
<1>4. IsRecordNo(ring[i], Len(seen) + Len(batch) + i)
  BY <1>1, <1>2 DEF LoopInv, Numbered
<1> DEFINE new == [[ring[i] EXCEPT !.ready = TRUE] EXCEPT !.data = data]
<1>5. ring' = [ring EXCEPT ![i] = new]
  BY <1>1
<1>6. IsRecordNo(new, Len(seen) + Len(batch) + i)
  BY <1>4, SubmittedRecord, Zenon
<1> HIDE DEF new
<1>7. /\ IsSeq(ring') /\ Len(ring') = Len(ring)
      /\ \A j \in 1..Len(ring) : ring'[j] = IF j = i THEN new ELSE ring[j]
  BY <1>1, <1>2, <1>5, ExceptIsSeq, ZenonT(40)
<1>8. Numbered'
  <2>1. \A j \in 1..Len(ring') : IsRecordNo(ring'[j], Len(seen) + Len(batch) + j)
    BY <1>6, <1>7 DEF LoopInv, Numbered
  <2> QED
    BY <1>1, <1>7, <2>1 DEF LoopInv, Numbered
<1>9. Timing' /\ Phased' /\ Judged' /\ Ordered'
  BY <1>1 DEF LoopInv, Timing, Phased, Judged, Ordered
<1> QED
  BY <1>8, <1>9 DEF LoopInv

(* The poll waits until the timer runs out and no longer. *)
LEMMA PollLoopStarts == LoopInv /\ (StartPoll \/ StartPollFails) => LoopInv'
<1> SUFFICES ASSUME LoopInv, StartPoll \/ StartPollFails PROVE LoopInv'
  OBVIOUS
<1>1. /\ phase = "ready" /\ phase' \in {"polling", "ended"}
      /\ UNCHANGED <<mapPath, clock, duration, hits, ring, batch, total, seen, out, reports,
                     polled>>
  BY DEF StartPoll, StartPollFails, End
<1>2. Numbered' /\ Ordered'
  BY <1>1, RecordsStay DEF LoopInv
<1>3. clock \in Nat /\ duration \in Nat /\ MaxMillis \in Nat
  BY PollLoopAssumption DEF LoopInv, Timing
<1>4. CASE StartPoll
  <2>1. clock <= duration /\ until' = duration /\ phase' = "polling" /\ verdict' = verdict
    BY <1>3, <1>4 DEF StartPoll, RemainingMillis, FitsI32, Deadline
  <2>2. Timing'
    BY <1>1, <1>3, <2>1 DEF LoopInv, Timing
  <2>3. Phased' /\ Judged'
    BY <1>1, <2>1 DEF LoopInv, Phased, Phases, Judged
  <2> QED
    BY <1>2, <2>2, <2>3 DEF LoopInv
<1>5. CASE StartPollFails
  <2>1. until' = 0 /\ phase' = "ended" /\ verdict' = "error" /\ verdict = "none"
    BY <1>1, <1>5 DEF StartPollFails, End, LoopInv, Judged
  <2>2. Timing'
    BY <1>1, <2>1 DEF LoopInv, Timing
  <2>3. Phased' /\ Judged'
    BY <1>1, <2>1 DEF LoopInv, Phased, Phases, Judged
  <2> QED
    BY <1>2, <2>2, <2>3 DEF LoopInv
<1> QED
  BY <1>4, <1>5

LEMMA PhaseLoop ==
  LoopInv /\ (CreateRingBuffer \/ PollTimesOut \/ TimerExpires) => LoopInv'
<1> SUFFICES ASSUME LoopInv, CreateRingBuffer \/ PollTimesOut \/ TimerExpires PROVE LoopInv'
  OBVIOUS
<1>1. /\ phase \in {"new", "ready", "polling"} /\ phase' \in {"ready", "finishing"}
      /\ until' \in {0, until}
      /\ UNCHANGED <<mapPath, clock, duration, hits, ring, batch, total, seen, out, reports,
                     polled, verdict>>
      /\ phase' = "finishing" => RemainingMillis < 0
  BY DEF CreateRingBuffer, PollTimesOut, TimerExpires
<1>2. Numbered' /\ Ordered'
  BY <1>1, RecordsStay DEF LoopInv
<1>3. Timing'
  BY <1>1 DEF LoopInv, Timing, RemainingMillis
<1>4. Phased' /\ Judged'
  BY <1>1 DEF LoopInv, Phased, Phases, Judged
<1> QED
  BY <1>2, <1>3, <1>4 DEF LoopInv

LEMMA FailLoop == LoopInv /\ (CreateRingBufferFails \/ PollFails) => LoopInv'
<1> SUFFICES ASSUME LoopInv, CreateRingBufferFails \/ PollFails PROVE LoopInv'
  OBVIOUS
<1>1. PICK type \in ErrorTypes :
         /\ phase # "ended" /\ Report(type, 0)
         /\ UNCHANGED <<mapPath, clock, duration, hits, ring, batch, total, seen, out, polled>>
  BY DEF CreateRingBufferFails, PollFails, ErrorTypes
<1>2. Judged' /\ Phased' /\ until' = 0 /\ phase' = "ended"
  BY <1>1, ReportJudged
<1>3. Numbered' /\ Ordered'
  BY <1>1, RecordsStay DEF LoopInv
<1>4. Timing'
  BY <1>1, <1>2 DEF LoopInv, Timing
<1> QED
  BY <1>2, <1>3, <1>4 DEF LoopInv

(* A poll hands over the oldest records, up to the first pending one. *)
LEMMA ReturnsLoop == LoopInv /\ PollReturns => LoopInv'
<1> SUFFICES ASSUME LoopInv, PollReturns PROVE LoopInv'
  OBVIOUS
<1> DEFINE n == Max(Readable)
<1>1. /\ phase = "polling" /\ batch' = SubSeq(ring, 1, n)
      /\ ring' = SubSeq(ring, n + 1, Len(ring)) /\ total' = total + n
      /\ phase' = (IF n = 0 THEN "ready" ELSE "handling") /\ until' = 0
      /\ UNCHANGED <<mapPath, clock, duration, hits, seen, out, reports, polled, verdict>>
  BY DEF PollReturns, Consumed, CountBefore
<1>2. /\ IsSeq(ring) /\ IsSeq(seen) /\ Len(ring) \in Nat /\ Len(seen) \in Nat /\ Len(batch) = 0
      /\ hits = Len(seen) + Len(ring) /\ total = Len(seen) /\ hits \in Nat
      /\ Len(ring) <= RingCapacity /\ hits <= MaxHits[mapPath]
  BY <1>1, SeqFacts DEF LoopInv, Numbered, Phased
<1>3. n \in 0..Len(ring) /\ \A i \in 1..n : ring[i].ready
  <2>1. Readable \in SUBSET (0..Len(ring)) /\ 0 \in Readable
    BY <1>2 DEF Readable
  <2>2. n \in Readable
    BY <1>2, <2>1, MaxIsGreatest
  <2> QED
    BY <2>2 DEF Readable
<1> HIDE DEF n
<1>4. /\ IsSeq(batch') /\ Len(batch') = n
      /\ \A i \in 1..n : batch'[i] = ring[i]
  <2>1. 1 \in 1..(Len(ring) + 1) /\ 1 <= n + 1 /\ n - 1 + 1 = n /\ \A i \in 1..n : 1 + i - 1 = i
    BY <1>2, <1>3
  <2>2. /\ IsSeq(batch') /\ Len(batch') = n - 1 + 1
        /\ \A i \in 1..(n - 1 + 1) : batch'[i] = ring[1 + i - 1]
    BY <1>1, <1>2, <1>3, <2>1, SubSeqIsSeq
  <2> QED
    BY <2>1, <2>2
<1>5. /\ IsSeq(ring') /\ Len(ring') = Len(ring) - n
      /\ \A i \in 1..(Len(ring) - n) : ring'[i] = ring[n + i]
  <2>1. /\ n + 1 \in 1..(Len(ring) + 1) /\ Len(ring) \in 0..Len(ring) /\ n + 1 <= Len(ring) + 1
        /\ Len(ring) - (n + 1) + 1 = Len(ring) - n
        /\ \A i \in 1..(Len(ring) - n) : (n + 1) + i - 1 = n + i
    BY <1>2, <1>3
  <2>2. /\ IsSeq(ring') /\ Len(ring') = Len(ring) - (n + 1) + 1
        /\ \A i \in 1..(Len(ring) - (n + 1) + 1) : ring'[i] = ring[(n + 1) + i - 1]
    BY <1>1, <1>2, <2>1, SubSeqIsSeq, SMTT(40)
  <2> QED
    BY <2>1, <2>2
<1>6. ASSUME NEW i \in 1..n PROVE IsRecordNo(batch'[i], Len(seen) + i) /\ batch'[i].ready
  <2>1. i \in 1..Len(ring) /\ batch'[i] = ring[i] /\ Len(seen) + Len(batch) + i = Len(seen) + i
    BY <1>2, <1>3, <1>4
  <2> QED
    BY <1>3, <2>1 DEF LoopInv, Numbered
<1>7. ASSUME NEW i \in 1..Len(ring') PROVE IsRecordNo(ring'[i], Len(seen) + n + i)
  <2>1. n + i \in 1..Len(ring) /\ Len(seen) + Len(batch) + (n + i) = Len(seen) + n + i
        /\ i \in 1..(Len(ring) - n)
    BY <1>2, <1>3, <1>5
  <2> QED
    BY <1>5, <2>1 DEF LoopInv, Numbered
<1>8. Numbered'
  <2>1. /\ hits' = Len(seen) + n + Len(ring') /\ total' = Len(seen) + n
        /\ Len(ring') <= RingCapacity
    <3>1. RingCapacity \in Nat /\ n \in Nat /\ n <= Len(ring)
      BY <1>2, <1>3, PollLoopAssumption
    <3>2. hits' = hits /\ total' = total + n
      BY <1>1
    <3>3. hits = Len(seen) + n + (Len(ring) - n) /\ Len(ring) - n <= RingCapacity
      BY <1>2, <3>1
    <3> QED
      BY <1>2, <1>5, <3>2, <3>3
  <2> QED
    BY <1>1, <1>2, <1>4, <1>5, <1>6, <1>7, <2>1 DEF LoopInv, Numbered
<1>9. Timing' /\ Ordered'
  BY <1>1 DEF LoopInv, Timing, Ordered
<1>10. Phased' /\ Judged'
  BY <1>1, <1>3, <1>4 DEF LoopInv, Phased, Phases, Judged
<1> QED
  BY <1>8, <1>9, <1>10 DEF LoopInv

(* The outputs of the record at the head follow those of the records        *)
(* before it.                                                               *)
LEMMA HeadRecord ==
  ASSUME LoopInv, phase = "handling"
  PROVE  /\ IsSeq(batch) /\ Len(batch) \in Nat \ {0} /\ batch # <<>> /\ Head(batch) = batch[1]
         /\ IsSeq(seen) /\ Len(seen) \in Nat
         /\ Head(batch).id = Len(seen) + 1 /\ Head(batch).ready = TRUE
<1>1. IsSeq(batch) /\ IsSeq(seen) /\ Len(batch) > 0
  BY DEF LoopInv, Numbered, Phased
<1>2. /\ Len(batch) \in Nat \ {0} /\ batch # <<>> /\ Head(batch) = batch[1] /\ Len(seen) \in Nat
  BY <1>1, SeqFacts
<1>3. IsRecordNo(batch[1], Len(seen) + 1) /\ batch[1].ready
  BY <1>2 DEF LoopInv, Numbered
<1>4. batch[1].id = Len(seen) + 1 /\ batch[1].ready = TRUE
  BY <1>3 DEF IsRecordNo
<1> QED
  BY <1>1, <1>2, <1>4

LEMMA OutputsOrdered ==
  ASSUME LoopInv, phase = "handling", NEW outs, OutputsOf(Head(batch).id, outs),
         out' = out \o outs
  PROVE  /\ IsSeq(out')
         /\ \A n \in 1..Len(out') : out'[n].id \in Nat /\ out'[n].id <= Len(seen) + 1
         /\ \A m, n \in 1..Len(out') :
                m < n /\ out'[n].what \notin Summaries => out'[m].id <= out'[n].id
<1>1. IsSeq(out) /\ IsSeq(outs) /\ Len(out) \in Nat /\ Len(outs) \in Nat
  BY SeqFacts DEF LoopInv, Ordered, OutputsOf
<1>2. Head(batch).id = Len(seen) + 1 /\ Len(seen) \in Nat
  BY HeadRecord
<1>3. /\ IsSeq(out') /\ Len(out') = Len(out) + Len(outs)
      /\ \A i \in 1..(Len(out) + Len(outs)) :
             out'[i] = IF i <= Len(out) THEN out[i] ELSE outs[i - Len(out)]
  BY <1>1, ConcatIsSeq
<1>4. ASSUME NEW n \in 1..Len(out'), n > Len(out) PROVE out'[n].id = Len(seen) + 1
  <2>1. n - Len(out) \in 1..Len(outs)
    BY <1>1, <1>3, <1>4
  <2> QED
    BY <1>1, <1>2, <1>3, <1>4, <2>1 DEF OutputsOf
<1>5. ASSUME NEW n \in 1..Len(out'), n <= Len(out)
      PROVE  out'[n] = out[n] /\ n \in 1..Len(out) /\ out[n].id \in Nat /\ out[n].id <= Len(seen)
  <2>1. out'[n] = out[n] /\ n \in 1..Len(out)
    BY <1>1, <1>3, <1>5
  <2> QED
    BY <2>1 DEF LoopInv, Ordered
<1>6. ASSUME NEW n \in 1..Len(out') PROVE out'[n].id \in Nat /\ out'[n].id <= Len(seen) + 1
  <2>1. CASE n > Len(out)
    BY <1>2, <1>4, <2>1
  <2>2. CASE n <= Len(out)
    BY <1>2, <1>5, <2>2
  <2> QED
    BY <1>1, <1>3, <2>1, <2>2
<1>7. ASSUME NEW m \in 1..Len(out'), NEW n \in 1..Len(out'), m < n, out'[n].what \notin Summaries
      PROVE  out'[m].id <= out'[n].id
  <2>1. CASE n > Len(out)
    BY <1>4, <1>6, <2>1
  <2>2. CASE n <= Len(out)
    <3>1. m <= Len(out)
      BY <1>1, <1>3, <1>7, <2>2
    <3> QED
      BY <1>5, <1>7, <2>2, <3>1 DEF LoopInv, Ordered
  <2> QED
    BY <1>1, <1>3, <2>1, <2>2
<1> QED
  BY <1>3, <1>6, <1>7

LEMMA AcceptsLoop == ASSUME LoopInv, NEW r, NEW outs, Accepts(r, outs) PROVE LoopInv'
<1>1. /\ phase = "handling" /\ r.id = Head(batch).id /\ r.ready = TRUE
      /\ OutputsOf(Head(batch).id, outs)
      /\ batch' = Tail(batch) /\ seen' = Append(seen, r) /\ out' = out \o outs
      /\ phase' = (IF Len(batch) = 1 THEN "ready" ELSE "handling")
      /\ UNCHANGED <<mapPath, clock, duration, hits, ring, until, total, reports, polled, verdict>>
  BY DEF Accepts, Accept
<1>2. /\ IsSeq(batch) /\ Len(batch) \in Nat \ {0} /\ batch # <<>> /\ Head(batch) = batch[1]
      /\ IsSeq(seen) /\ Len(seen) \in Nat
      /\ Head(batch).id = Len(seen) + 1 /\ Head(batch).ready = TRUE
  BY <1>1, HeadRecord
<1>3. /\ IsSeq(batch') /\ Len(batch') = Len(batch) - 1
      /\ \A i \in 1..(Len(batch) - 1) : batch'[i] = batch[i + 1]
  BY <1>1, <1>2, TailIsSeq
<1>4. /\ IsSeq(seen') /\ Len(seen') = Len(seen) + 1
      /\ \A i \in 1..Len(seen) : seen'[i] = seen[i]
      /\ seen'[Len(seen) + 1] = r
  BY <1>1, <1>2, AppendIsSeq
<1>5. ASSUME NEW i \in 1..Len(seen') PROVE seen'[i].id = i /\ seen'[i].ready = TRUE
  <2>1. i \in 1..Len(seen) \/ i = Len(seen) + 1
    BY <1>2, <1>4
  <2>2. CASE i \in 1..Len(seen)
    BY <1>4, <2>2 DEF LoopInv, Numbered
  <2>3. CASE i = Len(seen) + 1
    BY <1>1, <1>2, <1>4, <2>3
  <2> QED
    BY <2>1, <2>2, <2>3
<1>6. ASSUME NEW i \in 1..Len(batch')
      PROVE  IsRecordNo(batch'[i], Len(seen') + i) /\ batch'[i].ready
  <2>1. /\ i + 1 \in 1..Len(batch) /\ i \in 1..(Len(batch) - 1)
        /\ Len(seen) + (i + 1) = Len(seen') + i
    BY <1>2, <1>3, <1>4
  <2>2. IsRecordNo(batch[i + 1], Len(seen) + (i + 1)) /\ batch[i + 1].ready
    BY <2>1 DEF LoopInv, Numbered
  <2>3. batch'[i] = batch[i + 1]
    BY <1>3, <2>1
  <2> QED
    BY <2>1, <2>2, <2>3
<1>7. Len(seen') + Len(batch') = Len(seen) + Len(batch) /\ Len(ring) \in Nat
  BY <1>2, <1>3, <1>4, SeqFacts DEF LoopInv, Numbered
<1>8. Numbered'
  <2>1. /\ hits' = Len(seen') + Len(batch') + Len(ring') /\ total' = Len(seen') + Len(batch')
        /\ \A i \in 1..Len(ring') : IsRecordNo(ring'[i], Len(seen') + Len(batch') + i)
    BY <1>1, <1>7 DEF LoopInv, Numbered
  <2> QED
    BY <1>1, <1>3, <1>4, <1>5, <1>6, <2>1 DEF LoopInv, Numbered
<1>9. Ordered'
  BY <1>1, <1>4, OutputsOrdered DEF Ordered
<1>10. Timing' /\ Phased' /\ Judged'
  <2>1. phase' = "handling" => Len(batch') > 0
    BY <1>1, <1>2, <1>3
  <2>2. phase' # "handling" => Len(batch') = 0
    BY <1>1, <1>2, <1>3
  <2> QED
    BY <1>1, <2>1, <2>2 DEF LoopInv, Timing, Phased, Phases, Judged
<1> QED
  BY <1>8, <1>9, <1>10 DEF LoopInv

LEMMA RefusesLoop ==
  ASSUME LoopInv, NEW outs, NEW type, NEW point, Refuses(outs, type, point)
  PROVE  LoopInv'
<1>1. /\ phase = "handling" /\ OutputsOf(Head(batch).id, outs) /\ type \in ErrorTypes
      /\ out' = out \o outs /\ Report(type, point)
      /\ UNCHANGED <<mapPath, clock, duration, hits, ring, batch, total, seen, polled>>
  BY DEF Refuses, Refuse
<1>2. Judged' /\ Phased' /\ until' = 0 /\ phase' = "ended"
  BY <1>1, ReportJudged
<1>3. Numbered'
  BY <1>1 DEF LoopInv, Numbered, IsRecordNo
<1>4. Timing'
  BY <1>1, <1>2 DEF LoopInv, Timing
<1>5. Ordered'
  BY <1>1, <1>2, OutputsOrdered DEF Ordered
<1> QED
  BY <1>2, <1>3, <1>4, <1>5 DEF LoopInv

LEMMA FinishesLoop == ASSUME LoopInv, NEW outs, Finishes(outs) PROVE LoopInv'
<1>1. /\ phase = "finishing" /\ SummaryOutputs(outs) /\ out' = out \o outs
      /\ phase' = "ended" /\ until' = 0 /\ verdict' \in {"ok", "error"}
      /\ \/ polled' = polled
         \/ verdict' = "ok" /\ polled' = Append(polled, [map |-> BpfMapPathToEnum(mapPath),
                                                          total |-> total])
      /\ UNCHANGED <<mapPath, clock, duration, hits, ring, batch, total, seen, reports>>
  BY DEF Finishes, FinishOk, FinishFails, End
<1>2. Numbered'
  BY <1>1 DEF LoopInv, Numbered, IsRecordNo
<1>3. Timing'
  BY <1>1 DEF LoopInv, Timing
<1>4. Phased'
  BY <1>1 DEF LoopInv, Phased, Phases
<1>5. Judged'
  <2>1. verdict = "none" /\ polled = <<>> /\ Len(batch) = 0 /\ clock > duration
    BY <1>1 DEF LoopInv, Judged, Phased, Timing
  <2>2. total = Len(seen)
    BY <2>1, SeqFacts DEF LoopInv, Numbered
  <2>3. \/ polled' = <<>>
        \/ verdict' = "ok" /\ IsSeq(polled') /\ Len(polled') = 1 /\ polled'[1].total = Len(seen)
    <3> DEFINE atom == [map |-> BpfMapPathToEnum(mapPath), total |-> total]
    <3>1. atom.total = Len(seen)
      BY <2>2
    <3> HIDE DEF atom
    <3>2. /\ IsSeq(Append(<<>>, atom)) /\ Len(Append(<<>>, atom)) = 1
          /\ Append(<<>>, atom)[1] = atom
      <4>1. Len(<<>>) = 0 /\ Len(<<>>) + 1 = 1
        BY EmptyIsSeq
      <4>2. /\ IsSeq(Append(<<>>, atom)) /\ Len(Append(<<>>, atom)) = Len(<<>>) + 1
            /\ Append(<<>>, atom)[Len(<<>>) + 1] = atom
        BY EmptyIsSeq, AppendIsSeq, Zenon
      <4> QED
        BY <4>1, <4>2
    <3> QED
      BY <1>1, <2>1, <3>1, <3>2 DEF atom
  <2> QED
    BY <1>1, <2>1, <2>3 DEF LoopInv, Judged
<1>6. Ordered'
  <2>1. IsSeq(out) /\ IsSeq(outs) /\ Len(out) \in Nat /\ Len(outs) \in Nat
    BY <1>1, SeqFacts DEF LoopInv, Ordered, SummaryOutputs
  <2>2. /\ IsSeq(out') /\ Len(out') = Len(out) + Len(outs)
        /\ \A i \in 1..(Len(out) + Len(outs)) :
               out'[i] = IF i <= Len(out) THEN out[i] ELSE outs[i - Len(out)]
    BY <1>1, <2>1, ConcatIsSeq
  <2>3. ASSUME NEW m \in 1..Len(out'), NEW n \in 1..Len(out'), m < n,
               out'[n].what \notin Summaries
        PROVE  out'[m].id <= out'[n].id
    <3>1. n <= Len(out)
      <4> SUFFICES ASSUME n > Len(out) PROVE FALSE
        BY <2>1, <2>2
      <4>1. n - Len(out) \in 1..Len(outs) /\ out'[n] = outs[n - Len(out)]
        BY <2>1, <2>2
      <4> QED
        BY <1>1, <2>3, <4>1 DEF SummaryOutputs, IsSummary
    <3>2. m \in 1..Len(out) /\ n \in 1..Len(out) /\ out'[m] = out[m] /\ out'[n] = out[n]
      BY <2>1, <2>2, <2>3, <3>1
    <3> QED
      BY <2>3, <3>2 DEF LoopInv, Ordered
  <2> QED
    BY <1>1, <2>2, <2>3 DEF Ordered
<1> QED
  BY <1>2, <1>3, <1>4, <1>5, <1>6 DEF LoopInv

LEMMA AbortsLoop == LoopInv /\ Aborts => LoopInv'
<1> SUFFICES ASSUME LoopInv, Aborts PROVE LoopInv'
  OBVIOUS
<1>1. /\ phase # "ended" /\ phase' = "ended" /\ verdict' = "error" /\ until' = 0
      /\ UNCHANGED <<mapPath, clock, duration, hits, ring, batch, total, seen, out, reports, polled>>
  BY DEF Aborts, End
<1>2. Numbered' /\ Ordered'
  BY <1>1, RecordsStay DEF LoopInv
<1>3. Timing' /\ Phased'
  BY <1>1 DEF LoopInv, Timing, Phased, Phases
<1>4. Judged'
  BY <1>1 DEF LoopInv, Judged
<1> QED
  BY <1>2, <1>3, <1>4 DEF LoopInv

LEMMA MoveLoop == LoopInv /\ (Move \/ UNCHANGED loopVars) => LoopInv'
<1> SUFFICES ASSUME LoopInv, Move \/ UNCHANGED loopVars PROVE LoopInv'
  OBVIOUS
<1>1. CASE LoopStep
  BY <1>1, TickLoop, PollLoopStarts, PhaseLoop, FailLoop, ReturnsLoop DEF LoopStep
<1>2. CASE (\E data : Reserve(data)) \/ (\E i, data : SubmitAs(i, data))
  BY <1>2, ReserveLoop, SubmitLoop
<1>3. CASE \E r, outs : Accepts(r, outs)
  BY <1>3, AcceptsLoop
<1>4. CASE \E outs, type, point : Refuses(outs, type, point)
  BY <1>4, RefusesLoop
<1>5. CASE \E outs : Finishes(outs)
  BY <1>5, FinishesLoop
<1>6. CASE Aborts \/ UNCHANGED loopVars
  BY <1>6, AbortsLoop, StayLoop
<1> QED
  BY <1>1, <1>2, <1>3, <1>4, <1>5, <1>6 DEF Move

-----------------------------------------------------------------------------
(* What the records carry. *)

DataIn(s, D) == \A i \in 1..Len(s) : s[i].data \in D

LEMMA LoopStepData ==
  ASSUME LoopInv, LoopStep, NEW D, DataIn(ring, D), DataIn(batch, D)
  PROVE  DataIn(ring', D) /\ DataIn(batch', D)
<1>1. CASE UNCHANGED <<ring, batch>>
  BY <1>1
<1>2. CASE PollReturns
  <2> DEFINE n == Max(Readable)
  <2>1. batch' = SubSeq(ring, 1, n) /\ ring' = SubSeq(ring, n + 1, Len(ring))
    BY <1>2 DEF PollReturns, Consumed
  <2>2. IsSeq(ring) /\ Len(ring) \in Nat
    BY SeqFacts DEF LoopInv, Numbered
  <2>3. n \in 0..Len(ring)
    <3>1. Readable \in SUBSET (0..Len(ring)) /\ 0 \in Readable
      BY <2>2 DEF Readable
    <3> QED
      BY <2>2, <3>1, MaxIsGreatest
  <2> HIDE DEF n
  <2>4. /\ 1 \in 1..(Len(ring) + 1) /\ 1 <= n + 1
        /\ n + 1 \in 1..(Len(ring) + 1) /\ Len(ring) \in 0..Len(ring) /\ n + 1 <= Len(ring) + 1
    BY <2>2, <2>3
  <2>5. /\ Len(batch') = n - 1 + 1 /\ \A i \in 1..(n - 1 + 1) : batch'[i] = ring[1 + i - 1]
    BY <2>1, <2>2, <2>3, <2>4, SubSeqIsSeq
  <2>6. /\ Len(ring') = Len(ring) - (n + 1) + 1
        /\ \A i \in 1..(Len(ring) - (n + 1) + 1) : ring'[i] = ring[(n + 1) + i - 1]
    BY <2>1, <2>2, <2>4, SubSeqIsSeq
  <2>7. /\ \A i \in 1..(n - 1 + 1) : 1 + i - 1 \in 1..Len(ring)
        /\ \A i \in 1..(Len(ring) - (n + 1) + 1) : (n + 1) + i - 1 \in 1..Len(ring)
    BY <2>2, <2>3
  <2>8. DataIn(batch', D)
    BY <2>5, <2>7 DEF DataIn
  <2>9. DataIn(ring', D)
    BY <2>6, <2>7 DEF DataIn
  <2> QED
    BY <2>8, <2>9
<1> QED
  BY <1>1, <1>2 DEF LoopStep, Tick, CreateRingBuffer, CreateRingBufferFails, StartPoll,
                    StartPollFails, PollTimesOut, PollFails, TimerExpires

LEMMA ReserveData ==
  ASSUME LoopInv, NEW D, NEW d \in D, Reserve(d), DataIn(ring, D), DataIn(batch, D)
  PROVE  DataIn(ring', D) /\ DataIn(batch', D)
<1> DEFINE new == [id |-> hits + 1, ready |-> FALSE, data |-> d]
<1>1. ring' = Append(ring, new) /\ batch' = batch /\ new.data \in D
  BY DEF Reserve
<1>2. IsSeq(ring) /\ Len(ring) \in Nat
  BY SeqFacts DEF LoopInv, Numbered
<1> HIDE DEF new
<1>3. /\ Len(ring') = Len(ring) + 1
      /\ \A i \in 1..Len(ring) : ring'[i] = ring[i]
      /\ ring'[Len(ring) + 1] = new
  BY <1>1, <1>2, AppendIsSeq
<1>4. \A i \in 1..(Len(ring) + 1) : i \in 1..Len(ring) \/ i = Len(ring) + 1
  BY <1>2
<1>5. DataIn(ring', D)
  BY <1>1, <1>3, <1>4 DEF DataIn
<1> QED
  BY <1>1, <1>5

LEMMA SubmitData ==
  ASSUME LoopInv, NEW i, NEW D, NEW d \in D, SubmitAs(i, d), DataIn(ring, D), DataIn(batch, D)
  PROVE  DataIn(ring', D) /\ DataIn(batch', D)
<1>1. /\ i \in DOMAIN ring /\ ring' = [ring EXCEPT ![i].ready = TRUE, ![i].data = d]
      /\ batch' = batch
  BY DEF SubmitAs
<1>2. IsSeq(ring) /\ Len(ring) \in Nat /\ DOMAIN ring = 1..Len(ring)
  BY SeqFacts DEF LoopInv, Numbered
<1> DEFINE new == [[ring[i] EXCEPT !.ready = TRUE] EXCEPT !.data = d]
<1>3. ring' = [ring EXCEPT ![i] = new]
  BY <1>1
<1>4. new.data = d
  <2>1. IsRecordNo(ring[i], Len(seen) + Len(batch) + i)
    BY <1>1, <1>2 DEF LoopInv, Numbered
  <2>2. PICK r, k : r = ring[i] /\ r = [id |-> k, ready |-> r.ready, data |-> r.data]
    BY <2>1 DEF IsRecordNo
  <2>3. DOMAIN r = {"id", "ready", "data"}
    BY <2>2
  <2> QED
    BY <2>2, <2>3
<1> HIDE DEF new
<1>5. Len(ring') = Len(ring) /\ \A j \in 1..Len(ring) : ring'[j] = IF j = i THEN new ELSE ring[j]
  <2>1. i \in 1..Len(ring)
    BY <1>1, <1>2
  <2> QED
    BY <1>2, <1>3, <2>1, ExceptIsSeq
<1>6. DataIn(ring', D)
  BY <1>4, <1>5 DEF DataIn
<1> QED
  BY <1>1, <1>6

LEMMA AcceptData ==
  ASSUME LoopInv, phase = "handling", NEW r, NEW outs, Accept(r, outs), NEW D,
         DataIn(ring, D), DataIn(batch, D)
  PROVE  DataIn(ring', D) /\ DataIn(batch', D) /\ Head(batch).data \in D
<1>1. ring' = ring /\ batch' = Tail(batch)
  BY DEF Accept
<1>2. IsSeq(batch) /\ Len(batch) \in Nat \ {0} /\ batch # <<>> /\ Head(batch) = batch[1]
  BY HeadRecord
<1>3. Len(batch') = Len(batch) - 1 /\ \A i \in 1..(Len(batch) - 1) : batch'[i] = batch[i + 1]
  BY <1>1, <1>2, TailIsSeq
<1>4. 1 \in 1..Len(batch) /\ \A i \in 1..(Len(batch) - 1) : i + 1 \in 1..Len(batch)
  BY <1>2
<1>5. DataIn(batch', D) /\ Head(batch).data \in D
  BY <1>2, <1>3, <1>4 DEF DataIn
<1> QED
  BY <1>1, <1>5

(* Nothing happens once the loop has ended, and the map stays. *)
LEMMA MoveFacts ==
  ASSUME LoopInv, Move
  PROVE  phase # "ended" /\ verdict = "none" /\ UNCHANGED mapPath
<1>1. phase # "ended" /\ UNCHANGED mapPath
  <2>1. CASE LoopStep
    BY <2>1 DEF LoopStep, Tick, CreateRingBuffer, CreateRingBufferFails, StartPoll,
                StartPollFails, PollReturns, PollTimesOut, PollFails, TimerExpires
  <2>2. CASE (\E data : Reserve(data)) \/ (\E i, data : SubmitAs(i, data))
    BY <2>2 DEF Reserve, SubmitAs, Room, Recording
  <2>3. CASE (\E r, outs : Accepts(r, outs)) \/ (\E outs, type, point : Refuses(outs, type, point))
    BY <2>3 DEF Accepts, Refuses, Accept, Refuse
  <2>4. CASE (\E outs : Finishes(outs)) \/ Aborts
    BY <2>4 DEF Finishes, Aborts, FinishOk, FinishFails
  <2> QED
    BY <2>1, <2>2, <2>3, <2>4 DEF Move
<1> QED
  BY <1>1 DEF LoopInv, Judged

(* Steps of the loop write nothing and do not succeed. *)
LEMMA LoopStepFacts ==
  ASSUME LoopInv, LoopStep
  PROVE  UNCHANGED <<mapPath, seen, out>> /\ phase # "ended" /\ verdict' # "ok"
<1>1. verdict = "none" /\ phase # "ended"
  BY MoveFacts DEF Move
<1> QED
  BY <1>1 DEF LoopStep, Tick, CreateRingBuffer, CreateRingBufferFails, StartPoll, StartPollFails,
              PollReturns, PollTimesOut, PollFails, TimerExpires, Report, End

-----------------------------------------------------------------------------
(* What the handlers write. *)

LEMMA NoOutputs == ASSUME NEW id PROVE OutputsOf(id, <<>>) /\ SummaryOutputs(<<>>)
<1>1. IsSeq(<<>>) /\ 1..Len(<<>>) = {}
  BY EmptyIsSeq
<1> QED
  BY <1>1 DEF OutputsOf, SummaryOutputs

LEMMA OneOutput ==
  ASSUME NEW id, NEW o, o.id = id, o.what \notin Summaries
  PROVE  OutputsOf(id, <<o>>)
<1>1. IsSeq(<<o>>) /\ Len(<<o>>) = 1 /\ <<o>>[1] = o
  BY SingleIsSeq
<1>2. \A i \in 1..Len(<<o>>) : i = 1
  BY <1>1
<1> QED
  BY <1>1, <1>2 DEF OutputsOf

LEMMA JoinOutputs ==
  ASSUME NEW id, NEW a, NEW b, OutputsOf(id, a), OutputsOf(id, b)
  PROVE  OutputsOf(id, a \o b)
<1>1. /\ IsSeq(a \o b) /\ Len(a \o b) = Len(a) + Len(b) /\ Len(a) \in Nat /\ Len(b) \in Nat
      /\ \A i \in 1..(Len(a) + Len(b)) :
             (a \o b)[i] = IF i <= Len(a) THEN a[i] ELSE b[i - Len(a)]
  BY ConcatIsSeq, SeqFacts DEF OutputsOf
<1>2. ASSUME NEW i \in 1..Len(a \o b)
      PROVE  (a \o b)[i].id = id /\ (a \o b)[i].what \notin Summaries
  <2>1. CASE i <= Len(a)
    <3>1. i \in 1..Len(a) /\ (a \o b)[i] = a[i]
      BY <1>1, <2>1
    <3> QED
      BY <3>1 DEF OutputsOf
  <2>2. CASE ~(i <= Len(a))
    <3>1. i - Len(a) \in 1..Len(b) /\ (a \o b)[i] = b[i - Len(a)]
      BY <1>1, <2>2
    <3> QED
      BY <3>1 DEF OutputsOf
  <2> QED
    BY <2>1, <2>2
<1> QED
  BY <1>1, <1>2 DEF OutputsOf

LEMMA JoinSummaries ==
  ASSUME NEW a, NEW b, SummaryOutputs(a), SummaryOutputs(b)
  PROVE  SummaryOutputs(a \o b)
<1>1. /\ IsSeq(a \o b) /\ Len(a \o b) = Len(a) + Len(b) /\ Len(a) \in Nat /\ Len(b) \in Nat
      /\ \A i \in 1..(Len(a) + Len(b)) :
             (a \o b)[i] = IF i <= Len(a) THEN a[i] ELSE b[i - Len(a)]
  BY ConcatIsSeq, SeqFacts DEF SummaryOutputs
<1>2. ASSUME NEW i \in 1..Len(a \o b) PROVE IsSummary((a \o b)[i])
  <2>1. CASE i <= Len(a)
    <3>1. i \in 1..Len(a) /\ (a \o b)[i] = a[i]
      BY <1>1, <2>1
    <3> QED
      BY <3>1 DEF SummaryOutputs
  <2>2. CASE ~(i <= Len(a))
    <3>1. i - Len(a) \in 1..Len(b) /\ (a \o b)[i] = b[i - Len(a)]
      BY <1>1, <2>2
    <3> QED
      BY <3>1 DEF SummaryOutputs
  <2> QED
    BY <2>1, <2>2
<1> QED
  BY <1>1, <1>2 DEF SummaryOutputs

(* Outputs cut short are a prefix. *)
LEMMA CutIsPrefix ==
  ASSUME NEW outs, IsSeq(outs), NEW asks, NEW cut \in CutShort(outs, asks)
  PROVE  /\ IsSeq(cut) /\ Len(cut) \in Nat /\ Len(cut) <= Len(outs)
         /\ \A i \in 1..Len(cut) : i \in 1..Len(outs) /\ cut[i] = outs[i]
         /\ outs # <<>> => Len(cut) < Len(outs)
<1>1. Len(outs) \in Nat /\ (outs = <<>> <=> Len(outs) = 0)
  BY SeqFacts
<1>2. CASE outs = <<>>
  <2>1. cut = <<>>
    BY <1>2 DEF CutShort
  <2> QED
    BY <1>2, <2>1, EmptyIsSeq
<1>3. CASE outs # <<>>
  <2>1. PICK n \in 0..(Len(outs) - 1) : cut = SubSeq(outs, 1, n)
    BY <1>3 DEF CutShort
  <2>2. n \in 0..Len(outs) /\ 1 \in 1..(Len(outs) + 1) /\ 1 <= n + 1 /\ n - 1 + 1 = n
    BY <1>1, <1>3, <2>1
  <2>3. /\ IsSeq(cut) /\ Len(cut) = n - 1 + 1
        /\ \A i \in 1..(n - 1 + 1) : cut[i] = outs[1 + i - 1]
    BY <2>1, <2>2, SubSeqIsSeq
  <2>4. Len(cut) = n /\ \A i \in 1..n : 1 + i - 1 = i /\ i \in 1..Len(outs)
    BY <1>1, <2>2, <2>3
  <2> QED
    BY <1>1, <1>3, <2>1, <2>2, <2>3, <2>4
<1> QED
  BY <1>2, <1>3

LEMMA CutOutputs ==
  ASSUME NEW id, NEW outs, OutputsOf(id, outs), NEW asks, NEW cut \in CutShort(outs, asks)
  PROVE  OutputsOf(id, cut)
BY CutIsPrefix DEF OutputsOf

LEMMA CutSummaries ==
  ASSUME NEW outs, SummaryOutputs(outs), NEW asks, NEW cut \in CutShort(outs, asks)
  PROVE  SummaryOutputs(cut)
BY CutIsPrefix DEF SummaryOutputs

-----------------------------------------------------------------------------
(* The moves of each handler. *)

LEMMA GenericMoves == LoopInv /\ GenericNext => Move
<1> SUFFICES ASSUME LoopInv, GenericNext PROVE Move
  OBVIOUS
<1>1. ASSUME phase = "handling"
      PROVE  Head(batch).ready = TRUE /\ OutputsOf(Head(batch).id, <<>>)
  BY <1>1, HeadRecord, NoOutputs
<1>2. CASE LoopStep
  BY <1>2 DEF Move
<1>3. CASE \E i \in 1..RingCapacity : Submit(i)
  BY <1>3 DEF Move, Submit
<1>4. CASE \E bad \in BOOLEAN : ProbeHits(bad)
  BY <1>4 DEF Move, ProbeHits
<1>5. CASE OnItemUnconfigured
  <2>1. Accepts(Head(batch), <<>>)
    BY <1>1, <1>5 DEF OnItemUnconfigured, Accepts
  <2> QED
    BY <2>1 DEF Move
<1>6. CASE OnItemWritten
  <2>1. /\ UnstructuredAtom(Head(batch), AtomFields).id = Head(batch).id
        /\ UnstructuredAtom(Head(batch), AtomFields).what \notin Summaries
    BY DEF UnstructuredAtom, Summaries
  <2>2. OutputsOf(Head(batch).id, <<UnstructuredAtom(Head(batch), AtomFields)>>)
    BY <2>1, OneOutput
  <2>3. Accepts(Head(batch), <<UnstructuredAtom(Head(batch), AtomFields)>>)
    BY <1>1, <1>6, <2>2 DEF OnItemWritten, Accepts
  <2> QED
    BY <2>3 DEF Move
<1>7. CASE OnItemError
  <2>1. Refuses(<<>>, "TaskExecutionFailed", 0)
    BY <1>1, <1>7 DEF OnItemError, Refuses, ErrorTypes
  <2> QED
    BY <2>1 DEF Move
<1>8. CASE OnItemPanics
  <2>1. Aborts
    BY <1>8 DEF OnItemPanics, Aborts
  <2> QED
    BY <2>1 DEF Move
<1>9. CASE OnGenericFinished
  <2>1. Finishes(<<>>)
    BY <1>9, NoOutputs DEF OnGenericFinished, Finishes
  <2> QED
    BY <2>1 DEF Move
<1> QED
  BY <1>2, <1>3, <1>4, <1>5, <1>6, <1>7, <1>8, <1>9 DEF GenericNext

(* The outputs of a record are about it. *)
LEMMA BindOutputsOf == ASSUME NEW r PROVE OutputsOf(r.id, BindOutputs(r))
<1>1. /\ CodegenAtom(r, "BindServiceLockedWithBalFlagsReported").id = r.id
      /\ CodegenAtom(r, "BindServiceLockedWithBalFlagsUidsReported").id = r.id
      /\ Event(r, FALSE).id = r.id
  BY DEF CodegenAtom, Event
<1>2. /\ CodegenAtom(r, "BindServiceLockedWithBalFlagsReported").what \notin Summaries
      /\ CodegenAtom(r, "BindServiceLockedWithBalFlagsUidsReported").what \notin Summaries
      /\ Event(r, FALSE).what \notin Summaries
  BY DEF CodegenAtom, Event, Summaries
<1>3. OutputsOf(r.id, BindNames(r))
  BY <1>1, <1>2, NoOutputs, OneOutput DEF BindNames
<1>4. OutputsOf(r.id, BindUids(r))
  BY <1>1, <1>2, NoOutputs, OneOutput DEF BindUids
<1>5. OutputsOf(r.id, BindNames(r) \o BindUids(r))
  BY <1>3, <1>4, JoinOutputs
<1>6. OutputsOf(r.id, <<Event(r, FALSE)>>)
  BY <1>1, <1>2, OneOutput
<1>7. OutputsOf(r.id, BindNames(r) \o BindUids(r) \o <<Event(r, FALSE)>>)
  BY <1>5, <1>6, JoinOutputs
<1> QED
  BY <1>7, NoOutputs DEF BindOutputs

LEMMA SettingOutputsOf == ASSUME NEW r PROVE OutputsOf(r.id, SettingOutputs(r))
<1> DEFINE d == r.data.call
           names == IF userBuild THEN <<>>
                    ELSE <<CodegenAtom(r, "SetComponentEnabledSettingReported")>>
           atom  == [CodegenAtom(r, "DisabledLauncherActivityUidsReported")
                     EXCEPT !.fields = <<CallingPackage(d.caller)>>]
           uids  == IF d.launcher /\ d.caller # "" THEN <<atom>> ELSE <<>>
           event == IF d.launcher THEN <<Event(r, FALSE)>> ELSE <<>>
<1>1. /\ CodegenAtom(r, "SetComponentEnabledSettingReported").id = r.id
      /\ atom.id = r.id /\ Event(r, FALSE).id = r.id
  BY DEF CodegenAtom, Event
<1>2. /\ CodegenAtom(r, "SetComponentEnabledSettingReported").what \notin Summaries
      /\ atom.what \notin Summaries /\ Event(r, FALSE).what \notin Summaries
  BY DEF CodegenAtom, Event, Summaries
<1>3. SettingOutputs(r) = names \o uids \o event
  BY DEF SettingOutputs
<1> HIDE DEF d, atom
<1>4. OutputsOf(r.id, names)
  BY <1>1, <1>2, NoOutputs, OneOutput
<1>5. OutputsOf(r.id, uids)
  BY <1>1, <1>2, NoOutputs, OneOutput
<1>6. OutputsOf(r.id, event)
  BY <1>1, <1>2, NoOutputs, OneOutput
<1> HIDE DEF names, uids, event
<1>7. OutputsOf(r.id, names \o uids)
  BY <1>4, <1>5, JoinOutputs
<1>8. OutputsOf(r.id, names \o uids \o event)
  BY <1>6, <1>7, JoinOutputs
<1> QED
  BY <1>3, <1>8

(* The answer about the launcher changes neither the number nor the state   *)
(* of a record.                                                             *)
LEMMA AnsweredRecord ==
  ASSUME NEW r, NEW k, IsRecordNo(r, k), NEW answer
  PROVE  /\ [r EXCEPT !.data.call.launcher = answer].id = r.id
         /\ [r EXCEPT !.data.call.launcher = answer].ready = r.ready
<1> DEFINE data == [r.data EXCEPT !.call = [r.data.call EXCEPT !.launcher = answer]]
<1>1. [r EXCEPT !.data.call.launcher = answer] = [r EXCEPT !.data = data]
  OBVIOUS
<1> HIDE DEF data
<1>2. r = [id |-> k, ready |-> r.ready, data |-> r.data]
  BY DEF IsRecordNo
<1>3. [r EXCEPT !.data = data].id = r.id /\ [r EXCEPT !.data = data].ready = r.ready
  BY <1>2
<1> QED
  BY <1>1, <1>3

LEMMA DisruptiveMoves == LoopInv /\ DisruptiveNext => Move
<1> SUFFICES ASSUME LoopInv, DisruptiveNext PROVE Move
  OBVIOUS
<1>1. ASSUME phase = "handling"
      PROVE  Head(batch).ready = TRUE /\ OutputsOf(Head(batch).id, <<>>)
  BY <1>1, HeadRecord, NoOutputs
<1>2. CASE LoopStep
  BY <1>2 DEF Move
<1>3. CASE \E i \in 1..RingCapacity : Submit(i)
  BY <1>3 DEF Move, Submit
<1>4. CASE \/ \E d \in Binds : BindServiceLocked(d)
           \/ \E d \in Settings : SetComponentEnabledSetting(d)
           \/ Unreadable
  BY <1>4 DEF Move, BindServiceLocked, SetComponentEnabledSetting, Unreadable
<1>5. CASE OnProgramError
  <2>1. Refuses(<<>>, "BpfProgramError", -14)
    BY <1>1, <1>5 DEF OnProgramError, Refuses, ErrorTypes
  <2> QED
    BY <2>1 DEF Move
<1>6. CASE OnMalformed
  <2>1. PICK type, point : type \in ErrorTypes /\ phase = "handling" /\ Refuse(<<>>, type, point)
    BY <1>6 DEF OnMalformed, ErrorTypes
  <2>2. Refuses(<<>>, type, point)
    BY <1>1, <2>1 DEF Refuses
  <2> QED
    BY <2>2 DEF Move
<1>7. CASE OnBind
  <2>1. phase = "handling" /\ OutputsOf(Head(batch).id, BindOutputs(Head(batch)))
    BY <1>7, BindOutputsOf DEF OnBind, Handling
  <2>2. \/ Refuse(<<>>, "BpfRingBufferDataInvalid", 1)
        \/ Accept(Head(batch), BindOutputs(Head(batch)))
        \/ \E outs \in CutShort(BindOutputs(Head(batch)), FALSE) :
               Refuse(outs, "TaskExecutionFailed", 0)
    BY <1>7 DEF OnBind
  <2>3. \/ Refuses(<<>>, "BpfRingBufferDataInvalid", 1)
        \/ Accepts(Head(batch), BindOutputs(Head(batch)))
        \/ \E outs : Refuses(outs, "TaskExecutionFailed", 0)
    BY <1>1, <2>1, <2>2, CutOutputs DEF Refuses, Accepts, ErrorTypes
  <2> QED
    BY <2>3 DEF Move
<1>8. CASE OnSetting
  <2>0. phase = "handling"
    BY <1>8 DEF OnSetting, Handling
  <2>a. PICK answer \in BOOLEAN :
            LET r == [Head(batch) EXCEPT !.data.call.launcher = answer]
            IN  \/ Refuse(<<>>, "BpfRingBufferDataInvalid", 1)
                \/ Refuse(<<>>, "BpfRingBufferDataInvalid", 2)
                \/ Accept(Head(batch), <<>>)
                \/ Accept(r, SettingOutputs(r))
                \/ \E outs \in CutShort(SettingOutputs(r), TRUE) :
                       Refuse(outs, "TaskExecutionFailed", 0)
    BY <1>8 DEF OnSetting
  <2>b. PICK r : r = [Head(batch) EXCEPT !.data.call.launcher = answer]
    OBVIOUS
  <2>1. /\ answer \in BOOLEAN
        /\ r = [Head(batch) EXCEPT !.data.call.launcher = answer]
        /\ \/ Refuse(<<>>, "BpfRingBufferDataInvalid", 1)
           \/ Refuse(<<>>, "BpfRingBufferDataInvalid", 2)
           \/ Accept(Head(batch), <<>>)
           \/ Accept(r, SettingOutputs(r))
           \/ \E outs \in CutShort(SettingOutputs(r), TRUE) :
                  Refuse(outs, "TaskExecutionFailed", 0)
    BY <2>a, <2>b
  <2>2. r.id = Head(batch).id /\ r.ready = TRUE
    <3>1. Head(batch) = batch[1] /\ 1 \in 1..Len(batch)
      BY <2>0, HeadRecord
    <3>2. IsRecordNo(Head(batch), Len(seen) + 1)
      BY <3>1 DEF LoopInv, Numbered
    <3> QED
      BY <1>1, <2>0, <2>1, <3>2, AnsweredRecord, Zenon
  <2>3. OutputsOf(Head(batch).id, SettingOutputs(r))
    BY <2>2, SettingOutputsOf
  <2>4. \/ Refuses(<<>>, "BpfRingBufferDataInvalid", 1)
        \/ Refuses(<<>>, "BpfRingBufferDataInvalid", 2)
        \/ Accepts(Head(batch), <<>>)
        \/ Accepts(r, SettingOutputs(r))
        \/ \E outs : Refuses(outs, "TaskExecutionFailed", 0)
    BY <1>1, <2>0, <2>1, <2>2, <2>3, CutOutputs DEF Refuses, Accepts, ErrorTypes
  <2> QED
    BY <2>4 DEF Move
<1>9. CASE OnDisruptiveFinished
  <2>1. Finishes(<<>>)
    BY <1>9, NoOutputs DEF OnDisruptiveFinished, Finishes
  <2> QED
    BY <2>1 DEF Move
<1> QED
  BY <1>2, <1>3, <1>4, <1>5, <1>6, <1>7, <1>8, <1>9 DEF DisruptiveNext

(* The filters are written before the loop starts. *)
BinderOrder ==
    mapPath = "Binder_output_buf" /\ mapPath \in Registered
        /\ (access = "closed" \/ pending # {}) => phase = "new"

LEMMA TransactionOutputsOf == ASSUME NEW r, NEW m PROVE OutputsOf(r.id, TransactionOutputs(r, m))
<1> DEFINE atom  == IF m.atom THEN <<UnstructuredAtom(r, m.positions)>> ELSE <<>>
           event == IF m.mode = "none" THEN <<>> ELSE <<Event(r, Flush(m.mode))>>
<1>1. /\ UnstructuredAtom(r, m.positions).id = r.id /\ Event(r, Flush(m.mode)).id = r.id
      /\ UnstructuredAtom(r, m.positions).what \notin Summaries
  BY DEF UnstructuredAtom, Event, Summaries
<1>2. Event(r, Flush(m.mode)).what \notin Summaries
  BY DEF Event, Summaries
<1>3. OutputsOf(r.id, atom)
  BY <1>1, NoOutputs, OneOutput
<1>4. OutputsOf(r.id, event)
  BY <1>1, <1>2, NoOutputs, OneOutput
<1>5. TransactionOutputs(r, m) = atom \o event
  BY DEF TransactionOutputs
<1> HIDE DEF atom, event
<1> QED
  BY <1>3, <1>4, <1>5, JoinOutputs

LEMMA BinderMoves ==
  ASSUME LoopInv, BinderOrder, mapPath = "Binder_output_buf", mapPath \in Registered, BinderNext
  PROVE  Move \/ UNCHANGED loopVars
<1>1. ASSUME phase = "handling"
      PROVE  Head(batch).ready = TRUE /\ OutputsOf(Head(batch).id, <<>>)
  BY <1>1, HeadRecord, NoOutputs
<1>2. CASE LoopStep
  BY <1>2 DEF Move
<1>3. CASE \E i \in 1..RingCapacity : Submit(i)
  BY <1>3 DEF Move, Submit
<1>4. CASE \E n \in Descriptors, c \in Codes : ExecTransactInternal(n, c)
  BY <1>4 DEF Move, ExecTransactInternal
<1>5. CASE \/ OpenMap \/ StartDrain \/ DrainEnds \/ (\E f \in pending : PutFilter(f))
           \/ \E key \in DOMAIN filters : DrainKey(key)
  BY <1>5 DEF OpenMap, StartDrain, DrainEnds, PutFilter, DrainKey
<1>6. CASE \E f \in pending : PutFilterFails(f)
  <2>1. phase = "new"
    BY <1>6 DEF BinderOrder
  <2>2. Aborts
    BY <1>6, <2>1 DEF PutFilterFails, Aborts
  <2> QED
    BY <2>2 DEF Move
<1>7. CASE OnTransaction
  <2> DEFINE r == Head(batch)
  <2>1. PICK outs :
            /\ phase = "handling" /\ OutputsOf(r.id, outs)
            /\ \/ Accept(r, outs)
               \/ \E cut \in CutShort(outs, FALSE) : Refuse(cut, "TaskExecutionFailed", 0)
               \/ Refuse(<<>>, "TaskExecutionFailed", 0)
    BY <1>7, TransactionOutputsOf DEF OnTransaction
  <2>2. \/ Accepts(r, outs) \/ \E cut : Refuses(cut, "TaskExecutionFailed", 0)
    BY <1>1, <2>1, CutOutputs DEF Refuses, Accepts, ErrorTypes
  <2> QED
    BY <2>2 DEF Move
<1>8. CASE OnBinderFinished
  <2>1. Finishes(<<>>)
    BY <1>8, NoOutputs DEF OnBinderFinished, Finishes
  <2> QED
    BY <2>1 DEF Move
<1> QED
  BY <1>2, <1>3, <1>4, <1>5, <1>6, <1>7, <1>8 DEF BinderNext

(* The handler of bitmaps keeps finitely many of them, each with the id of  *)
(* its record.                                                              *)
BitmapsFinite ==
    /\ IsFiniteSet(bitmaps) /\ IsFiniteSet(bitmap_snapshot_at_max_size)
    /\ \A b \in bitmaps \cup bitmap_snapshot_at_max_size : b.id \in 1..MaxHits[mapPath]

LEMMA SnapshotSummaries == ASSUME BitmapsFinite PROVE SummaryOutputs(Snapshots)
<1> DEFINE Atoms(set, what) ==
               [n \in DOMAIN SetToSeq(set) |->
                    [id |-> SetToSeq(set)[n].id, what |-> what,
                     fields |-> <<SetToSeq(set)[n].activity>>]]
<1>1. ASSUME NEW set, IsFiniteSet(set), \A b \in set : b.id \in 1..MaxHits[mapPath],
             NEW what \in {"max", "sample"}
      PROVE  SummaryOutputs(Atoms(set, what))
  <2>1. /\ Cardinality(set) \in Nat /\ DOMAIN SetToSeq(set) = 1..Cardinality(set)
        /\ \A n \in 1..Cardinality(set) : SetToSeq(set)[n] \in set
    BY <1>1, SetToSeqLists
  <2> DEFINE atoms == Atoms(set, what)
  <2>2. atoms = [n \in 1..Cardinality(set) |-> atoms[n]]
    BY <2>1
  <2>3. ASSUME NEW n \in 1..Cardinality(set) PROVE IsSummary(atoms[n])
    <3>1. atoms[n].what = what /\ atoms[n].id = SetToSeq(set)[n].id
      BY <2>1
    <3>2. SetToSeq(set)[n].id \in 0..MaxHits[mapPath]
      BY <1>1, <2>1
    <3> QED
      BY <1>1, <3>1, <3>2 DEF Summaries, IsSummary
  <2> HIDE DEF atoms
  <2>4. IsSeq(atoms) /\ Len(atoms) = Cardinality(set)
    BY <2>1, <2>2, FunctionIsSeq
  <2>5. SummaryOutputs(atoms)
    BY <2>3, <2>4 DEF SummaryOutputs
  <2> QED
    BY <2>5 DEF atoms
<1>2. SummaryOutputs(Atoms(bitmap_snapshot_at_max_size, "max"))
  BY <1>1 DEF BitmapsFinite
<1>3. SummaryOutputs(Atoms(bitmaps, "sample"))
  BY <1>1 DEF BitmapsFinite
<1>4. \/ Snapshots = <<>>
      \/ Snapshots = Atoms(bitmap_snapshot_at_max_size, "max") \o Atoms(bitmaps, "sample")
  BY DEF Snapshots
<1> HIDE DEF Atoms
<1> QED
  BY <1>2, <1>3, <1>4, NoOutputs, JoinSummaries

LEMMA BitmapMoves ==
  ASSUME LoopInv, BitmapsFinite, BitmapNext
  PROVE  Move \/ UNCHANGED loopVars
<1>1. ASSUME phase = "handling"
      PROVE  /\ Head(batch).ready = TRUE /\ OutputsOf(Head(batch).id, <<>>)
             /\ [id |-> Head(batch).id, ready |-> TRUE].id = Head(batch).id
             /\ [id |-> Head(batch).id, ready |-> TRUE].ready = TRUE
  BY <1>1, HeadRecord, NoOutputs
<1>2. CASE LoopStep
  BY <1>2 DEF Move
<1>3. CASE \E i \in 1..RingCapacity : Submit(i)
  BY <1>3 DEF Move, Submit
<1>4. CASE BitmapCreation \/ \E p \in Ptrs : \/ \E s \in Sizes : BitmapCreationForSnapshot(p, s)
                                             \/ CreateScaledBitmap(p)
  BY <1>4 DEF Move, BitmapCreation, BitmapCreationForSnapshot, CreateScaledBitmap
<1>5. CASE \/ \E p \in Ptrs : BitmapCreationUnrecorded(p)
           \/ \E b \in alive : ApplyFreeFunctionUnrecorded(b)
  BY <1>5 DEF BitmapCreationUnrecorded, ApplyFreeFunctionUnrecorded
<1>6. CASE (\E b \in alive : ApplyFreeFunction(b)) \/ \E a \in Activities : ActivityPerformStart(a)
  BY <1>6 DEF Move, ApplyFreeFunction, ActivityPerformStart
<1>7. ASSUME phase = "handling", NEW outs, OutputsOf(Head(batch).id, outs), Collect(outs) PROVE Move
  <2>1. Accepts([id |-> Head(batch).id, ready |-> TRUE], outs)
    BY <1>1, <1>7 DEF Collect, Accepts
  <2> QED
    BY <2>1 DEF Move
<1>8. ASSUME phase = "handling"
      PROVE  /\ OutputsOf(Head(batch).id, <<AllocatedAtom(Head(batch))>>)
             /\ OutputsOf(Head(batch).id, <<CodegenAtom(Head(batch), "AndroidGraphicsBitmapScaled")>>)
  <2>1. /\ AllocatedAtom(Head(batch)).id = Head(batch).id
        /\ CodegenAtom(Head(batch), "AndroidGraphicsBitmapScaled").id = Head(batch).id
        /\ AllocatedAtom(Head(batch)).what \notin Summaries
        /\ CodegenAtom(Head(batch), "AndroidGraphicsBitmapScaled").what \notin Summaries
    BY DEF AllocatedAtom, CodegenAtom, Summaries
  <2> QED
    BY <2>1, OneOutput
<1>9. CASE OnItemV0 \/ OnAllocation \/ OnScaled
  <2>1. /\ phase = "handling"
        /\ \/ Collect(<<AllocatedAtom(Head(batch))>>)
           \/ Collect(<<CodegenAtom(Head(batch), "AndroidGraphicsBitmapScaled")>>)
    BY <1>9 DEF OnItemV0, OnAllocation, OnScaled, Item
  <2> QED
    BY <1>7, <1>8, <2>1
<1>10. CASE OnDeallocation \/ OnActivityStart \/ OnOtherType
  <2>1. phase = "handling" /\ Collect(<<>>)
    BY <1>10 DEF OnDeallocation, OnActivityStart, OnOtherType, Item
  <2> QED
    BY <1>1, <1>7, <2>1
<1>11. CASE OnBitmapFails
  <2>1. Refuses(<<>>, "TaskExecutionFailed", 0)
    BY <1>1, <1>11 DEF OnBitmapFails, Refuses, ErrorTypes
  <2> QED
    BY <2>1 DEF Move
<1>12. CASE OnBitmapFinished
  <2>1. \E outs : Finishes(outs)
    BY <1>12, SnapshotSummaries, CutSummaries DEF OnBitmapFinished, Finishes
  <2> QED
    BY <2>1 DEF Move
<1> QED
  BY <1>2, <1>3, <1>4, <1>5, <1>6, <1>9, <1>10, <1>11, <1>12 DEF BitmapNext

-----------------------------------------------------------------------------
(* Accessibility: sorting the events of a uid. *)

EventRecords == [id : Nat, kind : Kinds, uid : Uids, ts : 0..MaxTime]

(* The events collected, in the order of their records. *)
Collected ==
    /\ events \in Seq(EventRecords)
    /\ \A i, j \in 1..Len(events) : i < j => events[i].id < events[j].id

LEMMA EventFields ==
  ASSUME Collected, NEW i \in 1..Len(events)
  PROVE  /\ events[i] \in EventRecords /\ events[i].id \in Nat /\ events[i].kind \in Kinds
         /\ events[i].uid \in Uids /\ events[i].ts \in 0..MaxTime
<1>1. events[i] \in EventRecords
  BY DEF Collected
<1> QED
  BY <1>1 DEF EventRecords

(* Of some events one comes first: the earliest of the latest. *)
LEMMA FirstEvent ==
  ASSUME Collected, NEW I \in SUBSET (1..Len(events)), I # {}
  PROVE  \E x \in I : \A y \in I \ {x} : Before(x, y)
<1>1. \A i \in I : events[i].ts \in 0..MaxTime
  BY EventFields
<1> DEFINE T == {events[i].ts : i \in I}
           t == Max(T)
           J == {i \in I : events[i].ts = t}
<1>2. MaxTime \in Nat
  BY PollLoopAssumption
<1>3. T \in SUBSET (0..MaxTime) /\ T # {}
  BY <1>1
<1>4. t \in T /\ \A m \in T : m <= t
  <2> HIDE DEF T
  <2> QED
    BY <1>2, <1>3, MaxIsGreatest
<1> HIDE DEF t
<1>5. J \in SUBSET Nat /\ J # {}
  <2>1. \A i \in I : i \in Nat
    OBVIOUS
  <2>2. \E i \in I : events[i].ts = t
    BY <1>4
  <2> QED
    BY <2>1, <2>2
<1>6. PICK x \in J : \A j \in J : x <= j
  <2> HIDE DEF J
  <2> QED
    BY <1>5, LeastNat
<1>7. ASSUME NEW y \in I \ {x} PROVE Before(x, y)
  <2>1. events[y].ts <= t /\ events[x].ts = t /\ x \in Nat /\ y \in Nat
    BY <1>4, <1>6
  <2>2. events[y].ts \in Nat /\ events[x].ts \in Nat
    BY <1>1, <1>2, <1>6
  <2>3. CASE events[y].ts = t
    <3>1. x <= y
      BY <1>6, <2>3
    <3> QED
      BY <2>1, <2>3, <3>1 DEF Before
  <2>4. CASE events[y].ts # t
    <3>1. events[x].ts > events[y].ts
      BY <2>1, <2>2, <2>4
    <3> QED
      BY <3>1 DEF Before
  <2> QED
    BY <2>3, <2>4
<1> QED
  BY <1>6, <1>7

CanSort(I) == \E order \in SetToSeqs(I) : InOrder(order)

(* Any events can be sorted: the first of them, and then the others. *)
LEMMA SortExists ==
  ASSUME Collected, NEW I \in SUBSET (1..Len(events))
  PROVE  CanSort(I)
<1> DEFINE N == Len(events)
           S == {c \in Nat : \A J \in SUBSET (1..N) : Cardinality(J) = c => CanSort(J)}
<1>1. N \in Nat
  BY DEF Collected
<1>2. \A J \in SUBSET (1..N) : IsFiniteSet(J)
  <2>1. IsFiniteSet(1..N)
    BY <1>1, FS_Interval
  <2> QED
    BY <2>1, FS_Subset
<1> HIDE DEF N
<1>3. 0 \in S
  <2> SUFFICES ASSUME NEW J \in SUBSET (1..N), Cardinality(J) = 0 PROVE CanSort(J)
    OBVIOUS
  <2>1. J = {} /\ 1..Cardinality(J) = {}
    BY <1>2, FS_EmptySet
  <2> DEFINE none == [n \in {} |-> 0]
  <2>2. none \in SetToSeqs(J) /\ InOrder(none)
    BY <2>1 DEF SetToSeqs, InOrder
  <2> QED
    BY <2>2 DEF CanSort
<1>4. ASSUME NEW c \in Nat, c \in S PROVE c + 1 \in S
  <2> SUFFICES ASSUME NEW J \in SUBSET (1..N), Cardinality(J) = c + 1 PROVE CanSort(J)
    OBVIOUS
  <2>1. J # {} /\ IsFiniteSet(J)
    <3>1. IsFiniteSet(J) /\ c + 1 # 0
      BY <1>2
    <3> QED
      BY <3>1, FS_EmptySet
  <2>2. PICK x \in J : \A y \in J \ {x} : Before(x, y)
    BY <2>1, FirstEvent DEF N
  <2>3. Cardinality(J \ {x}) = c
    <3>1. Cardinality(J \ {x}) = (c + 1) - 1
      BY <2>1, FS_RemoveElement
    <3> QED
      BY <3>1
  <2>4. PICK rest \in SetToSeqs(J \ {x}) : InOrder(rest)
    <3>1. J \ {x} \in SUBSET (1..N)
      OBVIOUS
    <3>2. CanSort(J \ {x})
      BY <1>4, <2>3, <3>1
    <3> QED
      BY <3>2 DEF CanSort
  <2>5. rest \in [1..c -> J \ {x}] /\ \A i, j \in 1..c : i # j => rest[i] # rest[j]
    BY <2>3, <2>4 DEF SetToSeqs
  <2> DEFINE order == [n \in 1..(c + 1) |-> IF n = 1 THEN x ELSE rest[n - 1]]
  <2>6. ASSUME NEW n \in 1..(c + 1), n # 1
        PROVE  n - 1 \in 1..c /\ order[n] = rest[n - 1] /\ rest[n - 1] \in J \ {x}
    BY <2>5, <2>6
  <2>7. order[1] = x /\ 1 \in 1..(c + 1) /\ DOMAIN order = 1..(c + 1)
    OBVIOUS
  <2>8. order \in [1..(c + 1) -> J]
    BY <2>6
  <2> HIDE DEF order
  <2>9. ASSUME NEW i \in 1..(c + 1), NEW j \in 1..(c + 1), i # j PROVE order[i] # order[j]
    <3>1. CASE i # 1 /\ j # 1
      <4>1. i - 1 # j - 1
        BY <2>9
      <4> QED
        BY <2>5, <2>6, <3>1, <4>1
    <3>2. CASE i = 1 \/ j = 1
      BY <2>6, <2>7, <2>9, <3>2
    <3> QED
      BY <3>1, <3>2
  <2>10. ASSUME NEW i \in 1..(c + 1), NEW j \in 1..(c + 1), i < j PROVE Before(order[i], order[j])
    <3>1. j # 1 /\ order[j] = rest[j - 1] /\ rest[j - 1] \in J \ {x} /\ j - 1 \in 1..c
      <4>1. j # 1
        BY <2>10
      <4> QED
        BY <2>6, <4>1
    <3>2. CASE i = 1
      BY <2>2, <2>7, <3>1, <3>2
    <3>3. CASE i # 1
      <4>1. i - 1 \in 1..c /\ order[i] = rest[i - 1] /\ i - 1 < j - 1
        BY <2>6, <2>10, <3>3
      <4>2. DOMAIN rest = 1..c
        BY <2>5
      <4> QED
        BY <2>4, <3>1, <4>1, <4>2 DEF InOrder
    <3> QED
      BY <3>2, <3>3
  <2>11. order \in SetToSeqs(J)
    BY <2>8, <2>9 DEF SetToSeqs
  <2>12. InOrder(order)
    BY <2>7, <2>10 DEF InOrder
  <2> QED
    BY <2>11, <2>12 DEF CanSort
<1>5. \A c \in Nat : c \in S
  <2> HIDE DEF S
  <2> QED
    BY <1>3, <1>4, NatInd
<1>6. Cardinality(I) \in Nat /\ I \in SUBSET (1..N)
  BY <1>2, FS_CardinalityType DEF N
<1> QED
  BY <1>5, <1>6

(* The events of uid u, the latest first. *)
IsSorting(s, u) ==
    /\ s \in Seq(EventRecords)
    /\ \A m, n \in 1..Len(s) : m < n => s[m].ts >= s[n].ts
    /\ \A m, n \in 1..Len(s) : s[m].id = s[n].id => m = n
    /\ \A m \in 1..Len(s) : s[m].uid = u /\ s[m] \in ToSet(events)
    /\ \A e \in ToSet(events) : e.uid = u => \E m \in 1..Len(s) : s[m] = e

LEMMA SortedIsSorting == ASSUME Collected, NEW u PROVE IsSorting(Sorted(u), u)
<1> DEFINE I == {i \in DOMAIN events : events[i].uid = u}
           order == CHOOSE o \in SetToSeqs(I) : InOrder(o)
           s == [n \in DOMAIN order |-> events[order[n]]]
           c == Cardinality(I)
<1>1. Sorted(u) = s
  BY DEF Sorted
<1>2. Len(events) \in Nat /\ DOMAIN events = 1..Len(events) /\ I \in SUBSET (1..Len(events))
  BY DEF Collected
<1>3. CanSort(I)
  <2> HIDE DEF I
  <2> QED
    BY <1>2, SortExists
<1>4. order \in SetToSeqs(I) /\ InOrder(order)
  BY <1>3 DEF CanSort
<1>5. IsFiniteSet(I) /\ c \in Nat
  <2>1. IsFiniteSet(1..Len(events))
    BY <1>2, FS_Interval
  <2>2. IsFiniteSet(I)
    <3> HIDE DEF I
    <3> QED
      BY <1>2, <2>1, FS_Subset
  <2> QED
    BY <2>2, FS_CardinalityType
<1> HIDE DEF order, c
<1>6. order \in [1..c -> I] /\ \A i, j \in 1..c : i # j => order[i] # order[j]
  BY <1>4 DEF SetToSeqs, c
<1>7. \A i \in I : \E n \in 1..c : order[n] = i
  <2>1. IsFiniteSet(1..c) /\ Cardinality(1..c) = c
    <3>1. 1 \in Int /\ c \in Int /\ (IF 1 > c THEN 0 ELSE c - 1 + 1) = c
      BY <1>5
    <3> QED
      BY <3>1, FS_Interval
  <2>2. order \in Injection(1..c, I)
    BY <1>6 DEF Injection, IsInjective
  <2>3. order \in Surjection(1..c, I)
    <3> HIDE DEF I
    <3> QED
      BY <1>5, <2>1, <2>2, FS_Injection DEF c
  <2> QED
    BY <2>3 DEF Surjection
<1>8. \A n \in 1..c : order[n] \in 1..Len(events) /\ events[order[n]].uid = u
  BY <1>2, <1>6
<1>9. s = [n \in 1..c |-> events[order[n]]] /\ s \in [1..c -> EventRecords]
  <2>1. DOMAIN order = 1..c
    BY <1>6
  <2>2. \A n \in 1..c : events[order[n]] \in EventRecords
    BY <1>8 DEF Collected
  <2> QED
    BY <2>1, <2>2
<1>10. s \in Seq(EventRecords) /\ Len(s) = c
  <2> HIDE DEF s
  <2> QED
    BY <1>5, <1>9
<1>11. ASSUME NEW m \in 1..c, NEW n \in 1..c, m < n PROVE s[m].ts >= s[n].ts
  <2>1. Before(order[m], order[n])
    BY <1>4, <1>6, <1>11 DEF InOrder
  <2>2. s[m] = events[order[m]] /\ s[n] = events[order[n]]
    BY <1>9
  <2>3. s[m].ts \in Nat /\ s[n].ts \in Nat
    BY <1>9, PollLoopAssumption DEF EventRecords
  <2> QED
    BY <2>1, <2>2, <2>3 DEF Before
<1>12. ASSUME NEW m \in 1..c, NEW n \in 1..c, s[m].id = s[n].id PROVE m = n
  <2>1. events[order[m]].id = events[order[n]].id
    BY <1>9, <1>12
  <2>2. order[m] \in 1..Len(events) /\ order[n] \in 1..Len(events)
    BY <1>8
  <2>3. events[order[m]].id \in Nat /\ events[order[n]].id \in Nat
    BY <2>2, EventFields
  <2>4. ~(order[m] < order[n]) /\ ~(order[n] < order[m])
    BY <2>1, <2>2, <2>3 DEF Collected
  <2>5. order[m] = order[n]
    BY <1>2, <2>2, <2>4
  <2> QED
    BY <1>6, <2>5
<1>13. ASSUME NEW m \in 1..c PROVE s[m].uid = u /\ s[m] \in ToSet(events)
  BY <1>2, <1>8, <1>9 DEF ToSet
<1>14. ASSUME NEW e \in ToSet(events), e.uid = u PROVE \E m \in 1..c : s[m] = e
  <2>1. PICK i \in I : events[i] = e
    BY <1>14 DEF ToSet
  <2> QED
    BY <1>7, <1>9, <2>1
<1> HIDE DEF s
<1> QED
  BY <1>1, <1>10, <1>11, <1>12, <1>13, <1>14 DEF IsSorting

-----------------------------------------------------------------------------
(* Accessibility: the loop of associate_events. *)

GrantRecords == [id : Nat, uid : Uids, ts : 0..MaxTime, calls : Seq(EventRecords)]
Accumulators == [done : Seq(GrantRecords), open : Seq(GrantRecords)]
EmptyAcc     == [done |-> <<>>, open |-> <<>>]

(* A call is added to the open grant. *)
LEMMA CallAdded ==
  ASSUME NEW acc \in Accumulators, acc.open # <<>>, NEW e \in EventRecords
  PROVE  /\ [acc EXCEPT !.open[1].calls = Append(@, e)] \in Accumulators
         /\ [acc EXCEPT !.open[1].calls = Append(@, e)].done = acc.done
         /\ LET open == [acc EXCEPT !.open[1].calls = Append(@, e)].open
            IN  /\ Len(open) = Len(acc.open)
                /\ open[1].id = acc.open[1].id /\ open[1].uid = acc.open[1].uid
                /\ open[1].ts = acc.open[1].ts
                /\ open[1].calls = Append(acc.open[1].calls, e)
<1> DEFINE g == acc.open[1]
           h == [g EXCEPT !.calls = Append(g.calls, e)]
           o == [acc.open EXCEPT ![1] = h]
<1>1. acc.done \in Seq(GrantRecords) /\ acc.open \in Seq(GrantRecords)
  BY DEF Accumulators
<1>2. 1 \in 1..Len(acc.open) /\ g \in GrantRecords
  BY <1>1
<1>3. g.calls \in Seq(EventRecords)
  BY <1>2 DEF GrantRecords
<1>4. /\ h \in GrantRecords /\ h.id = g.id /\ h.uid = g.uid /\ h.ts = g.ts
      /\ h.calls = Append(g.calls, e)
  <2>1. Append(g.calls, e) \in Seq(EventRecords)
    BY <1>3
  <2> HIDE DEF g
  <2> QED
    BY <1>2, <2>1 DEF GrantRecords
<1>5. [acc EXCEPT !.open[1].calls = Append(@, e)] = [acc EXCEPT !.open = o]
  OBVIOUS
<1> HIDE DEF g, h
<1>6. o \in Seq(GrantRecords) /\ Len(o) = Len(acc.open) /\ o[1] = h
  BY <1>1, <1>2, <1>4
<1> HIDE DEF o
<1>7. /\ [acc EXCEPT !.open = o] \in Accumulators /\ [acc EXCEPT !.open = o].done = acc.done
      /\ [acc EXCEPT !.open = o].open = o
  BY <1>6 DEF Accumulators
<1> QED
  BY <1>4, <1>5, <1>6, <1>7 DEF g

LEMMA NewGrant ==
  ASSUME NEW acc \in Accumulators, NEW e \in EventRecords, e.kind = "grant"
  PROVE  /\ Associate(acc, e) \in Accumulators
         /\ Associate(acc, e).done = acc.done \o acc.open
         /\ Len(Associate(acc, e).open) = 1
         /\ Associate(acc, e).open[1]
              = [id |-> e.id, uid |-> e.uid, ts |-> e.ts, calls |-> <<>>]
<1> DEFINE g == [id |-> e.id, uid |-> e.uid, ts |-> e.ts, calls |-> <<>>]
<1>1. g \in GrantRecords
  BY DEF EventRecords, GrantRecords
<1>2. Associate(acc, e) = [done |-> acc.done \o acc.open, open |-> <<g>>]
  BY DEF Associate
<1> HIDE DEF g
<1>3. acc.done \o acc.open \in Seq(GrantRecords) /\ <<g>> \in Seq(GrantRecords)
      /\ Len(<<g>>) = 1 /\ <<g>>[1] = g
  BY <1>1 DEF Accumulators
<1> QED
  BY <1>2, <1>3 DEF Accumulators, g

LEMMA AssociateType ==
  ASSUME NEW acc \in Accumulators, NEW e \in EventRecords
  PROVE  Associate(acc, e) \in Accumulators
<1>1. CASE e.kind = "grant"
  BY <1>1, NewGrant
<1>2. CASE e.kind # "grant"
  BY <1>2, CallAdded DEF Associate
<1> QED
  BY <1>1, <1>2

Fold(s) == FoldLeft(Associate, EmptyAcc, s)

(* The accumulators on the way. *)
LEMMA AssociateLoop ==
  ASSUME NEW s \in Seq(EventRecords)
  PROVE  \E h \in [0..Len(s) -> Accumulators] :
            /\ h[0] = EmptyAcc
            /\ \A k \in 1..Len(s) : h[k] = Associate(h[k - 1], s[k])
            /\ Fold(s) = h[Len(s)]
<1> DEFINE n == Len(s)
           A == Accumulators
           G == [i \in 1..n |-> [acc \in A |-> Associate(acc, s[i])]]
           it == CHOOSE iter : iter = [x \in SUBSET (1..n) |->
                     IF x = {} THEN EmptyAcc ELSE Associate(iter[x \ {Max(x)}], s[Max(x)])]
<1>1. n \in Nat /\ DOMAIN s = 1..n /\ \A i \in 1..n : s[i] \in EventRecords
  OBVIOUS
<1>2. Fold(s) = it[1..n]
  <2>1. Fold(s) = (CHOOSE iter : iter = [x \in SUBSET (DOMAIN s) |->
                      IF x = {} THEN EmptyAcc
                      ELSE Associate(iter[x \ {Max(x)}], s[Max(x)])])[DOMAIN s]
    BY DEF Fold, FoldLeft, MapThenFoldSet
  <2> QED
    BY <1>1, <2>1
<1>3. EmptyAcc \in A
  BY DEF EmptyAcc, Accumulators
<1>4. G \in [1..n -> [A -> A]]
  <2>1. \A i \in 1..n : \A acc \in A : Associate(acc, s[i]) \in A
    BY <1>1, AssociateType
  <2> HIDE DEF A
  <2> QED
    BY <2>1
<1> HIDE DEF A
<1>5. PICK f \in [SUBSET (1..n) -> A] : FoldsAlong(f, n, EmptyAcc, G)
  <2>1. CanFold(n, A, EmptyAcc, G)
    <3> HIDE DEF G
    <3> QED
      BY <1>1, <1>3, <1>4, FoldExists
  <2> QED
    BY <2>1 DEF CanFold
<1>6. ASSUME NEW x \in SUBSET (1..n), x # {} PROVE Max(x) \in 1..n /\ x \ {Max(x)} \in SUBSET (1..n)
  <2>1. x \in SUBSET (0..n)
    OBVIOUS
  <2> QED
    BY <1>1, <1>6, <2>1, MaxIsGreatest
<1>7. ASSUME NEW x \in SUBSET (1..n)
      PROVE  f[x] = IF x = {} THEN EmptyAcc ELSE Associate(f[x \ {Max(x)}], s[Max(x)])
  <2>1. CASE x = {}
    BY <1>5, <2>1 DEF FoldsAlong
  <2>2. CASE x # {}
    <3>1. f[x] = G[Max(x)][f[x \ {Max(x)}]]
      BY <1>5, <2>2 DEF FoldsAlong
    <3>2. G[Max(x)][f[x \ {Max(x)}]] = Associate(f[x \ {Max(x)}], s[Max(x)])
      BY <1>6, <2>2
    <3> QED
      BY <2>2, <3>1, <3>2
  <2> QED
    BY <2>1, <2>2
<1> HIDE DEF G
<1>8. f = [x \in SUBSET (1..n) |->
              IF x = {} THEN EmptyAcc ELSE Associate(f[x \ {Max(x)}], s[Max(x)])]
  BY <1>7
<1>9. it = [x \in SUBSET (1..n) |->
               IF x = {} THEN EmptyAcc ELSE Associate(it[x \ {Max(x)}], s[Max(x)])]
  BY <1>8
<1> HIDE DEF it
<1>10. /\ it[{}] = EmptyAcc
       /\ \A x \in SUBSET (1..n) : x # {} => it[x] = Associate(it[x \ {Max(x)}], s[Max(x)])
  BY <1>9
<1> DEFINE h == [k \in 0..n |-> it[1..k]]
<1>11. h[0] = EmptyAcc
  <2>1. 1..0 = {} /\ 0 \in 0..n
    BY <1>1
  <2> QED
    BY <1>10, <2>1
<1>12. ASSUME NEW k \in 1..n PROVE h[k] = Associate(h[k - 1], s[k])
  <2>1. k \in Nat /\ k > 0 /\ 1..k \in SUBSET (1..n) /\ k \in 0..n /\ k - 1 \in 0..n
    BY <1>1
  <2>2. Max(1..k) = k /\ (1..k) \ {k} = 1..(k - 1) /\ 1..k # {}
    BY <2>1, FoldStep
  <2>3. it[1..k] = Associate(it[1..(k - 1)], s[k])
    BY <1>10, <2>1, <2>2
  <2> QED
    BY <2>1, <2>3
<1>13. h \in [0..n -> A]
  <2> DEFINE S == {k \in Nat : k <= n => h[k] \in A}
  <2>1. 0 \in S
    BY <1>3, <1>11
  <2>2. ASSUME NEW k \in Nat, k \in S PROVE k + 1 \in S
    <3> SUFFICES ASSUME k + 1 <= n PROVE h[k + 1] \in A
      OBVIOUS
    <3>1. PICK i : i = k + 1
      OBVIOUS
    <3>2. i \in 1..n /\ i - 1 = k /\ h[k] \in A
      BY <1>1, <2>2, <3>1
    <3>3. h[i] = Associate(h[i - 1], s[i])
      BY <1>12, <3>2
    <3>4. s[i] \in EventRecords
      BY <1>1, <3>2
    <3> HIDE DEF h
    <3> QED
      BY <3>1, <3>2, <3>3, <3>4, AssociateType DEF A
  <2>3. \A k \in Nat : k \in S
    <3> HIDE DEF S
    <3> QED
      BY <2>1, <2>2, NatInd
  <2>4. ASSUME NEW k \in 0..n PROVE h[k] \in A
    <3> HIDE DEF h
    <3>1. k \in Nat /\ k <= n
      BY <1>1
    <3>2. k \in S
      BY <2>3, <3>1
    <3> QED
      BY <3>1, <3>2
  <2> QED
    BY <2>4
<1>14. Fold(s) = h[n]
  BY <1>1, <1>2
<1> HIDE DEF h
<1> QED
  BY <1>11, <1>12, <1>13, <1>14 DEF A

-----------------------------------------------------------------------------
(* Accessibility: which calls a grant gets. *)

IsGrant(s, p) == s[p].kind = "grant"

(* The calls after grant p, among the first k events, that belong to it: in *)
(* its window and with no other grant in between.                           *)
Belongs(s, p, q) ==
    /\ s[q].kind = "call" /\ InWindow(s[p], s[q])
    /\ \A r \in (p + 1)..(q - 1) : ~IsGrant(s, r)

CallsUpTo(s, p, k) == {q \in (p + 1)..k : Belongs(s, p, q)}

(* g is the grant of event p, with its calls. *)
GrantOf(s, g, p, k) ==
    /\ g \in GrantRecords /\ IsGrant(s, p)
    /\ g.id = s[p].id /\ g.uid = s[p].uid /\ g.ts = s[p].ts
    /\ \A c : c \in ToSet(g.calls) <=> \E q \in CallsUpTo(s, p, k) : c = s[q]

(* After k events: the grants before the last one are done, the last one is *)
(* open, and each has its calls.                                            *)
DoneOK(s, acc, k) ==
    \A m \in 1..Len(acc.done) :
        \E p \in 1..k : GrantOf(s, acc.done[m], p, k) /\ \E r \in (p + 1)..k : IsGrant(s, r)

OpenOK(s, acc, k) ==
    /\ acc.open = <<>> => \A p \in 1..k : ~IsGrant(s, p)
    /\ acc.open # <<>> =>
           /\ Len(acc.open) = 1
           /\ \E p \in 1..k : /\ GrantOf(s, acc.open[1], p, k)
                              /\ \A r \in (p + 1)..k : ~IsGrant(s, r)

(* Each grant is there once. *)
OnceOK(s, acc, k) ==
    LET all == AllGrants(acc)
    IN  /\ \A p \in 1..k : IsGrant(s, p) => \E m \in 1..Len(all) : all[m].id = s[p].id
        /\ \A m, n \in 1..Len(all) : all[m].id = all[n].id => m = n

(* Event k + 1 is no call of grant p: it has the calls it had. *)
LEMMA CallsStay ==
  ASSUME NEW s \in Seq(EventRecords), NEW k \in Nat, k + 1 <= Len(s), NEW p \in 1..k, NEW g,
         GrantOf(s, g, p, k), ~Belongs(s, p, k + 1)
  PROVE  GrantOf(s, g, p, k + 1)
<1>1. CallsUpTo(s, p, k + 1) = CallsUpTo(s, p, k)
  <2>1. \A q \in (p + 1)..(k + 1) : q = k + 1 \/ q \in (p + 1)..k
    OBVIOUS
  <2>2. \A q \in (p + 1)..k : q \in (p + 1)..(k + 1)
    OBVIOUS
  <2> QED
    BY <2>1, <2>2 DEF CallsUpTo
<1> QED
  BY <1>1 DEF GrantOf

(* Event k + 1 is a call of the open grant. *)
LEMMA CallsGrow ==
  ASSUME NEW s \in Seq(EventRecords), NEW k \in Nat, k + 1 <= Len(s), NEW p \in 1..k,
         NEW g, GrantOf(s, g, p, k), Belongs(s, p, k + 1),
         NEW h \in GrantRecords, h.id = g.id, h.uid = g.uid, h.ts = g.ts,
         h.calls = Append(g.calls, s[k + 1])
  PROVE  GrantOf(s, h, p, k + 1)
<1>1. \A q : q \in CallsUpTo(s, p, k + 1) <=> q \in CallsUpTo(s, p, k) \/ q = k + 1
  <2>1. \A q \in (p + 1)..(k + 1) : q = k + 1 \/ q \in (p + 1)..k
    OBVIOUS
  <2>2. (\A q \in (p + 1)..k : q \in (p + 1)..(k + 1)) /\ k + 1 \in (p + 1)..(k + 1)
    OBVIOUS
  <2> QED
    BY <2>1, <2>2 DEF CallsUpTo
<1>2. \A c : c \in ToSet(h.calls) <=> c \in ToSet(g.calls) \/ c = s[k + 1]
  <2>1. g.calls \in Seq(EventRecords) /\ s[k + 1] \in EventRecords
    BY DEF GrantOf, GrantRecords
  <2> DEFINE a == g.calls
             e == s[k + 1]
             b == Append(a, e)
  <2>2. Len(a) \in Nat /\ DOMAIN a = 1..Len(a) /\ DOMAIN b = 1..(Len(a) + 1)
        /\ (\A i \in 1..Len(a) : b[i] = a[i]) /\ b[Len(a) + 1] = e
    BY <2>1
  <2> HIDE DEF a, e, b
  <2>3. \A i \in 1..(Len(a) + 1) : i \in 1..Len(a) \/ i = Len(a) + 1
    BY <2>2
  <2>4. (\A i \in 1..Len(a) : i \in 1..(Len(a) + 1)) /\ Len(a) + 1 \in 1..(Len(a) + 1)
    BY <2>2
  <2>5. \A c : c \in ToSet(b) <=> c \in ToSet(a) \/ c = e
    BY <2>2, <2>3, <2>4 DEF ToSet
  <2> QED
    BY <2>5 DEF a, e, b
<1>3. \A c : c \in ToSet(h.calls) <=> \E q \in CallsUpTo(s, p, k + 1) : c = s[q]
  BY <1>1, <1>2 DEF GrantOf
<1> QED
  BY <1>3 DEF GrantOf

Associated(s, acc, k) ==
    acc \in Accumulators /\ DoneOK(s, acc, k) /\ OpenOK(s, acc, k) /\ OnceOK(s, acc, k)

(* The grants known: those done and then the open one. *)
LEMMA GrantsKnown ==
  ASSUME NEW s \in Seq(EventRecords), NEW k \in Nat, NEW acc, Associated(s, acc, k)
  PROVE  /\ AllGrants(acc) \in Seq(GrantRecords)
         /\ acc.done \in Seq(GrantRecords) /\ acc.open \in Seq(GrantRecords)
         /\ Len(AllGrants(acc)) = Len(acc.done) + Len(acc.open)
         /\ acc.open # <<>> => Len(acc.open) = 1
         /\ \A m \in 1..Len(acc.done) : AllGrants(acc)[m] = acc.done[m]
         /\ acc.open # <<>> => AllGrants(acc)[Len(acc.done) + 1] = acc.open[1]
         /\ \A m \in 1..Len(AllGrants(acc)) :
                m \in 1..Len(acc.done) \/ (acc.open # <<>> /\ m = Len(acc.done) + 1)
         /\ \A m \in 1..Len(AllGrants(acc)) : \E p \in 1..k : GrantOf(s, AllGrants(acc)[m], p, k)
<1> DEFINE all == AllGrants(acc)
<1>1. acc.done \in Seq(GrantRecords) /\ acc.open \in Seq(GrantRecords)
  BY DEF Associated, Accumulators
<1>2. IsSeq(acc.done) /\ IsSeq(acc.open) /\ Len(acc.done) \in Nat /\ Len(acc.open) \in Nat
      /\ (acc.open = <<>> <=> Len(acc.open) = 0)
  BY <1>1 DEF IsSeq
<1>3. acc.open # <<>> => Len(acc.open) = 1
  BY DEF Associated, OpenOK
<1>4. all \in Seq(GrantRecords) /\ Len(all) = Len(acc.done) + Len(acc.open)
  BY <1>1 DEF AllGrants
<1>5. /\ \A i \in 1..Len(acc.done) : all[i] = acc.done[i]
      /\ \A j \in 1..Len(acc.open) : all[Len(acc.done) + j] = acc.open[j]
      /\ \A i \in 1..Len(all) : i \in 1..Len(acc.done)
                                   \/ \E j \in 1..Len(acc.open) : i = Len(acc.done) + j
  <2>1. PICK a, b : a = acc.done /\ b = acc.open
    OBVIOUS
  <2>2. IsSeq(a) /\ IsSeq(b) /\ all = a \o b
    BY <1>2, <2>1 DEF AllGrants
  <2>3. /\ \A i \in 1..Len(a) : i \in 1..Len(a \o b) /\ (a \o b)[i] = a[i]
        /\ \A j \in 1..Len(b) : Len(a) + j \in 1..Len(a \o b) /\ (a \o b)[Len(a) + j] = b[j]
        /\ \A i \in 1..Len(a \o b) : i \in 1..Len(a) \/ \E j \in 1..Len(b) : i = Len(a) + j
    BY <2>2, ConcatParts
  <2> QED
    BY <2>1, <2>2, <2>3, ZenonT(40)
<1> HIDE DEF all
<1>6. ASSUME acc.open # <<>> PROVE all[Len(acc.done) + 1] = acc.open[1]
  <2>1. 1 \in 1..Len(acc.open)
    BY <1>3, <1>6
  <2> QED
    BY <1>5, <2>1
<1>7. ASSUME NEW m \in 1..Len(all), m \notin 1..Len(acc.done)
      PROVE  acc.open # <<>> /\ m = Len(acc.done) + 1
  <2>1. PICK j \in 1..Len(acc.open) : m = Len(acc.done) + j
    BY <1>5, <1>7
  <2>2. acc.open # <<>>
    BY <1>2, <2>1
  <2>3. j = 1
    <3>1. Len(acc.open) = 1
      BY <1>3, <2>2
    <3>2. j \in 1..1
      BY <2>1, <3>1
    <3> QED
      BY <3>2
  <2> QED
    BY <2>1, <2>2, <2>3
<1>8. ASSUME NEW m \in 1..Len(all) PROVE \E p \in 1..k : GrantOf(s, all[m], p, k)
  <2>1. CASE m \in 1..Len(acc.done)
    BY <1>5, <2>1 DEF Associated, DoneOK
  <2>2. CASE acc.open # <<>> /\ m = Len(acc.done) + 1
    BY <1>6, <2>2 DEF Associated, OpenOK
  <2> QED
    BY <1>7, <2>1, <2>2
<1> QED
  BY <1>1, <1>3, <1>4, <1>5, <1>6, <1>7, <1>8 DEF all

(* A grant follows: the open one is done. *)
LEMMA GrantFollows ==
  ASSUME NEW s \in Seq(EventRecords), NEW k \in Nat, k + 1 <= Len(s), NEW acc,
         \A m, n \in 1..Len(s) : s[m].id = s[n].id => m = n,
         Associated(s, acc, k), IsGrant(s, k + 1)
  PROVE  Associated(s, Associate(acc, s[k + 1]), k + 1)
<1> DEFINE e == s[k + 1]
           new == Associate(acc, e)
           all == AllGrants(acc)
           g == [id |-> e.id, uid |-> e.uid, ts |-> e.ts, calls |-> <<>>]
<1>1. e \in EventRecords /\ acc \in Accumulators /\ e.kind = "grant"
  BY DEF Associated, IsGrant
<1>2. new \in Accumulators /\ new.done = all /\ Len(new.open) = 1 /\ new.open[1] = g
  BY <1>1, NewGrant DEF AllGrants
<1>3. all \in Seq(GrantRecords) /\ \A m \in 1..Len(all) : \E p \in 1..k : GrantOf(s, all[m], p, k)
  BY GrantsKnown
<1>4. \A p \in 1..k : ~Belongs(s, p, k + 1)
  BY <1>1 DEF Belongs
<1>5. g \in GrantRecords /\ g.id = e.id /\ g.uid = e.uid /\ g.ts = e.ts /\ g.calls = <<>>
  BY <1>1 DEF EventRecords, GrantRecords
<1> HIDE DEF new, all, g
<1>6. GrantOf(s, g, k + 1, k + 1)
  <2>1. CallsUpTo(s, k + 1, k + 1) = {}
    <3>1. ((k + 1) + 1)..(k + 1) = {}
      OBVIOUS
    <3> QED
      BY <3>1 DEF CallsUpTo
  <2>2. ToSet(g.calls) = {}
    BY <1>5 DEF ToSet
  <2> QED
    BY <1>5, <2>1, <2>2 DEF GrantOf
<1>7. DoneOK(s, new, k + 1)
  <2> SUFFICES ASSUME NEW m \in 1..Len(all)
               PROVE  \E p \in 1..(k + 1) : /\ GrantOf(s, all[m], p, k + 1)
                                            /\ \E r \in (p + 1)..(k + 1) : IsGrant(s, r)
    BY <1>2 DEF DoneOK
  <2>1. PICK p \in 1..k : GrantOf(s, all[m], p, k)
    BY <1>3
  <2>2. GrantOf(s, all[m], p, k + 1)
    BY <1>4, <2>1, CallsStay
  <2>3. p \in 1..(k + 1) /\ k + 1 \in (p + 1)..(k + 1)
    OBVIOUS
  <2> QED
    BY <2>2, <2>3
<1>8. OpenOK(s, new, k + 1)
  <2>1. new.open # <<>>
    BY <1>2
  <2>2. k + 1 \in 1..(k + 1) /\ ((k + 1) + 1)..(k + 1) = {}
    OBVIOUS
  <2> QED
    BY <1>2, <1>6, <2>1, <2>2 DEF OpenOK
<1>9. OnceOK(s, new, k + 1)
  <2> DEFINE whole == AllGrants(new)
  <2>1. /\ Len(whole) = Len(all) + 1 /\ Len(all) \in Nat
        /\ \A m \in 1..Len(all) : whole[m] = all[m]
        /\ whole[Len(all) + 1] = g
    <3>1. IsSeq(all) /\ Len(all) \in Nat
      BY <1>3 DEF IsSeq
    <3>2. IsSeq(new.open)
      BY <1>2 DEF Accumulators, IsSeq
    <3>3. whole = all \o new.open
      BY <1>2 DEF AllGrants
    <3>4. Len(whole) = Len(all) + 1
      <4>1. Len(whole) = Len(all) + Len(new.open)
        BY <3>1, <3>2, <3>3, ConcatIsSeq
      <4> QED
        BY <1>2, <4>1
    <3>5. \A m \in 1..Len(all) : whole[m] = all[m]
      BY <3>1, <3>2, <3>3, ConcatParts
    <3>6. whole[Len(all) + 1] = new.open[1]
      <4>1. 1 \in 1..Len(new.open)
        BY <1>2
      <4> QED
        BY <3>1, <3>2, <3>3, <4>1, ConcatParts
    <3> QED
      BY <1>2, <3>1, <3>4, <3>5, <3>6
  <2> HIDE DEF whole
  <2>2. ASSUME NEW p \in 1..(k + 1), IsGrant(s, p)
        PROVE  \E m \in 1..Len(whole) : whole[m].id = s[p].id
    <3>1. CASE p \in 1..k
      <4>1. PICK m \in 1..Len(all) : all[m].id = s[p].id
        BY <2>2, <3>1 DEF Associated, OnceOK, all
      <4> QED
        BY <2>1, <4>1
    <3>2. CASE p = k + 1
      <4>1. Len(all) + 1 \in 1..Len(whole)
        BY <2>1
      <4> QED
        BY <1>5, <2>1, <3>2, <4>1
    <3> QED
      BY <3>1, <3>2
  <2>3. ASSUME NEW m \in 1..Len(all) PROVE all[m].id # g.id
    <3>1. PICK p \in 1..k : GrantOf(s, all[m], p, k)
      BY <1>3
    <3>2. all[m].id = s[p].id /\ p \in 1..Len(s) /\ k + 1 \in 1..Len(s) /\ p # k + 1
      BY <3>1 DEF GrantOf
    <3> QED
      BY <1>5, <3>2
  <2>4. ASSUME NEW m \in 1..Len(whole), NEW n \in 1..Len(whole), whole[m].id = whole[n].id
        PROVE  m = n
    <3>1. \A i \in 1..Len(whole) : i \in 1..Len(all) \/ i = Len(all) + 1
      BY <2>1
    <3>2. CASE m \in 1..Len(all) /\ n \in 1..Len(all)
      <4>1. all[m].id = all[n].id
        BY <2>1, <2>4, <3>2
      <4> QED
        BY <3>2, <4>1 DEF Associated, OnceOK, all
    <3>3. CASE ~(m \in 1..Len(all) /\ n \in 1..Len(all))
      BY <2>1, <2>3, <2>4, <3>1, <3>3
    <3> QED
      BY <3>2, <3>3
  <2> QED
    BY <2>2, <2>4 DEF OnceOK, whole
<1> QED
  BY <1>2, <1>7, <1>8, <1>9 DEF Associated, new

(* A grant that is done has another one after it, which takes the calls. *)
LEMMA DoneStays ==
  ASSUME NEW s \in Seq(EventRecords), NEW k \in Nat, k + 1 <= Len(s), NEW acc, DoneOK(s, acc, k),
         NEW new, new.done = acc.done
  PROVE  DoneOK(s, new, k + 1)
<1> SUFFICES ASSUME NEW m \in 1..Len(acc.done)
             PROVE  \E p \in 1..(k + 1) : /\ GrantOf(s, acc.done[m], p, k + 1)
                                          /\ \E r \in (p + 1)..(k + 1) : IsGrant(s, r)
  BY DEF DoneOK
<1>1. PICK p \in 1..k : GrantOf(s, acc.done[m], p, k) /\ \E r \in (p + 1)..k : IsGrant(s, r)
  BY DEF DoneOK
<1>2. PICK r \in (p + 1)..k : IsGrant(s, r)
  BY <1>1
<1>3. r \in (p + 1)..((k + 1) - 1) /\ r \in (p + 1)..(k + 1) /\ p \in 1..(k + 1)
  OBVIOUS
<1>4. ~Belongs(s, p, k + 1)
  BY <1>2, <1>3 DEF Belongs
<1>5. GrantOf(s, acc.done[m], p, k + 1)
  BY <1>1, <1>4, CallsStay
<1> QED
  BY <1>2, <1>3, <1>5

(* No grant follows, and the ids of the grants stay. *)
LEMMA OnceStays ==
  ASSUME NEW s, NEW k \in Nat, NEW acc, OnceOK(s, acc, k), ~IsGrant(s, k + 1), NEW new,
         Len(AllGrants(new)) = Len(AllGrants(acc)),
         \A m \in 1..Len(AllGrants(acc)) : AllGrants(new)[m].id = AllGrants(acc)[m].id
  PROVE  OnceOK(s, new, k + 1)
<1>1. \A p \in 1..(k + 1) : p \in 1..k \/ p = k + 1
  OBVIOUS
<1> QED
  BY <1>1, SMTT(40) DEF OnceOK

(* A call in the window of the open grant. *)
LEMMA CallFollows ==
  ASSUME NEW s \in Seq(EventRecords), NEW k \in Nat, k + 1 <= Len(s), NEW acc,
         Associated(s, acc, k), s[k + 1].kind = "call",
         acc.open # <<>>, InWindow(acc.open[1], s[k + 1])
  PROVE  Associated(s, [acc EXCEPT !.open[1].calls = Append(@, s[k + 1])], k + 1)
<1> DEFINE e == s[k + 1]
           new == [acc EXCEPT !.open[1].calls = Append(@, e)]
<1>1. e \in EventRecords /\ acc \in Accumulators
  BY DEF Associated
<1>2. /\ new \in Accumulators /\ new.done = acc.done /\ Len(new.open) = Len(acc.open)
      /\ new.open[1].id = acc.open[1].id /\ new.open[1].uid = acc.open[1].uid
      /\ new.open[1].ts = acc.open[1].ts
      /\ new.open[1].calls = Append(acc.open[1].calls, e)
  BY <1>1, CallAdded
<1> HIDE DEF new
<1>3. DoneOK(s, new, k + 1)
  BY <1>2, DoneStays DEF Associated
<1>4. PICK p \in 1..k : GrantOf(s, acc.open[1], p, k) /\ \A r \in (p + 1)..k : ~IsGrant(s, r)
  BY DEF Associated, OpenOK
<1>5. Len(new.open) = 1 /\ new.open # <<>> /\ new.open[1] \in GrantRecords
  <2>1. Len(new.open) = 1
    BY <1>2 DEF Associated, OpenOK
  <2>2. new.open \in Seq(GrantRecords)
    BY <1>2 DEF Accumulators
  <2>3. PICK o : o = new.open
    OBVIOUS
  <2>4. Len(o) = 1 /\ o \in Seq(GrantRecords)
    BY <2>1, <2>2, <2>3
  <2>5. o # <<>> /\ o[1] \in GrantRecords
    BY <2>4, SingleElement
  <2> QED
    BY <2>1, <2>3, <2>5
<1>6. Belongs(s, p, k + 1)
  <2>1. InWindow(s[p], s[k + 1])
    BY <1>4 DEF InWindow, GrantOf
  <2>2. \A r \in (p + 1)..((k + 1) - 1) : r \in (p + 1)..k
    OBVIOUS
  <2> QED
    BY <1>4, <2>1, <2>2 DEF Belongs
<1>7. GrantOf(s, new.open[1], p, k + 1)
  BY <1>2, <1>4, <1>5, <1>6, CallsGrow
<1>8. ~IsGrant(s, k + 1)
  BY DEF IsGrant
<1>9. OpenOK(s, new, k + 1)
  <2>1. p \in 1..(k + 1) /\ \A r \in (p + 1)..(k + 1) : r \in (p + 1)..k \/ r = k + 1
    OBVIOUS
  <2> QED
    BY <1>4, <1>5, <1>7, <1>8, <2>1 DEF OpenOK
<1>10. OnceOK(s, new, k + 1)
  <2>1. IsSeq(acc.done) /\ IsSeq(acc.open) /\ IsSeq(new.open)
    BY <1>1, <1>2 DEF Accumulators, IsSeq
  <2>2. PICK d, a, b : d = acc.done /\ a = acc.open /\ b = new.open
    OBVIOUS
  <2>3. IsSeq(d) /\ IsSeq(a) /\ IsSeq(b) /\ AllGrants(acc) = d \o a /\ AllGrants(new) = d \o b
    BY <1>2, <2>1, <2>2 DEF AllGrants
  <2>4. Len(a) = Len(b) /\ Len(b) = 1 /\ a[1].id = b[1].id
    BY <1>2, <1>5, <2>2
  <2>5. Len(d \o a) = Len(d) + Len(a) /\ Len(d \o b) = Len(d) + Len(b)
    BY <2>3, ConcatIsSeq
  <2>6. /\ \A i \in 1..Len(d) : (d \o a)[i] = d[i] /\ (d \o b)[i] = d[i]
        /\ \A j \in 1..Len(a) : (d \o a)[Len(d) + j] = a[j]
        /\ \A j \in 1..Len(b) : (d \o b)[Len(d) + j] = b[j]
        /\ \A i \in 1..Len(d \o a) : i \in 1..Len(d) \/ \E j \in 1..Len(a) : i = Len(d) + j
    BY <2>3, ConcatParts
  <2>7. ASSUME NEW i \in 1..Len(d \o a) PROVE (d \o b)[i].id = (d \o a)[i].id
    <3>1. CASE i \in 1..Len(d)
      BY <2>6, <3>1
    <3>2. CASE i \notin 1..Len(d)
      <4>1. PICK j \in 1..Len(a) : i = Len(d) + j
        BY <2>6, <3>2
      <4>2. j = 1 /\ j \in 1..Len(b)
        BY <2>4
      <4>3. (d \o a)[i] = a[j] /\ (d \o b)[i] = b[j]
        BY <2>6, <4>1, <4>2
      <4> QED
        BY <2>4, <4>2, <4>3
    <3> QED
      BY <3>1, <3>2
  <2>8. /\ Len(AllGrants(new)) = Len(AllGrants(acc))
        /\ \A m \in 1..Len(AllGrants(acc)) : AllGrants(new)[m].id = AllGrants(acc)[m].id
    BY <2>3, <2>4, <2>5, <2>7
  <2> QED
    BY <1>8, <2>8, OnceStays DEF Associated
<1> QED
  BY <1>2, <1>3, <1>9, <1>10 DEF Associated, new

(* A call that belongs to no grant. *)
LEMMA CallIgnored ==
  ASSUME NEW s \in Seq(EventRecords), NEW k \in Nat, k + 1 <= Len(s), NEW acc,
         Associated(s, acc, k), s[k + 1].kind = "call",
         ~(acc.open # <<>> /\ InWindow(acc.open[1], s[k + 1]))
  PROVE  Associated(s, acc, k + 1)
<1>1. ~IsGrant(s, k + 1) /\ acc \in Accumulators
  BY DEF IsGrant, Associated
<1>2. DoneOK(s, acc, k + 1)
  BY DoneStays DEF Associated
<1>3. OnceOK(s, acc, k + 1)
  BY <1>1, OnceStays DEF Associated
<1>4. OpenOK(s, acc, k + 1)
  <2>1. CASE acc.open = <<>>
    <3>1. \A p \in 1..(k + 1) : p \in 1..k \/ p = k + 1
      OBVIOUS
    <3> QED
      BY <1>1, <2>1, <3>1 DEF Associated, OpenOK
  <2>2. CASE acc.open # <<>>
    <3>1. PICK p \in 1..k : GrantOf(s, acc.open[1], p, k) /\ \A r \in (p + 1)..k : ~IsGrant(s, r)
      BY <2>2 DEF Associated, OpenOK
    <3>2. ~Belongs(s, p, k + 1)
      BY <2>2, <3>1 DEF Belongs, InWindow, GrantOf
    <3>3. GrantOf(s, acc.open[1], p, k + 1)
      BY <3>1, <3>2, CallsStay
    <3>4. p \in 1..(k + 1) /\ \A r \in (p + 1)..(k + 1) : r \in (p + 1)..k \/ r = k + 1
      OBVIOUS
    <3> QED
      BY <1>1, <2>2, <3>1, <3>3, <3>4 DEF Associated, OpenOK
  <2> QED
    BY <2>1, <2>2
<1> QED
  BY <1>1, <1>2, <1>3, <1>4 DEF Associated

LEMMA NothingAssociated == ASSUME NEW s PROVE Associated(s, EmptyAcc, 0)
<1>1. EmptyAcc \in Accumulators /\ EmptyAcc.done = <<>> /\ EmptyAcc.open = <<>>
  BY DEF EmptyAcc, Accumulators
<1>2. 1..0 = {} /\ Len(<<>>) = 0
  OBVIOUS
<1>3. AllGrants(EmptyAcc) = <<>>
  <2>1. <<>> \o <<>> = <<>>
    OBVIOUS
  <2> QED
    BY <1>1, <2>1 DEF AllGrants
<1> QED
  BY <1>1, <1>2, <1>3 DEF Associated, DoneOK, OpenOK, OnceOK

(* All events are associated. *)
LEMMA FoldAssociates ==
  ASSUME NEW s \in Seq(EventRecords), \A m, n \in 1..Len(s) : s[m].id = s[n].id => m = n
  PROVE  Associated(s, Fold(s), Len(s))
<1>1. PICK h \in [0..Len(s) -> Accumulators] :
          /\ h[0] = EmptyAcc
          /\ \A k \in 1..Len(s) : h[k] = Associate(h[k - 1], s[k])
          /\ Fold(s) = h[Len(s)]
  BY AssociateLoop
<1> DEFINE S == {k \in Nat : k <= Len(s) => Associated(s, h[k], k)}
<1>2. 0 \in S
  BY <1>1, NothingAssociated
<1>3. ASSUME NEW k \in Nat, k \in S PROVE k + 1 \in S
  <2> SUFFICES ASSUME k + 1 <= Len(s) PROVE Associated(s, h[k + 1], k + 1)
    OBVIOUS
  <2>1. k <= Len(s) /\ k + 1 \in 1..Len(s) /\ s[k + 1] \in EventRecords
    OBVIOUS
  <2>2. Associated(s, h[k], k)
    BY <1>3, <2>1
  <2>3. h[k + 1] = Associate(h[k], s[k + 1])
    <3>1. PICK i : i = k + 1
      OBVIOUS
    <3>2. i \in 1..Len(s) /\ i - 1 = k
      BY <2>1, <3>1
    <3> QED
      BY <1>1, <3>1, <3>2
  <2>4. CASE s[k + 1].kind = "grant"
    BY <2>2, <2>3, <2>4, GrantFollows DEF IsGrant
  <2>5. CASE s[k + 1].kind # "grant"
    <3>1. s[k + 1].kind = "call"
      BY <2>1, <2>5 DEF EventRecords, Kinds
    <3>2. CASE h[k].open # <<>> /\ InWindow(h[k].open[1], s[k + 1])
      <4>1. Associate(h[k], s[k + 1]) = [h[k] EXCEPT !.open[1].calls = Append(@, s[k + 1])]
        BY <2>5, <3>2 DEF Associate
      <4>2. PICK acc : acc = h[k]
        OBVIOUS
      <4>3. Associated(s, [acc EXCEPT !.open[1].calls = Append(@, s[k + 1])], k + 1)
        BY <2>2, <3>1, <3>2, <4>2, CallFollows
      <4> QED
        BY <2>3, <4>1, <4>2, <4>3
    <3>3. CASE ~(h[k].open # <<>> /\ InWindow(h[k].open[1], s[k + 1]))
      <4>1. Associate(h[k], s[k + 1]) = h[k]
        BY <2>5, <3>3 DEF Associate
      <4> QED
        BY <2>2, <2>3, <3>1, <3>3, <4>1, CallIgnored
    <3> QED
      BY <3>2, <3>3
  <2> QED
    BY <2>4, <2>5
<1>4. \A k \in Nat : k \in S
  <2> HIDE DEF S
  <2> QED
    BY <1>2, <1>3, NatInd
<1> QED
  BY <1>1, <1>4

-----------------------------------------------------------------------------
(* Accessibility: the atoms of all uids. *)

(* A grant atom about event i of those collected: its calls are collected   *)
(* calls of the same uid, in the window, with no other grant in between,    *)
(* and they are all the calls whose first later grant is this one.          *)
AtomOK(o) ==
    /\ o = [id |-> o.id, what |-> "grant", fields |-> o.fields]
    /\ o.fields \in GrantRecords /\ o.fields.id = o.id
    /\ \E g \in CollectedGrants : /\ g.id = o.id /\ g.uid = o.fields.uid /\ g.ts = o.fields.ts
    /\ \A c \in ToSet(o.fields.calls) :
           /\ c \in CollectedCalls /\ c.uid = o.fields.uid
           /\ c.ts <= o.fields.ts /\ o.fields.ts - c.ts < Window
           /\ ~\E g \in CollectedGrants : g.uid = c.uid /\ c.ts < g.ts /\ g.ts < o.fields.ts

(* A call whose first later grant is in the window, and no grant at the     *)
(* same time.                                                               *)
IsPreceding(c) ==
    /\ \E g \in FirstLater(c) : g.ts - c.ts < Window
    /\ \A g \in CollectedGrants : g.uid = c.uid => g.ts # c.ts

(* What the grants of uid u are. *)
UidGrants(gs, u) ==
    /\ gs \in Seq(GrantRecords)
    /\ \A m \in 1..Len(gs) : gs[m].uid = u /\ AtomOK([id |-> gs[m].id, what |-> "grant", fields |-> gs[m]])
    /\ \A m, n \in 1..Len(gs) : gs[m].id = gs[n].id => m = n
    /\ \A g \in CollectedGrants : g.uid = u => \E m \in 1..Len(gs) : gs[m].id = g.id
    /\ \A m, n \in 1..Len(gs) : \A c :
           c \in ToSet(gs[m].calls) /\ c \in ToSet(gs[n].calls) => m = n
    /\ \A c \in CollectedCalls : c.uid = u /\ IsPreceding(c) =>
           \E m \in 1..Len(gs), g \in FirstLater(c) : c \in ToSet(gs[m].calls) /\ gs[m].id = g.id

(* Event n of a sorted sequence is one of those collected. *)
LEMMA SortedFields ==
  ASSUME NEW s, NEW u, IsSorting(s, u), NEW n \in 1..Len(s)
  PROVE  /\ s[n] \in EventRecords /\ s[n].id \in Nat /\ s[n].uid = u /\ s[n].uid \in Uids
         /\ s[n].ts \in Nat /\ s[n].ts \in 0..MaxTime /\ s[n].kind \in Kinds
         /\ IsGrant(s, n) => s[n] \in CollectedGrants
         /\ s[n].kind = "call" => s[n] \in CollectedCalls
<1>1. s[n] \in EventRecords
  BY DEF IsSorting
<1>2. MaxTime \in Nat
  BY PollLoopAssumption
<1>3. s[n] \in ToSet(events) /\ s[n].uid = u
  BY DEF IsSorting
<1>4. s[n].ts \in 0..MaxTime /\ s[n].id \in Nat /\ s[n].kind \in Kinds /\ s[n].uid \in Uids
  BY <1>1 DEF EventRecords
<1> QED
  BY <1>1, <1>2, <1>3, <1>4 DEF CollectedGrants, CollectedCalls, IsGrant

(* Later in the sequence is not later in time. *)
LEMMA SortedOrder ==
  ASSUME NEW s, NEW u, IsSorting(s, u), NEW m \in 1..Len(s), NEW n \in 1..Len(s),
         s[m].ts < s[n].ts
  PROVE  n < m
<1>1. s[m].ts \in Nat /\ s[n].ts \in Nat /\ m \in Nat /\ n \in Nat
  <2>1. Len(s) \in Nat
    BY DEF IsSorting
  <2>2. s[m].ts \in Nat /\ s[n].ts \in Nat
    BY SortedFields
  <2> QED
    BY <2>1, <2>2
<1>2. ~(m < n) /\ m # n
  BY <1>1 DEF IsSorting
<1> QED
  BY <1>1, <1>2

LEMMA CallsBelong ==
  ASSUME NEW s, NEW u, IsSorting(s, u), NEW p \in 1..Len(s), IsGrant(s, p),
         NEW q \in (p + 1)..Len(s), Belongs(s, p, q)
  PROVE  /\ s[q] \in CollectedCalls /\ s[q].uid = u
         /\ s[q].ts <= s[p].ts /\ s[p].ts - s[q].ts < Window
         /\ ~\E g \in CollectedGrants : g.uid = s[q].uid /\ s[q].ts < g.ts /\ g.ts < s[p].ts
<1>1. Len(s) \in Nat /\ q \in 1..Len(s) /\ p < q
  <2>1. Len(s) \in Nat
    BY DEF IsSorting
  <2> QED
    BY <2>1
<1>2. s[q].ts \in Nat /\ s[p].ts \in Nat /\ s[q].uid = u /\ s[q] \in CollectedCalls
  BY <1>1, SortedFields DEF Belongs
<1>3. s[q].ts <= s[p].ts
  BY <1>1, <1>2 DEF IsSorting
<1>4. s[p].ts - s[q].ts < Window
  <2>1. s[p].ts < s[q].ts + Window /\ Window \in Nat
    BY AccessibilityAssumption DEF Belongs, InWindow
  <2> QED
    BY <1>2, <2>1
<1>5. ASSUME NEW g \in CollectedGrants, g.uid = s[q].uid, s[q].ts < g.ts, g.ts < s[p].ts PROVE FALSE
  <2>1. g \in ToSet(events) /\ g.kind = "grant" /\ g.uid = u
    BY <1>2, <1>5 DEF CollectedGrants
  <2>2. PICK r \in 1..Len(s) : s[r] = g
    BY <2>1 DEF IsSorting
  <2>3. r < q /\ p < r
    BY <1>1, <1>5, <2>2, SortedOrder
  <2>4. r \in (p + 1)..(q - 1)
    BY <1>1, <2>3
  <2> QED
    BY <2>1, <2>2, <2>4 DEF Belongs, IsGrant
<1> QED
  BY <1>2, <1>3, <1>4, <1>5

(* The last grant met before a call that precedes one is its first later    *)
(* grant.                                                                   *)
LEMMA PrecedingBelongs ==
  ASSUME NEW s, NEW u, IsSorting(s, u), NEW c \in CollectedCalls, c.uid = u, IsPreceding(c)
  PROVE  \E p \in 1..Len(s) : \E q \in (p + 1)..Len(s) :
            IsGrant(s, p) /\ Belongs(s, p, q) /\ s[q] = c /\ s[p] \in FirstLater(c)
<1>1. Len(s) \in Nat
  BY DEF IsSorting
<1>2. PICK q \in 1..Len(s) : s[q] = c
  BY DEF IsSorting, CollectedCalls
<1>3. PICK g \in FirstLater(c) : g.ts - c.ts < Window
  BY DEF IsPreceding
<1>4. g \in LaterGrants(c) /\ g \in CollectedGrants /\ g.uid = u /\ c.ts < g.ts
      /\ \A h \in LaterGrants(c) : g.ts <= h.ts
  BY <1>3 DEF FirstLater, LaterGrants
<1>5. PICK r \in 1..Len(s) : s[r] = g
  BY <1>4 DEF IsSorting, CollectedGrants
<1>6. r < q
  BY <1>2, <1>4, <1>5, SortedOrder
<1> DEFINE P == {p \in 1..(q - 1) : IsGrant(s, p)}
           p == Max(P)
<1>7. P \in SUBSET (0..(q - 1)) /\ r \in P /\ q - 1 \in Nat
  BY <1>1, <1>4, <1>5, <1>6 DEF CollectedGrants, IsGrant
<1>8. p \in P /\ \A m \in P : m <= p
  <2> HIDE DEF P
  <2> QED
    BY <1>7, MaxIsGreatest
<1>9. p \in 1..Len(s) /\ p < q /\ IsGrant(s, p) /\ r <= p /\ q \in (p + 1)..Len(s)
  <2>1. p \in 1..(q - 1) /\ IsGrant(s, p) /\ r <= p
    BY <1>7, <1>8
  <2> HIDE DEF p
  <2> QED
    BY <1>1, <2>1
<1>10. \A m \in (p + 1)..(q - 1) : ~IsGrant(s, m)
  <2> SUFFICES ASSUME NEW m \in (p + 1)..(q - 1), IsGrant(s, m) PROVE FALSE
    OBVIOUS
  <2>1. p \in Nat
    BY <1>9
  <2>2. m \in P
    <3> HIDE DEF p
    <3> QED
      BY <1>7, <1>9, <2>1
  <2>3. m <= p
    BY <1>8, <2>2
  <2> HIDE DEF p
  <2> QED
    BY <2>1, <2>3
<1> HIDE DEF p
<1>11. /\ s[p].ts \in Nat /\ s[q].ts \in Nat /\ s[r].ts \in Nat /\ s[p].uid = u
       /\ s[p] \in CollectedGrants /\ s[q].kind = "call"
  <2>1. s[q].kind = "call"
    BY <1>2 DEF CollectedCalls
  <2> QED
    BY <1>2, <1>5, <1>9, <2>1, SortedFields
<1>12. s[p].ts > c.ts
  <2>1. s[p].ts >= s[q].ts
    BY <1>2, <1>9 DEF IsSorting
  <2>2. s[p].ts # c.ts
    BY <1>11 DEF IsPreceding
  <2> QED
    BY <1>2, <1>11, <2>1, <2>2
<1>13. s[p] \in LaterGrants(c)
  BY <1>11, <1>12 DEF LaterGrants
<1>14. s[p].ts = g.ts
  <2>1. g.ts <= s[p].ts
    BY <1>4, <1>13
  <2>2. s[p].ts <= s[r].ts
    <3>1. r = p \/ r < p
      BY <1>9
    <3> QED
      BY <1>5, <1>9, <1>11, <3>1 DEF IsSorting
  <2> QED
    BY <1>5, <1>11, <2>1, <2>2
<1>15. s[p] \in FirstLater(c)
  BY <1>4, <1>13, <1>14 DEF FirstLater
<1>16. InWindow(s[p], s[q])
  <2>1. Window \in Nat
    BY AccessibilityAssumption
  <2> QED
    BY <1>2, <1>3, <1>11, <1>14, <2>1 DEF InWindow
<1>17. Belongs(s, p, q)
  BY <1>10, <1>11, <1>16 DEF Belongs
<1> QED
  BY <1>2, <1>9, <1>15, <1>17

(* Two grants with the same call are the same. *)
LEMMA CallOnce ==
  ASSUME NEW s, NEW u, IsSorting(s, u), NEW p \in 1..Len(s), NEW r \in 1..Len(s), IsGrant(s, p),
         IsGrant(s, r), NEW q \in (p + 1)..Len(s), NEW t \in (r + 1)..Len(s),
         Belongs(s, p, q), Belongs(s, r, t), s[q] = s[t]
  PROVE  p = r
<1>1. Len(s) \in Nat
  BY DEF IsSorting
<1>2. p \in Nat /\ r \in Nat /\ q \in 1..Len(s) /\ t \in 1..Len(s) /\ p < q /\ r < t
  BY <1>1
<1>3. q = t
  BY <1>2 DEF IsSorting
<1>4. CASE p < r
  <2>1. r \in (p + 1)..(q - 1)
    BY <1>2, <1>3, <1>4
  <2> QED
    BY <2>1 DEF Belongs
<1>5. CASE r < p
  <2>1. p \in (r + 1)..(t - 1)
    BY <1>2, <1>3, <1>5
  <2> QED
    BY <2>1 DEF Belongs
<1> QED
  BY <1>2, <1>4, <1>5

(* What associate_events returns. *)
LEMMA UidGrantsOK == ASSUME Collected, NEW u PROVE UidGrants(AssociateEvents(u), u)
<1>1. PICK s : s = Sorted(u)
  OBVIOUS
<1>2. IsSorting(s, u)
  BY <1>1, SortedIsSorting
<1>3. s \in Seq(EventRecords) /\ Len(s) \in Nat /\ \A m, n \in 1..Len(s) : s[m].id = s[n].id => m = n
  BY <1>2 DEF IsSorting
<1>4. PICK acc : acc = Fold(s)
  OBVIOUS
<1>5. Associated(s, acc, Len(s))
  BY <1>3, <1>4, FoldAssociates
<1>6. PICK gs : gs = AllGrants(acc)
  OBVIOUS
<1>7. AssociateEvents(u) = gs
  BY <1>1, <1>4, <1>6 DEF AssociateEvents, Fold, EmptyAcc
<1>8. /\ gs \in Seq(GrantRecords)
      /\ \A m \in 1..Len(gs) : \E p \in 1..Len(s) : GrantOf(s, gs[m], p, Len(s))
  BY <1>3, <1>5, <1>6, GrantsKnown
<1>9. /\ \A p \in 1..Len(s) : IsGrant(s, p) => \E m \in 1..Len(gs) : gs[m].id = s[p].id
      /\ \A m, n \in 1..Len(gs) : gs[m].id = gs[n].id => m = n
  BY <1>5, <1>6 DEF Associated, OnceOK
<1>10. ASSUME NEW g, NEW p \in 1..Len(s), GrantOf(s, g, p, Len(s)), NEW c
       PROVE  c \in ToSet(g.calls) <=> \E q \in (p + 1)..Len(s) : Belongs(s, p, q) /\ c = s[q]
  BY <1>10 DEF GrantOf, CallsUpTo
<1>11. ASSUME NEW m \in 1..Len(gs)
       PROVE  gs[m].uid = u /\ AtomOK([id |-> gs[m].id, what |-> "grant", fields |-> gs[m]])
  <2>1. PICK p \in 1..Len(s) : GrantOf(s, gs[m], p, Len(s))
    BY <1>8
  <2>2. PICK g : g = gs[m]
    OBVIOUS
  <2>3. g \in GrantRecords /\ IsGrant(s, p) /\ g.id = s[p].id /\ g.uid = s[p].uid /\ g.ts = s[p].ts
    BY <2>1, <2>2 DEF GrantOf
  <2>4. s[p] \in CollectedGrants /\ s[p].uid = u
    BY <1>2, <2>3, SortedFields
  <2>5. ASSUME NEW c \in ToSet(g.calls)
        PROVE  /\ c \in CollectedCalls /\ c.uid = g.uid /\ c.ts <= g.ts /\ g.ts - c.ts < Window
               /\ ~\E h \in CollectedGrants : h.uid = c.uid /\ c.ts < h.ts /\ h.ts < g.ts
    <3>1. PICK q \in (p + 1)..Len(s) : Belongs(s, p, q) /\ c = s[q]
      BY <1>10, <2>1, <2>2
    <3>2. /\ s[q] \in CollectedCalls /\ s[q].uid = u
          /\ s[q].ts <= s[p].ts /\ s[p].ts - s[q].ts < Window
          /\ ~\E h \in CollectedGrants : h.uid = s[q].uid /\ s[q].ts < h.ts /\ h.ts < s[p].ts
      BY <1>2, <2>3, <3>1, CallsBelong
    <3> QED
      BY <2>3, <2>4, <3>1, <3>2
  <2>6. PICK o : o = [id |-> g.id, what |-> "grant", fields |-> g]
    OBVIOUS
  <2>7. o.id = g.id /\ o.fields = g /\ o = [id |-> o.id, what |-> "grant", fields |-> o.fields]
    BY <2>6
  <2>8. AtomOK(o)
    BY <2>3, <2>4, <2>5, <2>7 DEF AtomOK
  <2> QED
    BY <2>2, <2>3, <2>4, <2>6, <2>8
<1>12. ASSUME NEW g \in CollectedGrants, g.uid = u PROVE \E m \in 1..Len(gs) : gs[m].id = g.id
  <2>1. PICK p \in 1..Len(s) : s[p] = g
    BY <1>2, <1>12 DEF IsSorting, CollectedGrants
  <2>2. IsGrant(s, p)
    BY <2>1 DEF CollectedGrants, IsGrant
  <2> QED
    BY <1>9, <2>1, <2>2
<1>13. ASSUME NEW m \in 1..Len(gs), NEW n \in 1..Len(gs), NEW c,
              c \in ToSet(gs[m].calls), c \in ToSet(gs[n].calls)
       PROVE  m = n
  <2>1. PICK p \in 1..Len(s) : GrantOf(s, gs[m], p, Len(s))
    BY <1>8
  <2>2. PICK r \in 1..Len(s) : GrantOf(s, gs[n], r, Len(s))
    BY <1>8
  <2>3. PICK q \in (p + 1)..Len(s) : Belongs(s, p, q) /\ c = s[q]
    <3>1. PICK g : g = gs[m]
      OBVIOUS
    <3>2. GrantOf(s, g, p, Len(s)) /\ c \in ToSet(g.calls)
      BY <1>13, <2>1, <3>1
    <3> QED
      BY <3>2 DEF GrantOf, CallsUpTo
  <2>4. PICK t \in (r + 1)..Len(s) : Belongs(s, r, t) /\ c = s[t]
    <3>1. PICK g : g = gs[n]
      OBVIOUS
    <3>2. GrantOf(s, g, r, Len(s)) /\ c \in ToSet(g.calls)
      BY <1>13, <2>2, <3>1
    <3> QED
      BY <3>2 DEF GrantOf, CallsUpTo
  <2>5. IsGrant(s, p) /\ IsGrant(s, r) /\ gs[m].id = s[p].id /\ gs[n].id = s[r].id
    BY <2>1, <2>2 DEF GrantOf
  <2>6. p = r
    BY <1>2, <2>3, <2>4, <2>5, CallOnce
  <2> QED
    BY <1>9, <2>5, <2>6
<1>14. ASSUME NEW c \in CollectedCalls, c.uid = u, IsPreceding(c)
       PROVE  \E m \in 1..Len(gs), g \in FirstLater(c) : c \in ToSet(gs[m].calls) /\ gs[m].id = g.id
  <2>1. PICK p \in 1..Len(s) : \E q \in (p + 1)..Len(s) :
            IsGrant(s, p) /\ Belongs(s, p, q) /\ s[q] = c /\ s[p] \in FirstLater(c)
    BY <1>2, <1>14, PrecedingBelongs
  <2>2. PICK q \in (p + 1)..Len(s) :
            IsGrant(s, p) /\ Belongs(s, p, q) /\ s[q] = c /\ s[p] \in FirstLater(c)
    BY <2>1
  <2>3. PICK m \in 1..Len(gs) : gs[m].id = s[p].id
    BY <1>9, <2>2
  <2>4. PICK r \in 1..Len(s) : GrantOf(s, gs[m], r, Len(s))
    BY <1>8
  <2>5. r = p
    BY <1>3, <2>3, <2>4 DEF GrantOf
  <2>6. c \in ToSet(gs[m].calls)
    BY <1>10, <2>2, <2>4, <2>5
  <2> QED
    BY <2>2, <2>3, <2>6
<1>15. UidGrants(gs, u)
  BY <1>8, <1>9, <1>11, <1>12, <1>13, <1>14 DEF UidGrants
<1> QED
  BY <1>7, <1>15

-----------------------------------------------------------------------------
(* Accessibility: the atoms written when the handler finishes. *)

(* Some of the atoms, and all of them. *)
AtomsOK(outs) ==
    /\ IsSeq(outs)
    /\ \A n \in 1..Len(outs) : AtomOK(outs[n])
    /\ \A m, n \in 1..Len(outs) : outs[m].id = outs[n].id => m = n
    /\ \A m, n \in 1..Len(outs) : \A c :
           c \in ToSet(outs[m].fields.calls) /\ c \in ToSet(outs[n].fields.calls) => m = n

AtomsComplete(outs) ==
    /\ \A g \in CollectedGrants : \E n \in 1..Len(outs) : outs[n].id = g.id
    /\ \A c \in CollectedCalls : IsPreceding(c) =>
           \E n \in 1..Len(outs), g \in FirstLater(c) :
               c \in ToSet(outs[n].fields.calls) /\ outs[n].id = g.id

(* An id names one event. *)
LEMMA EventIds ==
  ASSUME Collected, NEW e \in ToSet(events), NEW f \in ToSet(events), e.id = f.id
  PROVE  e = f
<1>1. Len(events) \in Nat /\ DOMAIN events = 1..Len(events)
  BY DEF Collected
<1>2. PICK i \in 1..Len(events) : events[i] = e
  BY <1>1 DEF ToSet
<1>3. PICK j \in 1..Len(events) : events[j] = f
  BY <1>1 DEF ToSet
<1>4. events[i].id \in Nat /\ events[j].id \in Nat /\ events[i].id = events[j].id
  BY <1>2, <1>3, EventFields
<1>5. ~(i < j) /\ ~(j < i)
  BY <1>4 DEF Collected
<1>6. i = j
  BY <1>1, <1>5
<1> QED
  BY <1>2, <1>3, <1>6

(* An order of the uids has each of them once. *)
LEMMA UidOrder ==
  ASSUME NEW order \in SetToSeqs(Uids)
  PROVE  /\ Len(order) \in Nat /\ DOMAIN order = 1..Len(order)
         /\ \A i \in 1..Len(order) : order[i] \in Uids
         /\ \A i, j \in 1..Len(order) : order[i] = order[j] => i = j
         /\ \A u \in Uids : \E i \in 1..Len(order) : order[i] = u
<1> DEFINE c == Cardinality(Uids)
<1>1. IsFiniteSet(Uids) /\ c \in Nat
  BY AccessibilityAssumption, FS_CardinalityType
<1>2. order \in [1..c -> Uids] /\ \A i, j \in 1..c : i # j => order[i] # order[j]
  BY DEF SetToSeqs
<1> HIDE DEF c
<1>3. DOMAIN order = 1..c /\ Len(order) = c
  BY <1>1, <1>2
<1>4. \A u \in Uids : \E n \in 1..c : order[n] = u
  <2>1. IsFiniteSet(1..c) /\ Cardinality(1..c) = c
    <3>1. 1 \in Int /\ c \in Int /\ (IF 1 > c THEN 0 ELSE c - 1 + 1) = c
      BY <1>1
    <3> QED
      BY <3>1, FS_Interval
  <2>2. order \in Injection(1..c, Uids)
    BY <1>2 DEF Injection, IsInjective
  <2>3. order \in Surjection(1..c, Uids)
    BY <1>1, <2>1, <2>2, FS_Injection DEF c
  <2> QED
    BY <2>3 DEF Surjection
<1> QED
  BY <1>1, <1>2, <1>3, <1>4

LEMMA GrantAtomsOK ==
  ASSUME Collected, NEW order \in SetToSeqs(Uids)
  PROVE  AtomsOK(GrantAtoms(order)) /\ AtomsComplete(GrantAtoms(order))
<1>1. /\ Len(order) \in Nat /\ DOMAIN order = 1..Len(order)
      /\ \A i \in 1..Len(order) : order[i] \in Uids
      /\ \A i, j \in 1..Len(order) : order[i] = order[j] => i = j
      /\ \A u \in Uids : \E i \in 1..Len(order) : order[i] = u
  BY UidOrder
<1> DEFINE k == Len(order)
           seqs == [n \in DOMAIN order |-> AssociateEvents(order[n])]
           grants == FlattenSeq(seqs)
           outs == [n \in DOMAIN grants |->
                       [id |-> grants[n].id, what |-> "grant", fields |-> grants[n]]]
<1>2. GrantAtoms(order) = outs
  BY DEF GrantAtoms
<1>3. \A i \in 1..k : UidGrants(seqs[i], order[i])
  <2>1. \A i \in 1..k : seqs[i] = AssociateEvents(order[i])
    BY <1>1
  <2> QED
    BY <2>1, UidGrantsOK
<1>4. IsSeq(seqs) /\ Len(seqs) = k
  <2>1. seqs = [i \in 1..k |-> seqs[i]] /\ k \in Nat
    BY <1>1
  <2> HIDE DEF seqs
  <2> QED
    BY <2>1, FunctionIsSeq
<1> HIDE DEF k, seqs
<1>5. grants \in Seq(GrantRecords) /\ MadeOf(grants, k, seqs)
  <2>1. \A i \in 1..Len(seqs) : seqs[i] \in Seq(GrantRecords)
    BY <1>3, <1>4 DEF UidGrants
  <2> QED
    BY <1>4, <2>1, FlattenMadeOf
<1>6. PICK part, place : ComesFrom(part, place, grants, k, seqs)
  BY <1>5 DEF MadeOf
<1> HIDE DEF grants
<1>7. Len(grants) \in Nat /\ DOMAIN grants = 1..Len(grants)
      /\ \A n \in 1..Len(grants) : grants[n] \in GrantRecords
  BY <1>5
<1>8. IsSeq(outs) /\ Len(outs) = Len(grants)
  <2>1. outs = [n \in 1..Len(grants) |-> outs[n]]
    BY <1>7
  <2> HIDE DEF outs
  <2> QED
    BY <1>7, <2>1, FunctionIsSeq
<1>9. ASSUME NEW n \in 1..Len(grants)
      PROVE  /\ outs[n] = [id |-> grants[n].id, what |-> "grant", fields |-> grants[n]]
             /\ outs[n].id = grants[n].id /\ outs[n].fields = grants[n]
  BY <1>7
<1> HIDE DEF outs
<1>10. ASSUME NEW n \in 1..Len(grants)
       PROVE  /\ part[n] \in 1..k /\ place[n] \in 1..Len(seqs[part[n]])
              /\ grants[n] = seqs[part[n]][place[n]]
              /\ grants[n].uid = order[part[n]] /\ AtomOK(outs[n])
  <2>1. /\ part[n] \in 1..k /\ place[n] \in 1..Len(seqs[part[n]])
        /\ grants[n] = seqs[part[n]][place[n]]
    BY <1>6 DEF ComesFrom
  <2>2. UidGrants(seqs[part[n]], order[part[n]])
    BY <1>3, <2>1
  <2>3. /\ grants[n].uid = order[part[n]]
        /\ AtomOK([id |-> grants[n].id, what |-> "grant", fields |-> grants[n]])
    BY <2>1, <2>2 DEF UidGrants
  <2> QED
    BY <1>9, <2>1, <2>3
<1>11. ASSUME NEW m \in 1..Len(grants), NEW n \in 1..Len(grants), grants[m].uid = grants[n].uid,
              \/ grants[m].id = grants[n].id
              \/ \E c : c \in ToSet(grants[m].calls) /\ c \in ToSet(grants[n].calls)
       PROVE  m = n
  <2>1. part[m] = part[n]
    <3>1. order[part[m]] = order[part[n]] /\ part[m] \in 1..k /\ part[n] \in 1..k
      BY <1>10, <1>11
    <3> QED
      BY <1>1, <3>1 DEF k
  <2>2. PICK gs, u : gs = seqs[part[m]] /\ UidGrants(gs, u)
    BY <1>3, <1>10
  <2>3. /\ place[m] \in 1..Len(gs) /\ place[n] \in 1..Len(gs)
        /\ grants[m] = gs[place[m]] /\ grants[n] = gs[place[n]]
    BY <1>10, <2>1, <2>2
  <2>4. place[m] = place[n]
    <3>1. CASE grants[m].id = grants[n].id
      BY <2>2, <2>3, <3>1 DEF UidGrants
    <3>2. CASE \E c : c \in ToSet(grants[m].calls) /\ c \in ToSet(grants[n].calls)
      <4>1. PICK c : c \in ToSet(gs[place[m]].calls) /\ c \in ToSet(gs[place[n]].calls)
        BY <2>3, <3>2
      <4> QED
        BY <2>2, <2>3, <4>1 DEF UidGrants
    <3> QED
      BY <1>11, <3>1, <3>2
  <2> QED
    BY <1>6, <2>1, <2>4 DEF ComesFrom
<1>12. ASSUME NEW m \in 1..Len(outs), NEW n \in 1..Len(outs), outs[m].id = outs[n].id PROVE m = n
  <2>1. grants[m].id = grants[n].id
    BY <1>8, <1>9, <1>12
  <2>5. /\ AtomOK(outs[m]) /\ outs[m].id = grants[m].id /\ outs[m].fields = grants[m]
        /\ AtomOK(outs[n]) /\ outs[n].id = grants[n].id /\ outs[n].fields = grants[n]
    BY <1>8, <1>9, <1>10
  <2>2. PICK g \in CollectedGrants : g.id = grants[m].id /\ g.uid = grants[m].uid
    BY <2>5 DEF AtomOK
  <2>3. PICK h \in CollectedGrants : h.id = grants[n].id /\ h.uid = grants[n].uid
    BY <2>5 DEF AtomOK
  <2>4. g = h
    BY <2>1, <2>2, <2>3, EventIds DEF CollectedGrants
  <2> QED
    BY <1>8, <1>11, <2>1, <2>2, <2>3, <2>4
<1>13. ASSUME NEW m \in 1..Len(outs), NEW n \in 1..Len(outs), NEW c,
              c \in ToSet(outs[m].fields.calls), c \in ToSet(outs[n].fields.calls)
       PROVE  m = n
  <2>1. outs[m].fields = grants[m] /\ outs[n].fields = grants[n]
    BY <1>8, <1>9
  <2>2. c.uid = grants[m].uid /\ c.uid = grants[n].uid
    <3>1. AtomOK(outs[m]) /\ AtomOK(outs[n])
      BY <1>8, <1>10
    <3> QED
      BY <1>13, <2>1, <3>1 DEF AtomOK
  <2> QED
    BY <1>8, <1>11, <1>13, <2>1, <2>2
<1>14. AtomsOK(outs)
  BY <1>8, <1>10, <1>12, <1>13 DEF AtomsOK
<1>15. ASSUME NEW u \in Uids PROVE \E i \in 1..k : UidGrants(seqs[i], u) /\ order[i] = u
  BY <1>1, <1>3 DEF k
<1>16. ASSUME NEW i \in 1..k, NEW m \in 1..Len(seqs[i])
       PROVE  \E n \in 1..Len(outs) : outs[n].id = seqs[i][m].id /\ outs[n].fields = seqs[i][m]
  <2>1. PICK n \in 1..Len(grants) : part[n] = i /\ place[n] = m
    BY <1>6 DEF ComesFrom
  <2>2. grants[n] = seqs[i][m]
    BY <1>10, <2>1
  <2> QED
    BY <1>8, <1>9, <2>2
<1>17. ASSUME NEW e \in ToSet(events) PROVE e.uid \in Uids
  <2>1. PICK i \in 1..Len(events) : events[i] = e
    BY DEF Collected, ToSet
  <2> QED
    BY <2>1, EventFields
<1>18. ASSUME NEW g \in CollectedGrants PROVE \E n \in 1..Len(outs) : outs[n].id = g.id
  <2>1. PICK i \in 1..k : UidGrants(seqs[i], g.uid)
    BY <1>15, <1>17 DEF CollectedGrants
  <2>2. PICK m \in 1..Len(seqs[i]) : seqs[i][m].id = g.id
    BY <2>1 DEF UidGrants
  <2> QED
    BY <1>16, <2>2
<1>19. ASSUME NEW c \in CollectedCalls, IsPreceding(c)
       PROVE  \E n \in 1..Len(outs), g \in FirstLater(c) :
                  c \in ToSet(outs[n].fields.calls) /\ outs[n].id = g.id
  <2>1. PICK i \in 1..k : UidGrants(seqs[i], c.uid)
    BY <1>15, <1>17 DEF CollectedCalls
  <2>2. PICK m \in 1..Len(seqs[i]), g \in FirstLater(c) :
            c \in ToSet(seqs[i][m].calls) /\ seqs[i][m].id = g.id
    BY <1>19, <2>1 DEF UidGrants
  <2>3. PICK n \in 1..Len(outs) : outs[n].id = seqs[i][m].id /\ outs[n].fields = seqs[i][m]
    BY <1>16
  <2> QED
    BY <2>2, <2>3
<1>20. AtomsComplete(outs)
  BY <1>18, <1>19 DEF AtomsComplete
<1> QED
  BY <1>2, <1>14, <1>20

-----------------------------------------------------------------------------
(* Accessibility: the steps of the handler. *)

EventData == [kind : Kinds, uid : Uids, ts : 0..MaxTime]

(* The events are of records accepted; nothing is written before the end,   *)
(* and then all grants, or some of them if that fails.                      *)
AccessibilityOK ==
    /\ Collected
    /\ \A i \in 1..Len(events) : events[i].id <= Len(seen)
    /\ DataIn(ring, EventData) /\ DataIn(batch, EventData)
    /\ phase # "ended" => out = <<>>
    /\ AtomsOK(out)
    /\ verdict = "ok" => AtomsComplete(out)

LEMMA GrantSummaries ==
  ASSUME LoopInv, AccessibilityOK, mapPath = "Accessibility_output_buf",
         NEW order \in SetToSeqs(Uids)
  PROVE  SummaryOutputs(GrantAtoms(order)) /\ IsSeq(GrantAtoms(order))
<1>1. PICK outs : outs = GrantAtoms(order)
  OBVIOUS
<1>2. AtomsOK(outs)
  BY <1>1, GrantAtomsOK DEF AccessibilityOK
<1>3. ASSUME NEW n \in 1..Len(outs) PROVE IsSummary(outs[n])
  <2>1. PICK o : o = outs[n] /\ AtomOK(o)
    BY <1>2 DEF AtomsOK
  <2>2. PICK a, f : o = [id |-> a, what |-> "grant", fields |-> f]
    BY <2>1 DEF AtomOK
  <2>3. o.what = "grant"
    BY <2>2
  <2>4. PICK g \in CollectedGrants : g.id = o.id
    BY <2>1 DEF AtomOK
  <2>5. PICK i \in 1..Len(events) : events[i] = g
    BY <2>4 DEF CollectedGrants, ToSet, AccessibilityOK, Collected
  <2>6. o.id \in Nat /\ o.id <= Len(seen)
    BY <2>4, <2>5, EventFields DEF AccessibilityOK
  <2>7. /\ Len(seen) \in Nat /\ Len(batch) \in Nat /\ Len(ring) \in Nat /\ MaxHits[mapPath] \in Nat
        /\ Len(seen) + Len(batch) + Len(ring) <= MaxHits[mapPath]
    BY SeqFacts, HandlersAssumption DEF LoopInv, Numbered, Timing
  <2>8. o.id \in 0..MaxHits[mapPath]
    BY <2>6, <2>7
  <2> QED
    BY <2>1, <2>3, <2>8 DEF IsSummary, Summaries
<1> QED
  BY <1>1, <1>2, <1>3 DEF SummaryOutputs, AtomsOK

LEMMA AccessibilityMoves ==
  ASSUME LoopInv, AccessibilityOK, mapPath = "Accessibility_output_buf", AccessibilityNext
  PROVE  Move
<1>1. ASSUME phase = "handling"
      PROVE  /\ Head(batch).ready = TRUE /\ OutputsOf(Head(batch).id, <<>>)
             /\ [id |-> Head(batch).id, ready |-> TRUE].id = Head(batch).id
             /\ [id |-> Head(batch).id, ready |-> TRUE].ready = TRUE
  BY <1>1, HeadRecord, NoOutputs
<1>2. CASE LoopStep
  BY <1>2 DEF Move
<1>3. CASE \E k \in Kinds, u \in Uids : ReserveEvent(k, u)
  BY <1>3 DEF Move, ReserveEvent
<1>4. CASE \E i \in 1..RingCapacity : SubmitEvent(i)
  BY <1>4 DEF Move, SubmitEvent
<1>5. CASE HandlePermissionGrantEvent \/ HandleA11yEvent \/ OnItemIgnored
  <2>1. phase = "handling" /\ Collect(<<>>)
    BY <1>5 DEF HandlePermissionGrantEvent, HandleA11yEvent, OnItemIgnored, CollectEvent
  <2>2. Accepts([id |-> Head(batch).id, ready |-> TRUE], <<>>)
    BY <1>1, <2>1 DEF Collect, Accepts
  <2> QED
    BY <2>2 DEF Move
<1>6. CASE OnItemFails
  <2>1. Refuses(<<>>, "TaskExecutionFailed", 0)
    BY <1>1, <1>6 DEF OnItemFails, Refuses, ErrorTypes
  <2> QED
    BY <2>1 DEF Move
<1>7. CASE OnAccessibilityFinished
  <2>1. PICK order \in SetToSeqs(Uids) :
            \/ FinishOk(GrantAtoms(order))
            \/ \E outs \in CutShort(GrantAtoms(order), FALSE) : FinishFails(outs)
    BY <1>7 DEF OnAccessibilityFinished
  <2>2. SummaryOutputs(GrantAtoms(order))
    BY GrantSummaries
  <2>3. \E outs : Finishes(outs)
    BY <2>1, <2>2, CutSummaries DEF Finishes
  <2> QED
    BY <2>3 DEF Move
<1> QED
  BY <1>2, <1>3, <1>4, <1>5, <1>6, <1>7 DEF AccessibilityNext

(* Without an output nothing is claimed. *)
LEMMA NoAtoms == ASSUME NEW outs, outs = <<>> PROVE AtomsOK(outs)
BY EmptyIsSeq DEF AtomsOK

(* A step before the end: the outputs stay empty. *)
LEMMA AccessibilityGoesOn ==
  ASSUME AccessibilityOK, Collected', out' = <<>>, verdict' # "ok",
         \A i \in 1..Len(events') : events'[i].id <= Len(seen'),
         DataIn(ring', EventData), DataIn(batch', EventData)
  PROVE  AccessibilityOK'
<1>1. AtomsOK(out)'
  BY EmptyIsSeq DEF AtomsOK
<1>2. DataIn(ring, EventData)' /\ DataIn(batch, EventData)'
  BY DEF EventData, Kinds
<1> QED
  BY <1>1, <1>2 DEF AccessibilityOK

LEMMA SomeAtoms ==
  ASSUME NEW outs, NEW cut, AtomsOK(outs), IsSeq(cut),
         \A i \in 1..Len(cut) : i \in 1..Len(outs) /\ cut[i] = outs[i]
  PROVE  AtomsOK(cut)
<1>1. \A n \in 1..Len(cut) : AtomOK(cut[n])
  BY DEF AtomsOK
<1>2. ASSUME NEW m \in 1..Len(cut), NEW n \in 1..Len(cut), cut[m].id = cut[n].id PROVE m = n
  BY <1>2 DEF AtomsOK
<1>3. ASSUME NEW m \in 1..Len(cut), NEW n \in 1..Len(cut), NEW c,
             c \in ToSet(cut[m].fields.calls), c \in ToSet(cut[n].fields.calls)
      PROVE  m = n
  BY <1>3 DEF AtomsOK
<1> QED
  BY <1>1, <1>2, <1>3 DEF AtomsOK

AtomOver(o, grants, calls) ==
    /\ o = [id |-> o.id, what |-> "grant", fields |-> o.fields]
    /\ o.fields \in GrantRecords /\ o.fields.id = o.id
    /\ \E g \in grants : g.id = o.id /\ g.uid = o.fields.uid /\ g.ts = o.fields.ts
    /\ \A c \in ToSet(o.fields.calls) :
           /\ c \in calls /\ c.uid = o.fields.uid
           /\ c.ts <= o.fields.ts /\ o.fields.ts - c.ts < Window
           /\ ~\E g \in grants : g.uid = c.uid /\ c.ts < g.ts /\ g.ts < o.fields.ts

(* The atoms of the events collected stay what they are. *)
LEMMA AtomsStay ==
  ASSUME NEW outs, AtomsOK(outs), out' = outs, UNCHANGED events
  PROVE  AtomsOK(out)'
<1>1. CollectedGrants' = CollectedGrants /\ CollectedCalls' = CollectedCalls
  BY DEF CollectedGrants, CollectedCalls
<1>2. /\ IsSeq(out')
      /\ \A m, n \in 1..Len(out') : out'[m].id = out'[n].id => m = n
      /\ \A m, n \in 1..Len(out') : \A c :
             c \in ToSet(out'[m].fields.calls) /\ c \in ToSet(out'[n].fields.calls) => m = n
  BY DEF AtomsOK
<1>3. \A n \in 1..Len(out') : AtomOK(out'[n])
  BY DEF AtomsOK
<1>4. \A n \in 1..Len(out') : AtomOver(out'[n], CollectedGrants, CollectedCalls)
  BY <1>3 DEF AtomOK, AtomOver
<1>5. \A n \in 1..Len(out') : AtomOver(out'[n], CollectedGrants', CollectedCalls')
  BY <1>1, <1>4
<1>6. (\A n \in 1..Len(out) : AtomOver(out[n], CollectedGrants, CollectedCalls))'
  BY <1>5
<1>7. (\A n \in 1..Len(out) : AtomOK(out[n]))'
  BY <1>6 DEF AtomOK, AtomOver
<1> QED
  BY <1>2, <1>7 DEF AtomsOK

LEMMA AccessibilitySteps ==
  ASSUME LoopInv, AccessibilityOK, mapPath = "Accessibility_output_buf", AccessibilityNext
  PROVE  AccessibilityOK'
<1>1. Move /\ phase # "ended" /\ verdict = "none" /\ out = <<>>
  BY AccessibilityMoves, MoveFacts DEF AccessibilityOK
<1>2. Collected /\ DataIn(ring, EventData) /\ DataIn(batch, EventData)
      /\ \A i \in 1..Len(events) : events[i].id <= Len(seen)
  BY DEF AccessibilityOK
<1>3. IsSeq(seen) /\ Len(seen) \in Nat
  BY SeqFacts DEF LoopInv, Numbered
<1>4. ASSUME UNCHANGED events PROVE Collected'
  BY <1>2, <1>4 DEF Collected, EventRecords, Kinds
<1>5. <<>> \o <<>> = <<>>
  OBVIOUS
<1>6. CASE LoopStep /\ UNCHANGED accessibilityVars
  <2>1. UNCHANGED <<seen, out, events>> /\ verdict' # "ok"
    BY <1>6, LoopStepFacts DEF accessibilityVars
  <2>2. DataIn(ring', EventData) /\ DataIn(batch', EventData)
    BY <1>2, <1>6, LoopStepData
  <2> QED
    BY <1>1, <1>2, <1>4, <2>1, <2>2, AccessibilityGoesOn
<1>7. CASE \E k \in Kinds, u \in Uids : ReserveEvent(k, u)
  <2>1. PICK k \in Kinds, u \in Uids : ReserveEvent(k, u)
    BY <1>7
  <2>2. PICK d : d = [kind |-> k, uid |-> u, ts |-> 0]
    OBVIOUS
  <2>3. d \in EventData
    <3>1. MaxTime \in Nat /\ 0 \in 0..MaxTime
      BY PollLoopAssumption
    <3> QED
      BY <2>2, <3>1 DEF EventData
  <2>4. Reserve(d) /\ UNCHANGED <<seen, out, verdict, events>>
    BY <2>1, <2>2 DEF ReserveEvent, Reserve, accessibilityVars
  <2>5. DataIn(ring', EventData) /\ DataIn(batch', EventData)
    BY <1>2, <2>3, <2>4, ReserveData
  <2> QED
    BY <1>1, <1>2, <1>4, <2>4, <2>5, AccessibilityGoesOn
<1>8. CASE \E i \in 1..RingCapacity : SubmitEvent(i)
  <2>1. PICK i \in 1..RingCapacity : SubmitEvent(i)
    BY <1>8
  <2>2. PICK d : d = [ring[i].data EXCEPT !.ts = clock]
    OBVIOUS
  <2>3. i \in DOMAIN ring /\ SubmitAs(i, d) /\ UNCHANGED <<seen, out, verdict, events>>
    BY <2>1, <2>2 DEF SubmitEvent, SubmitAs, accessibilityVars
  <2>4. ring[i].data \in EventData /\ clock \in 0..MaxTime
    <3>1. DOMAIN ring = 1..Len(ring)
      BY SeqFacts DEF LoopInv, Numbered
    <3> QED
      BY <1>2, <2>3, <3>1 DEF DataIn, LoopInv, Timing
  <2>5. d \in EventData
    BY <2>2, <2>4 DEF EventData
  <2>6. DataIn(ring', EventData) /\ DataIn(batch', EventData)
    BY <1>2, <2>3, <2>5, SubmitData
  <2> QED
    BY <1>1, <1>2, <1>4, <2>3, <2>6, AccessibilityGoesOn
<1>9. CASE HandlePermissionGrantEvent \/ HandleA11yEvent \/ OnItemIgnored
  <2>1. /\ phase = "handling" /\ Collect(<<>>)
        /\ events' = events \/ events' = Append(events, EventOf(Head(batch)))
    BY <1>9 DEF HandlePermissionGrantEvent, HandleA11yEvent, OnItemIgnored, CollectEvent,
                accessibilityVars
  <2>2. PICK r : /\ Accept(r, <<>>) /\ seen' = Append(seen, r) /\ verdict' = verdict
                 /\ out' = out \o <<>>
    BY <2>1 DEF Collect, Accept
  <2>3. Len(seen') = Len(seen) + 1
    BY <1>3, <2>2, AppendIsSeq
  <2>4. /\ DataIn(ring', EventData) /\ DataIn(batch', EventData)
        /\ Head(batch).data \in EventData
    BY <1>2, <2>1, <2>2, AcceptData
  <2>5. Head(batch).id = Len(seen) + 1
    BY <2>1, HeadRecord
  <2>6. CASE events' = events
    <3>1. ASSUME NEW i \in 1..Len(events') PROVE events'[i].id <= Len(seen')
      <4>1. events'[i].id \in Nat /\ events'[i].id <= Len(seen)
        BY <1>2, <2>6, EventFields
      <4> QED
        BY <1>3, <2>3, <4>1
    <3> QED
      BY <1>1, <1>4, <1>5, <2>2, <2>4, <2>6, <3>1, AccessibilityGoesOn
  <2>7. CASE events' = Append(events, EventOf(Head(batch)))
    <3>1. PICK e : e = EventOf(Head(batch))
      OBVIOUS
    <3>2. e \in EventRecords /\ e.id = Len(seen) + 1
      <4>1. PICK d : d = Head(batch).data
        OBVIOUS
      <4>2. d \in EventData /\ e = [id |-> Len(seen) + 1, kind |-> d.kind, uid |-> d.uid, ts |-> d.ts]
        BY <2>4, <2>5, <3>1, <4>1 DEF EventOf
      <4>3. d.kind \in Kinds /\ d.uid \in Uids /\ d.ts \in 0..MaxTime
        BY <4>2 DEF EventData
      <4> QED
        BY <1>3, <4>2, <4>3 DEF EventRecords
    <3>3. events \in Seq(EventRecords) /\ Len(events) \in Nat
      BY <1>2 DEF Collected
    <3>4. /\ events' \in Seq(EventRecords) /\ Len(events') = Len(events) + 1
          /\ \A i \in 1..Len(events) : events'[i] = events[i]
          /\ events'[Len(events) + 1] = e
      BY <2>7, <3>1, <3>2, <3>3
    <3>5. \A i \in 1..Len(events') : i \in 1..Len(events) \/ i = Len(events) + 1
      BY <3>3, <3>4
    <3>6. ASSUME NEW i \in 1..Len(events)
          PROVE  events'[i].id \in Nat /\ events'[i].id <= Len(seen)
      BY <1>2, <3>4, EventFields
    <3>7. ASSUME NEW i \in 1..Len(events') PROVE events'[i].id <= Len(seen')
      <4>1. CASE i \in 1..Len(events)
        BY <1>3, <2>3, <3>6, <4>1
      <4>2. CASE i = Len(events) + 1
        BY <1>3, <2>3, <3>2, <3>4, <4>2
      <4> QED
        BY <3>5, <4>1, <4>2
    <3>8. ASSUME NEW i \in 1..Len(events'), NEW j \in 1..Len(events'), i < j
          PROVE  events'[i].id < events'[j].id
      <4>1. i \in 1..Len(events)
        BY <3>3, <3>4, <3>5, <3>8
      <4>2. CASE j \in 1..Len(events)
        BY <1>2, <3>4, <3>8, <4>1, <4>2 DEF Collected
      <4>3. CASE j = Len(events) + 1
        BY <1>3, <3>2, <3>4, <3>6, <4>1, <4>3
      <4> QED
        BY <3>5, <4>2, <4>3
    <3>9. Collected'
      BY <3>4, <3>8 DEF Collected, EventRecords, Kinds
    <3> QED
      BY <1>1, <1>5, <2>2, <2>4, <3>7, <3>9, AccessibilityGoesOn
  <2> QED
    BY <2>1, <2>6, <2>7
<1>10. CASE OnItemFails
  <2>1. /\ UNCHANGED <<ring, batch, seen, events>> /\ out' = out \o <<>> /\ verdict' = "reported"
    BY <1>10 DEF OnItemFails, Refuse, Report, End, accessibilityVars
  <2> QED
    BY <1>1, <1>2, <1>4, <1>5, <2>1, AccessibilityGoesOn
<1>11. CASE OnAccessibilityFinished
  <2>1. PICK order \in SetToSeqs(Uids) :
            \/ FinishOk(GrantAtoms(order))
            \/ \E outs \in CutShort(GrantAtoms(order), FALSE) : FinishFails(outs)
    BY <1>11 DEF OnAccessibilityFinished
  <2>2. PICK atoms : atoms = GrantAtoms(order)
    OBVIOUS
  <2>3. AtomsOK(atoms) /\ AtomsComplete(atoms)
    BY <1>2, <2>2, GrantAtomsOK
  <2>4. PICK outs : /\ out' = out \o outs /\ phase' = "ended" /\ UNCHANGED <<ring, batch, seen>>
                    /\ \/ outs = atoms /\ verdict' = "ok"
                       \/ outs \in CutShort(atoms, FALSE) /\ verdict' = "error"
    BY <2>1, <2>2 DEF FinishOk, FinishFails, End
  <2>5. AtomsOK(outs) /\ (verdict' = "ok" => AtomsComplete(outs))
    <3>1. CASE outs = atoms
      BY <2>3, <3>1
    <3>2. CASE outs \in CutShort(atoms, FALSE) /\ verdict' = "error"
      <4>1. IsSeq(atoms)
        BY <2>3 DEF AtomsOK
      <4>2. IsSeq(outs) /\ \A i \in 1..Len(outs) : i \in 1..Len(atoms) /\ outs[i] = atoms[i]
        BY <3>2, <4>1, CutIsPrefix
      <4> QED
        BY <2>3, <3>2, <4>2, SomeAtoms
    <3> QED
      BY <2>4, <3>1, <3>2
  <2>6. out' = outs
    <3>1. IsSeq(outs)
      BY <2>5 DEF AtomsOK
    <3>2. PICK S : outs \in Seq(S)
      BY <3>1 DEF IsSeq
    <3>3. <<>> \o outs = outs
      BY <3>2
    <3> QED
      BY <1>1, <2>4, <3>3
  <2>7. UNCHANGED events
    BY <1>11 DEF OnAccessibilityFinished, accessibilityVars
  <2>8. AtomsOK(out)'
    BY <2>5, <2>6, <2>7, AtomsStay
  <2>9. (verdict = "ok" => AtomsComplete(out))'
    BY <2>5, <2>6, <2>7 DEF AtomsComplete, IsPreceding, FirstLater, LaterGrants, CollectedGrants,
                            CollectedCalls
  <2>10. (DataIn(ring, EventData) /\ DataIn(batch, EventData))'
    BY <1>2, <2>4 DEF DataIn, EventData, Kinds
  <2>11. (\A i \in 1..Len(events) : events[i].id <= Len(seen))'
    BY <1>2, <2>4, <2>7
  <2>12. Collected'
    BY <1>4, <2>7
  <2> QED
    BY <2>4, <2>8, <2>9, <2>10, <2>11, <2>12 DEF AccessibilityOK
<1> QED
  BY <1>6, <1>7, <1>8, <1>9, <1>10, <1>11 DEF AccessibilityNext

-----------------------------------------------------------------------------
(* Binder: the filters in the map. *)

LEMMA MinOfTwo ==
  ASSUME NEW a \in Nat, NEW b \in Nat
  PROVE  Min({a, b}) \in Nat /\ Min({a, b}) <= a /\ Min({a, b}) <= b /\ Min({a, b}) \in {a, b}
<1>1. {a, b} \in SUBSET Nat /\ {a, b} # {}
  OBVIOUS
<1>2. Min({a, b}) \in {a, b} /\ \A m \in {a, b} : Min({a, b}) <= m
  BY <1>1, MinIsLeast
<1> QED
  BY <1>2

(* The first m elements of a sequence. *)
LEMMA FirstOf ==
  ASSUME NEW s, IsSeq(s), NEW m \in Nat
  PROVE  /\ IsSeq(SubSeq(s, 1, Min({Len(s), m})))
         /\ Len(SubSeq(s, 1, Min({Len(s), m}))) = Min({Len(s), m})
         /\ Len(s) <= m => SubSeq(s, 1, Min({Len(s), m})) = s
<1>1. Len(s) \in Nat
  BY SeqFacts
<1>2. PICK n : n = Min({Len(s), m})
  OBVIOUS
<1>3. n \in Nat /\ n <= Len(s) /\ n <= m /\ n \in {Len(s), m}
  BY <1>1, <1>2, MinOfTwo
<1>4. 1 \in 1..(Len(s) + 1) /\ n \in 0..Len(s) /\ 1 <= n + 1 /\ n - 1 + 1 = n
  BY <1>1, <1>3
<1>5. IsSeq(SubSeq(s, 1, n)) /\ Len(SubSeq(s, 1, n)) = n
  BY <1>4, SubSeqIsSeq
<1>6. ASSUME Len(s) <= m PROVE SubSeq(s, 1, n) = s
  <2>1. n = Len(s)
    BY <1>1, <1>3, <1>6
  <2> QED
    BY <2>1, SubSeqFull DEF IsSeq
<1> QED
  BY <1>2, <1>5, <1>6

IsKey(k) == k = [i \in 1..KeyBytes |-> k[i]]

LEMMA KeyOfName == ASSUME NEW n PROVE IsKey(ToCKey(n))
BY DEF IsKey, ToCKey

(* The positions of the zeroes. *)
LEMMA FirstNul ==
  ASSUME NEW s, IsSeq(s), Nuls(s) # {}
  PROVE  /\ Min(Nuls(s)) \in 1..Len(s) /\ s[Min(Nuls(s))] = Nul
         /\ \A i \in 1..Len(s) : i < Min(Nuls(s)) => s[i] # Nul
         /\ IsSeq(UpToNul(s)) /\ Len(UpToNul(s)) = Min(Nuls(s)) - 1
         /\ \A i \in 1..(Min(Nuls(s)) - 1) : UpToNul(s)[i] = s[i]
<1>1. Len(s) \in Nat
  BY SeqFacts
<1>2. Nuls(s) \in SUBSET Nat /\ \A i \in Nuls(s) : i \in 1..Len(s) /\ s[i] = Nul
  BY <1>1 DEF Nuls
<1>3. PICK e : e = Min(Nuls(s))
  OBVIOUS
<1>4. e \in Nuls(s) /\ \A i \in Nuls(s) : e <= i
  BY <1>2, <1>3, MinIsLeast
<1>5. e \in 1..Len(s) /\ s[e] = Nul
  BY <1>2, <1>4
<1>6. \A i \in 1..Len(s) : i < e => s[i] # Nul
  BY <1>1, <1>4, <1>5 DEF Nuls
<1>7. UpToNul(s) = SubSeq(s, 1, e - 1)
  BY <1>3 DEF UpToNul
<1>8. 1 \in 1..(Len(s) + 1) /\ e - 1 \in 0..Len(s) /\ 1 <= e - 1 + 1 /\ e - 1 - 1 + 1 = e - 1
  BY <1>1, <1>5
<1>9. /\ IsSeq(SubSeq(s, 1, e - 1)) /\ Len(SubSeq(s, 1, e - 1)) = e - 1
      /\ \A i \in 1..(e - 1) : SubSeq(s, 1, e - 1)[i] = s[1 + i - 1]
  BY <1>8, SubSeqIsSeq
<1>10. \A i \in 1..(e - 1) : 1 + i - 1 = i
  BY <1>5
<1> QED
  BY <1>3, <1>5, <1>6, <1>7, <1>9, <1>10

(* A key that is a name and its padding is found again. *)
LEMMA KeyFoundAgain ==
  ASSUME NEW k, IsKey(k), Padded(k)
  PROVE  KeyAgain(k) = k
<1>1. KeyBytes \in Nat
  BY BinderAssumption
<1>2. IsSeq(k) /\ Len(k) = KeyBytes
  BY <1>1, FunctionIsSeq DEF IsKey
<1>3. PICK e \in 1..KeyBytes : \A i \in 1..KeyBytes : k[i] = Nul <=> i >= e
  BY DEF Padded
<1>4. e \in Nuls(k)
  BY <1>1, <1>2, <1>3 DEF Nuls
<1>5. /\ Min(Nuls(k)) \in 1..KeyBytes /\ k[Min(Nuls(k))] = Nul
      /\ \A i \in 1..KeyBytes : i < Min(Nuls(k)) => k[i] # Nul
      /\ Len(UpToNul(k)) = Min(Nuls(k)) - 1
      /\ \A i \in 1..(Min(Nuls(k)) - 1) : UpToNul(k)[i] = k[i]
  BY <1>2, <1>4, FirstNul
<1>6. Min(Nuls(k)) = e
  BY <1>1, <1>3, <1>5
<1>7. PICK u : u = UpToNul(k)
  OBVIOUS
<1>8. Len(u) = e - 1 /\ \A i \in 1..(e - 1) : u[i] = k[i]
  BY <1>5, <1>6, <1>7
<1>9. KeyAgain(k) = [i \in 1..KeyBytes |-> IF i <= Len(u) THEN u[i] ELSE Nul]
  BY <1>4, <1>7 DEF KeyAgain, FromCKey, ToCKey
<1>10. \A i \in 1..KeyBytes : (IF i <= Len(u) THEN u[i] ELSE Nul) = k[i]
  BY <1>1, <1>3, <1>8
<1> QED
  BY <1>9, <1>10 DEF IsKey

(* The key of a name it can hold is that name and its padding. *)
LEMMA FittingKey ==
  ASSUME NEW n \in Names, Fits(n)
  PROVE  Padded(ToCKey(n))
<1>1. Len(n) \in Nat /\ KeyBytes \in Nat /\ Len(n) + 1 \in 1..KeyBytes
  BY BinderAssumption DEF Fits
<1>2. \A i \in 1..Len(n) : n[i] # Nul
  BY DEF Fits, Nuls
<1>3. \A i \in 1..KeyBytes : ToCKey(n)[i] = IF i <= Len(n) THEN n[i] ELSE Nul
  BY DEF ToCKey
<1>4. \A i \in 1..KeyBytes : ToCKey(n)[i] = Nul <=> i >= Len(n) + 1
  BY <1>1, <1>2, <1>3
<1> QED
  BY <1>1, <1>4 DEF Padded

ValueOK(v) == Len(v) <= MaxCodes

LEMMA ValueOfCodes ==
  ASSUME NEW S, IsFiniteSet(S), NEW codes \in SetToSeqs(S)
  PROVE  ValueOK(ToCValue(codes))
<1>1. Cardinality(S) \in Nat
  BY FS_CardinalityType
<1>2. codes \in [1..Cardinality(S) -> S]
  BY DEF SetToSeqs
<1>3. codes \in Seq(S)
  BY <1>1, <1>2
<1>4. IsSeq(codes) /\ Len(codes) \in Nat /\ MaxCodes \in Nat
  BY <1>3, BinderAssumption DEF IsSeq
<1>5. Len(ToCValue(codes)) = Min({Len(codes), MaxCodes})
  BY <1>4, FirstOf DEF ToCValue
<1> QED
  BY <1>4, <1>5, MinOfTwo DEF ValueOK

FilterKeys == found \cup {ToCKey(n) : n \in InterfaceNames}

(* The filters of the config and the keys found are all there is to drain.  *)
BinderOK ==
    /\ access \in {"closed", "open", "draining", "drained", "stuck"}
    /\ \A k \in DOMAIN filters : IsKey(k) /\ ValueOK(filters[k])
    /\ mapPath = "Binder_output_buf" =>
           /\ config \in Configs
           /\ DOMAIN filters \subseteq FilterKeys
           /\ \A f \in pending : f[1] \in DOMAIN config /\ f[2] \in DOMAIN config[f[1]]
           /\ access = "drained" => DOMAIN filters = {}
           /\ access = "stuck" => \E k \in DOMAIN filters : ~Padded(k)
    /\ BinderOrder

LEMMA InitBinder == Init => BinderOK
<1> SUFFICES ASSUME Init PROVE BinderOK
  OBVIOUS
<1>1. access = "closed" /\ pending = {} /\ phase = "new"
  BY DEF Init, BinderInit, LoopInit
<1>2. BinderOrder
  BY <1>1 DEF BinderOrder
<1>3. CASE mapPath = "Binder_output_buf"
  <2>1. config \in Configs /\ filters \in Leftovers /\ found = DOMAIN filters
    BY <1>3 DEF Init, BinderInit
  <2>2. ASSUME NEW k \in DOMAIN filters PROVE IsKey(k) /\ ValueOK(filters[k])
    BY <2>1, BinderAssumption DEF IsKey, ValueOK
  <2> QED
    BY <1>1, <1>2, <2>1, <2>2 DEF BinderOK, FilterKeys
<1>4. CASE mapPath # "Binder_output_buf"
  <2>1. filters = <<>> /\ DOMAIN filters = {}
    BY <1>4 DEF Init
  <2> QED
    BY <1>1, <1>2, <1>4, <2>1 DEF BinderOK
<1> QED
  BY <1>3, <1>4

LEMMA StayBinder ==
  ASSUME BinderOK, UNCHANGED <<mapPath, flags, binderVars>>,
         \/ phase' = phase
         \/ ~(mapPath = "Binder_output_buf" /\ mapPath \in Registered)
         \/ access = "open" /\ pending = {}
  PROVE  BinderOK'
<1>1. UNCHANGED <<config, found, filters, pending, access>>
  BY DEF binderVars
<1>2. BinderOrder'
  BY <1>1 DEF BinderOK, BinderOrder, Registered
<1>3. FilterKeys' = FilterKeys
  BY <1>1 DEF FilterKeys, InterfaceNames
<1> QED
  BY <1>1, <1>2, <1>3 DEF BinderOK, IsKey, ValueOK

LEMMA BinderSteps ==
  ASSUME LoopInv, BinderOK, mapPath = "Binder_output_buf", mapPath \in Registered, BinderNext,
         UNCHANGED flags
  PROVE  BinderOK'
<1>1. BinderOrder /\ config \in Configs /\ DOMAIN filters \subseteq FilterKeys
      /\ (\A f \in pending : f[1] \in DOMAIN config /\ f[2] \in DOMAIN config[f[1]])
      /\ (\A k \in DOMAIN filters : IsKey(k) /\ ValueOK(filters[k]))
  BY DEF BinderOK
<1>2. mapPath' = mapPath /\ mapPath' \in Registered'
  <2>1. mapPath' = mapPath
    BY <1>1, BinderMoves, MoveFacts DEF loopVars
  <2> QED
    BY <2>1 DEF Registered
<1>3. CASE OpenMap
  <2>1. /\ access = "closed" /\ access' = "open"
        /\ pending' = UNION {{<<p, n>> : n \in DOMAIN config[p]} : p \in DOMAIN config}
        /\ UNCHANGED <<loopVars, config, found, filters>>
    BY <1>3 DEF OpenMap
  <2>2. phase' = "new"
    BY <1>1, <2>1 DEF BinderOrder, loopVars
  <2>3. \A f \in pending' : f[1] \in DOMAIN config' /\ f[2] \in DOMAIN config'[f[1]]
    BY <2>1
  <2>4. FilterKeys' = FilterKeys
    BY <2>1 DEF FilterKeys, InterfaceNames
  <2> QED
    BY <1>1, <1>2, <2>1, <2>2, <2>3, <2>4 DEF BinderOK, BinderOrder
<1>4. CASE \E f \in pending : PutFilter(f)
  <2>1. PICK f \in pending : PutFilter(f)
    BY <1>4
  <2>2. PICK n : n = f[2]
    OBVIOUS
  <2>3. PICK codes \in SetToSeqs(DOMAIN config[f[1]][n]) :
          filters' = [k \in DOMAIN filters \cup {ToCKey(n)} |->
                         IF k = ToCKey(n) THEN ToCValue(codes) ELSE filters[k]]
    BY <2>1, <2>2 DEF PutFilter
  <2>4. /\ access = "open" /\ pending' = pending \ {f}
        /\ UNCHANGED <<loopVars, config, found, access>>
    BY <2>1 DEF PutFilter, NextFilter
  <2>5. f[1] \in DOMAIN config /\ n \in DOMAIN config[f[1]] /\ n \in InterfaceNames
    BY <1>1, <2>2 DEF InterfaceNames
  <2>6. n \in Names /\ IsFiniteSet(DOMAIN config[f[1]][n])
    BY <1>1, <2>5, BinderAssumption
  <2>7. IsKey(ToCKey(n)) /\ ValueOK(ToCValue(codes))
    BY <2>3, <2>6, KeyOfName, ValueOfCodes
  <2>8. FilterKeys' = FilterKeys /\ ToCKey(n) \in FilterKeys
    BY <2>4, <2>5 DEF FilterKeys, InterfaceNames
  <2>9. phase' = "new"
    BY <1>1, <1>2, <2>4 DEF BinderOrder, loopVars
  <2>10. PICK key, value : key = ToCKey(n) /\ value = ToCValue(codes)
    OBVIOUS
  <2>11. /\ DOMAIN filters' = DOMAIN filters \cup {key}
         /\ \A k \in DOMAIN filters' : filters'[k] = IF k = key THEN value ELSE filters[k]
    BY <2>3, <2>10
  <2>12. \A k \in DOMAIN filters' : IsKey(k) /\ ValueOK(filters'[k])
    BY <1>1, <2>7, <2>10, <2>11
  <2>13. DOMAIN filters' \subseteq FilterKeys'
    BY <1>1, <2>8, <2>10, <2>11
  <2>14. \A g \in pending' : g[1] \in DOMAIN config' /\ g[2] \in DOMAIN config'[g[1]]
    BY <1>1, <2>4
  <2> QED
    BY <1>1, <1>2, <2>4, <2>9, <2>12, <2>13, <2>14 DEF BinderOK, BinderOrder, IsKey, ValueOK
<1>5. CASE \E f \in pending : PutFilterFails(f)
  <2>1. pending' = {} /\ access' = "draining" /\ UNCHANGED <<config, found, filters>>
    BY <1>5 DEF PutFilterFails
  <2>2. FilterKeys' = FilterKeys
    BY <2>1 DEF FilterKeys, InterfaceNames
  <2> QED
    BY <1>1, <1>2, <2>1, <2>2 DEF BinderOK, BinderOrder, IsKey, ValueOK
<1>6. CASE StartDrain
  <2>1. /\ phase = "ended" /\ access' = "draining"
        /\ UNCHANGED <<loopVars, config, found, filters, pending>>
    BY <1>6 DEF StartDrain
  <2>2. pending' = {}
    BY <1>1, <2>1 DEF BinderOrder
  <2>3. FilterKeys' = FilterKeys
    BY <2>1 DEF FilterKeys, InterfaceNames
  <2> QED
    BY <1>1, <1>2, <2>1, <2>2, <2>3 DEF BinderOK, BinderOrder, IsKey, ValueOK
<1>7. CASE \E key \in DOMAIN filters : DrainKey(key)
  <2>1. PICK key \in DOMAIN filters : DrainKey(key)
    BY <1>7
  <2>2. access = "draining" /\ UNCHANGED <<loopVars, config, found, pending>> /\ phase' = phase
    BY <2>1 DEF DrainKey, loopVars
  <2>3. FilterKeys' = FilterKeys
    BY <2>2 DEF FilterKeys, InterfaceNames
  <2>4. PICK victim : victim = KeyAgain(key)
    OBVIOUS
  <2>5. CASE victim \in DOMAIN filters
    <3>1. filters' = [k \in DOMAIN filters \ {victim} |-> filters[k]] /\ access' = access
      BY <2>1, <2>4, <2>5 DEF DrainKey
    <3>2. /\ DOMAIN filters' = DOMAIN filters \ {victim}
          /\ \A k \in DOMAIN filters' : filters'[k] = filters[k]
      BY <3>1
    <3> QED
      BY <1>1, <1>2, <2>2, <2>3, <3>1, <3>2 DEF BinderOK, BinderOrder, IsKey, ValueOK
  <2>6. CASE victim \notin DOMAIN filters
    <3>1. access' = "stuck" /\ filters' = filters
      BY <2>1, <2>4, <2>6 DEF DrainKey
    <3>2. ~Padded(key)
      BY <1>1, <2>4, <2>6, KeyFoundAgain
    <3> QED
      BY <1>1, <1>2, <2>2, <2>3, <3>1, <3>2 DEF BinderOK, BinderOrder, IsKey, ValueOK
  <2> QED
    BY <2>5, <2>6
<1>8. CASE DrainEnds
  <2>1. /\ DOMAIN filters = {} /\ access' = "drained"
        /\ UNCHANGED <<loopVars, config, found, filters, pending>> /\ access = "draining"
        /\ phase' = phase
    BY <1>8 DEF DrainEnds, loopVars
  <2>2. FilterKeys' = FilterKeys
    BY <2>1 DEF FilterKeys, InterfaceNames
  <2> QED
    BY <1>1, <1>2, <2>1, <2>2 DEF BinderOK, BinderOrder, IsKey, ValueOK
<1>9. CASE access = "open" /\ pending = {} /\ UNCHANGED binderVars
  BY <1>2, <1>9, StayBinder
<1>10. CASE UNCHANGED binderVars /\ phase # "new"
  <2>1. access # "closed" /\ pending = {}
    BY <1>1, <1>10 DEF BinderOrder
  <2>2. UNCHANGED <<config, found, filters, pending, access>>
    BY <1>10 DEF binderVars
  <2>3. FilterKeys' = FilterKeys
    BY <2>2 DEF FilterKeys, InterfaceNames
  <2> QED
    BY <1>1, <1>2, <2>1, <2>2, <2>3 DEF BinderOK, BinderOrder, IsKey, ValueOK
<1>11. CASE \E i \in 1..RingCapacity : Submit(i) /\ UNCHANGED binderVars
  BY <1>10, <1>11 DEF Submit, SubmitAs, Recording
<1>12. CASE \E n \in Descriptors, c \in Codes : ExecTransactInternal(n, c)
  BY <1>9, <1>12 DEF ExecTransactInternal
<1>13. CASE OnTransaction \/ OnBinderFinished
  BY <1>10, <1>13 DEF OnTransaction, OnBinderFinished, FinishOk
<1> QED
  BY <1>3, <1>4, <1>5, <1>6, <1>7, <1>8, <1>9, <1>11, <1>12, <1>13 DEF BinderNext

-----------------------------------------------------------------------------
(* Bitmaps: the types of the maps and of what the handler keeps. *)

Pointers   == Ptrs \cup {"null", ""}
BitmapData == {d \in [type : Types, ptr : Pointers, size : Nat, activity : Activities \cup {""}] :
                  d.type = "ALLOCATION" => d.ptr \in Ptrs \cup {"null"}}

BitmapOK ==
    /\ version \in {"V0", "V1"}
    /\ keys \in SUBSET Ptrs /\ others \in Nat /\ Cardinality(keys) + others <= ActiveMax
    /\ \A b \in alive \cup ghosts : b.ptr \in Ptrs /\ b.id \in 0..MaxHits[mapPath]
    /\ BitmapsFinite
    /\ \A b \in bitmaps : b.ptr \in Ptrs \cup {"null"}
    /\ current_total_bitmap_size \in Int /\ max_total_bitmap_size \in Nat
    /\ mapPath = "BitmapAllocation_output" => DataIn(ring, BitmapData) /\ DataIn(batch, BitmapData)

LEMMA MetadataFields ==
  ASSUME NEW p, NEW id, NEW s, NEW a
  PROVE  Metadata(p, id, s, a).ptr = p /\ Metadata(p, id, s, a).id = id
BY DEF Metadata

LEMMA InitBitmap == Init => BitmapOK
<1> SUFFICES ASSUME Init PROVE BitmapOK
  OBVIOUS
<1>1. /\ BitmapInit /\ version \in {"V0", "V1"} /\ mapPath \in Maps /\ ring = <<>> /\ batch = <<>>
  BY DEF Init, LoopInit
<1>2. MaxHits[mapPath] \in Nat /\ ActiveMax \in Nat
  BY <1>1, HandlersAssumption, BitmapAssumption
<1>3. /\ keys \in SUBSET Ptrs /\ others \in 0..ActiveMax /\ Cardinality(keys) + others <= ActiveMax
      /\ alive \in SUBSET {Metadata(p, 0, 0, "") : p \in Ptrs} /\ ghosts = {}
      /\ bitmaps = {} /\ current_total_bitmap_size = 0 /\ max_total_bitmap_size = 0
      /\ bitmap_snapshot_at_max_size = {}
  BY <1>1 DEF BitmapInit
<1>4. ASSUME NEW b \in alive \cup ghosts PROVE b.ptr \in Ptrs /\ b.id \in 0..MaxHits[mapPath]
  <2>1. PICK p \in Ptrs : b = Metadata(p, 0, 0, "")
    BY <1>3
  <2>2. b.ptr = p /\ b.id = 0
    BY <2>1 DEF Metadata
  <2> QED
    BY <1>2, <2>2
<1>5. BitmapsFinite
  BY <1>3, FS_EmptySet DEF BitmapsFinite
<1>6. DataIn(ring, BitmapData) /\ DataIn(batch, BitmapData)
  BY <1>1, EmptyIsSeq DEF DataIn
<1>7. others \in Nat /\ 0 \in Int /\ 0 \in Nat
  <2>1. others \in 0..ActiveMax
    BY <1>3
  <2> QED
    BY <1>2, <2>1
<1>8. \A b \in bitmaps : b.ptr \in Ptrs \cup {"null"}
  BY <1>3
<1> QED
  BY <1>1, <1>3, <1>4, <1>5, <1>6, <1>7, <1>8 DEF BitmapOK

LEMMA StayBitmap ==
  ASSUME BitmapOK, UNCHANGED <<mapPath, bitmapVars>>,
         mapPath = "BitmapAllocation_output" => DataIn(ring', BitmapData) /\ DataIn(batch', BitmapData)
  PROVE  BitmapOK'
<1>1. UNCHANGED <<version, program, keys, others, alive, ghosts, current, bitmaps,
                  current_total_bitmap_size, max_total_bitmap_size, bitmap_snapshot_at_max_size,
                  activity_name>>
  BY DEF bitmapVars
<1>2. BitmapsFinite'
  BY <1>1 DEF BitmapOK, BitmapsFinite
<1>3. (mapPath = "BitmapAllocation_output" => DataIn(ring, BitmapData) /\ DataIn(batch, BitmapData))'
  BY DEF DataIn, BitmapData, Pointers, Types
<1> QED
  BY <1>1, <1>2, <1>3 DEF BitmapOK

(* The map of live bitmaps and the bitmaps themselves change, not what the  *)
(* handler keeps.                                                           *)
ProgramsOK ==
    /\ keys' \in SUBSET Ptrs /\ others' = others /\ Cardinality(keys') + others <= ActiveMax
    /\ \A b \in alive' \cup ghosts' : b.ptr \in Ptrs /\ b.id \in 0..MaxHits[mapPath]

LEMMA ProgramsStep ==
  ASSUME BitmapOK, ProgramsOK, UNCHANGED <<mapPath, version, handlerVars>>,
         DataIn(ring', BitmapData), DataIn(batch', BitmapData)
  PROVE  BitmapOK'
<1>1. UNCHANGED <<bitmaps, current_total_bitmap_size, max_total_bitmap_size,
                  bitmap_snapshot_at_max_size>>
  BY DEF handlerVars
<1>2. BitmapsFinite'
  BY <1>1 DEF BitmapOK, BitmapsFinite
<1>3. (DataIn(ring, BitmapData) /\ DataIn(batch, BitmapData))'
  BY DEF DataIn, BitmapData, Pointers, Types
<1> QED
  BY <1>1, <1>2, <1>3 DEF BitmapOK, ProgramsOK

LEMMA KeyAdded ==
  ASSUME BitmapOK, NEW p \in Ptrs
  PROVE  UpdateElem(p) \in SUBSET Ptrs /\ Cardinality(UpdateElem(p)) + others <= ActiveMax
<1>1. keys \in SUBSET Ptrs /\ others \in Nat /\ Cardinality(keys) + others <= ActiveMax
  BY DEF BitmapOK
<1>2. IsFiniteSet(keys) /\ Cardinality(keys) \in Nat /\ ActiveMax \in Nat
  BY <1>1, BitmapAssumption, FS_Subset, FS_CardinalityType
<1>3. Cardinality(keys \cup {p}) <= Cardinality(keys) + 1 /\ Cardinality(keys \cup {p}) \in Nat
  BY <1>2, FS_AddElement, FS_CardinalityType
<1> QED
  BY <1>1, <1>2, <1>3 DEF UpdateElem

LEMMA KeyRemoved ==
  ASSUME BitmapOK, NEW p
  PROVE  keys \ {p} \in SUBSET Ptrs /\ Cardinality(keys \ {p}) + others <= ActiveMax
<1>1. keys \in SUBSET Ptrs /\ others \in Nat /\ Cardinality(keys) + others <= ActiveMax
  BY DEF BitmapOK
<1>2. IsFiniteSet(keys) /\ Cardinality(keys) \in Nat /\ ActiveMax \in Nat
  BY <1>1, BitmapAssumption, FS_Subset, FS_CardinalityType
<1>3. PICK less : less = keys \ {p} /\ less \in SUBSET keys
  OBVIOUS
<1>4. Cardinality(less) <= Cardinality(keys) /\ Cardinality(less) \in Nat
  BY <1>2, <1>3, FS_Subset, FS_CardinalityType
<1> QED
  BY <1>1, <1>2, <1>3, <1>4

LEMMA EventInData ==
  ASSUME NEW t \in Types, NEW p \in Pointers, NEW s \in Nat, NEW a \in Activities \cup {""},
         t = "ALLOCATION" => p \in Ptrs \cup {"null"}
  PROVE  BitmapEvent(t, p, s, a) \in BitmapData
BY DEF BitmapEvent, BitmapData

LEMMA BitmapSteps ==
  ASSUME LoopInv, BitmapOK, mapPath = "BitmapAllocation_output", BitmapNext
  PROVE  BitmapOK'
<1>1. BitmapsFinite /\ DataIn(ring, BitmapData) /\ DataIn(batch, BitmapData)
  BY DEF BitmapOK
<1>2. mapPath' = mapPath
  BY <1>1, BitmapMoves, MoveFacts DEF loopVars
<1>3. /\ MaxHits[mapPath] \in Nat /\ hits \in Nat /\ 0 \in 0..MaxHits[mapPath]
  BY HandlersAssumption DEF LoopInv, Timing, Numbered
<1>4. ASSUME NEW d \in BitmapData, Reserve(d)
      PROVE  /\ DataIn(ring', BitmapData) /\ DataIn(batch', BitmapData)
             /\ hits + 1 \in 0..MaxHits[mapPath]
  <2>1. hits < MaxHits[mapPath]
    BY <1>4 DEF Reserve, Room
  <2> QED
    BY <1>1, <1>3, <1>4, <2>1, ReserveData
<1>5. ASSUME UNCHANGED loopVars PROVE DataIn(ring', BitmapData) /\ DataIn(batch', BitmapData)
  BY <1>1, <1>5 DEF loopVars
<1>6. ASSUME NEW outs, phase = "handling", Collect(outs)
      PROVE  /\ DataIn(ring', BitmapData) /\ DataIn(batch', BitmapData)
             /\ Head(batch).data \in BitmapData
  BY <1>1, <1>6, AcceptData DEF Collect
<1>7. CASE LoopStep /\ UNCHANGED bitmapVars
  BY <1>1, <1>2, <1>7, LoopStepData, StayBitmap
<1>8. CASE \E i \in 1..RingCapacity : Submit(i) /\ UNCHANGED bitmapVars
  <2>1. PICK i \in 1..RingCapacity : Submit(i) /\ UNCHANGED bitmapVars
    BY <1>8
  <2>2. PICK d : d = ring[i].data
    OBVIOUS
  <2>3. i \in DOMAIN ring /\ SubmitAs(i, d)
    BY <2>1, <2>2 DEF Submit
  <2>4. d \in BitmapData
    <3>1. DOMAIN ring = 1..Len(ring)
      BY SeqFacts DEF LoopInv, Numbered
    <3> QED
      BY <1>1, <2>2, <2>3, <3>1 DEF DataIn
  <2>5. DataIn(ring', BitmapData) /\ DataIn(batch', BitmapData)
    BY <1>1, <2>3, <2>4, SubmitData
  <2> QED
    BY <1>2, <2>1, <2>5, StayBitmap
<1>9. CASE BitmapCreation
  <2>1. PICK d \in BitmapData : Reserve(d) /\ UNCHANGED bitmapVars
    <3>1. BitmapEvent("ALLOCATION", "null", 0, "") \in BitmapData
      BY EventInData DEF Types, Pointers
    <3>2. \A t \in Types, p \in Ptrs, s \in Sizes : BitmapEvent(t, p, s, "") \in BitmapData
      BY BitmapAssumption, EventInData DEF Pointers
    <3> QED
      BY <1>9, <3>1, <3>2 DEF BitmapCreation
  <2> QED
    BY <1>2, <1>4, <2>1, StayBitmap
<1>10. CASE \E p \in Ptrs, s \in Sizes : BitmapCreationForSnapshot(p, s)
  <2>1. PICK p \in Ptrs, s \in Sizes : BitmapCreationForSnapshot(p, s)
    BY <1>10
  <2>2. PICK b : b = Metadata(p, hits + 1, s, current)
    OBVIOUS
  <2>3. /\ Reserve(BitmapEvent("ALLOCATION", p, s, ""))
        /\ keys' = UpdateElem(p) /\ alive' = alive \cup {b} /\ ghosts' = Without(ghosts, p)
        /\ UNCHANGED <<version, others, handlerVars>>
    BY <2>1, <2>2 DEF BitmapCreationForSnapshot
  <2>4. BitmapEvent("ALLOCATION", p, s, "") \in BitmapData
    BY BitmapAssumption, EventInData DEF Types, Pointers
  <2>5. /\ DataIn(ring', BitmapData) /\ DataIn(batch', BitmapData)
        /\ hits + 1 \in 0..MaxHits[mapPath]
    BY <1>4, <2>3, <2>4
  <2>6. b.ptr \in Ptrs /\ b.id \in 0..MaxHits[mapPath]
    BY <2>2, <2>5, MetadataFields
  <2>7. ProgramsOK
    BY <2>3, <2>6, KeyAdded DEF ProgramsOK, BitmapOK, Without
  <2> QED
    BY <1>2, <2>3, <2>5, <2>7, ProgramsStep
<1>11. CASE \E p \in Ptrs : BitmapCreationUnrecorded(p)
  <2>1. PICK p \in Ptrs : BitmapCreationUnrecorded(p)
    BY <1>11
  <2>2. PICK b : b = Metadata(p, 0, 0, "")
    OBVIOUS
  <2>3. /\ alive' = alive \cup {b} /\ UNCHANGED loopVars
        /\ UNCHANGED <<version, keys, others, ghosts, handlerVars>>
    BY <2>1, <2>2 DEF BitmapCreationUnrecorded
  <2>4. b.ptr \in Ptrs /\ b.id \in 0..MaxHits[mapPath]
    <3>1. b.ptr = p /\ b.id = 0
      BY <2>2 DEF Metadata
    <3> QED
      BY <1>3, <3>1
  <2>5. ProgramsOK
    BY <2>3, <2>4 DEF ProgramsOK, BitmapOK
  <2> QED
    BY <1>2, <1>5, <2>3, <2>5, ProgramsStep
<1>12. CASE \E b \in alive : ApplyFreeFunction(b)
  <2>1. PICK b \in alive : ApplyFreeFunction(b)
    BY <1>12
  <2>2. PICK s \in StaleSizes : Reserve(BitmapEvent("DEALLOCATION", b.ptr, s, ""))
    BY <2>1 DEF ApplyFreeFunction
  <2>3. /\ keys' = keys \ {b.ptr} /\ alive' = alive \ {b} /\ ghosts' = Without(ghosts, b.ptr)
        /\ UNCHANGED <<version, others, handlerVars>>
    BY <2>1 DEF ApplyFreeFunction
  <2>4. BitmapEvent("DEALLOCATION", b.ptr, s, "") \in BitmapData
    <3>1. s \in Nat
      BY BitmapAssumption DEF StaleSizes
    <3>2. b.ptr \in Pointers
      BY DEF BitmapOK, Pointers
    <3> QED
      BY <3>1, <3>2, EventInData DEF Types
  <2>5. DataIn(ring', BitmapData) /\ DataIn(batch', BitmapData)
    BY <1>4, <2>2, <2>4
  <2>6. ProgramsOK
    BY <2>3, KeyRemoved DEF ProgramsOK, BitmapOK, Without
  <2> QED
    BY <1>2, <2>3, <2>5, <2>6, ProgramsStep
<1>13. CASE \E b \in alive : ApplyFreeFunctionUnrecorded(b)
  <2>1. PICK b \in alive : ApplyFreeFunctionUnrecorded(b)
    BY <1>13
  <2>2. /\ keys' = keys \ {b.ptr} /\ alive' = alive \ {b} /\ ghosts' \subseteq ghosts \cup {b}
        /\ UNCHANGED loopVars /\ UNCHANGED <<version, others, handlerVars>>
    BY <2>1 DEF ApplyFreeFunctionUnrecorded
  <2>3. ProgramsOK
    BY <2>2, KeyRemoved DEF ProgramsOK, BitmapOK
  <2> QED
    BY <1>2, <1>5, <2>2, <2>3, ProgramsStep
<1>14. CASE \E a \in Activities : ActivityPerformStart(a)
  <2>1. PICK a \in Activities : ActivityPerformStart(a)
    BY <1>14
  <2>2. BitmapEvent("ACTIVITY_START", "", 0, a) \in BitmapData
    BY EventInData DEF Types, Pointers
  <2>3. DataIn(ring', BitmapData) /\ DataIn(batch', BitmapData)
    BY <1>4, <1>5, <2>1, <2>2 DEF ActivityPerformStart
  <2>4. UNCHANGED <<version, keys, others, alive, ghosts, handlerVars>>
    BY <2>1 DEF ActivityPerformStart
  <2>5. ProgramsOK
    BY <2>4 DEF ProgramsOK, BitmapOK
  <2> QED
    BY <1>2, <2>3, <2>4, <2>5, ProgramsStep
<1>15. CASE \E p \in Ptrs : CreateScaledBitmap(p)
  <2>1. PICK p \in Ptrs : Reserve(BitmapEvent("BITMAP_SCALED", p, 0, "")) /\ UNCHANGED bitmapVars
    BY <1>15 DEF CreateScaledBitmap
  <2>2. BitmapEvent("BITMAP_SCALED", p, 0, "") \in BitmapData
    BY EventInData DEF Types, Pointers
  <2> QED
    BY <1>2, <1>4, <2>1, <2>2, StayBitmap
<1>16. CASE OnItemV0 \/ OnScaled \/ OnOtherType
  <2>1. PICK outs : phase = "handling" /\ Collect(outs) /\ UNCHANGED bitmapVars
    BY <1>16 DEF OnItemV0, OnScaled, OnOtherType, Item
  <2> QED
    BY <1>2, <1>6, <2>1, StayBitmap
<1>17. CASE OnBitmapFails \/ OnBitmapFinished
  <2>1. UNCHANGED <<ring, batch, bitmapVars>>
    BY <1>17 DEF OnBitmapFails, OnBitmapFinished, Refuse, FinishOk, FinishFails
  <2> QED
    BY <1>1, <1>2, <2>1, StayBitmap
<1>18. CASE OnAllocation
  <2>1. PICK r : r = Head(batch)
    OBVIOUS
  <2>2. PICK b : b = Metadata(r.data.ptr, r.id, r.data.size, activity_name)
    OBVIOUS
  <2>3. /\ phase = "handling" /\ r.data.type = "ALLOCATION" /\ Collect(<<AllocatedAtom(r)>>)
        /\ bitmaps' = Insert(b)
        /\ current_total_bitmap_size' = current_total_bitmap_size + r.data.size
        /\ UNCHANGED <<version, keys, others, alive, ghosts>>
    BY <1>18, <2>1, <2>2 DEF OnAllocation, Item
  <2>4. \/ /\ current_total_bitmap_size' > max_total_bitmap_size
           /\ max_total_bitmap_size' = current_total_bitmap_size'
           /\ bitmap_snapshot_at_max_size' = bitmaps'
        \/ UNCHANGED <<max_total_bitmap_size, bitmap_snapshot_at_max_size>>
    BY <1>18 DEF OnAllocation
  <2>5. DataIn(ring', BitmapData) /\ DataIn(batch', BitmapData) /\ r.data \in BitmapData
    BY <1>6, <2>1, <2>3
  <2>6. r.data.ptr \in Ptrs \cup {"null"} /\ r.data.size \in Nat
    BY <2>3, <2>5 DEF BitmapData
  <2>7. r.id \in 1..MaxHits[mapPath]
    <3>1. r.id = Len(seen) + 1 /\ Len(seen) \in Nat /\ Len(batch) \in Nat \ {0}
      BY <2>1, <2>3, HeadRecord
    <3>2. Len(ring) \in Nat /\ Len(seen) + Len(batch) + Len(ring) <= MaxHits[mapPath]
      BY SeqFacts DEF LoopInv, Numbered
    <3> QED
      BY <1>3, <3>1, <3>2
  <2>8. b.ptr \in Ptrs \cup {"null"} /\ b.id \in 1..MaxHits[mapPath]
    BY <2>2, <2>6, <2>7, MetadataFields
  <2>9. /\ IsFiniteSet(bitmaps')
        /\ \A c \in bitmaps' : c.ptr \in Ptrs \cup {"null"} /\ c.id \in 1..MaxHits[mapPath]
    <3>1. PICK left : left = Without(bitmaps, b.ptr) /\ left \in SUBSET bitmaps
      BY DEF Without
    <3>2. IsFiniteSet(left)
      BY <1>1, <3>1, FS_Subset DEF BitmapsFinite
    <3>3. bitmaps' = left \cup {b}
      BY <2>3, <3>1 DEF Insert
    <3>4. IsFiniteSet(bitmaps')
      BY <3>2, <3>3, FS_AddElement
    <3> QED
      BY <1>1, <2>8, <3>1, <3>3, <3>4 DEF BitmapOK, BitmapsFinite
  <2>10. BitmapsFinite'
    BY <1>1, <1>2, <2>4, <2>9 DEF BitmapsFinite
  <2>11. current_total_bitmap_size' \in Int /\ max_total_bitmap_size' \in Nat
    BY <2>3, <2>4, <2>6 DEF BitmapOK
  <2>12. (DataIn(ring, BitmapData) /\ DataIn(batch, BitmapData))'
    BY <2>5 DEF DataIn, BitmapData, Pointers, Types
  <2> QED
    BY <1>2, <2>3, <2>9, <2>10, <2>11, <2>12 DEF BitmapOK
<1>19. CASE OnDeallocation \/ OnActivityStart
  <2>1. /\ phase = "handling" /\ Collect(<<>>)
        /\ UNCHANGED <<version, keys, others, alive, ghosts, max_total_bitmap_size,
                       bitmap_snapshot_at_max_size>>
        /\ bitmaps' \in SUBSET bitmaps
        /\ \/ current_total_bitmap_size' = current_total_bitmap_size
           \/ current_total_bitmap_size' = current_total_bitmap_size - Head(batch).data.size
    BY <1>19 DEF OnDeallocation, OnActivityStart, Item, Without
  <2>2. DataIn(ring', BitmapData) /\ DataIn(batch', BitmapData) /\ Head(batch).data \in BitmapData
    BY <1>6, <2>1
  <2>3. Head(batch).data.size \in Nat
    BY <2>2 DEF BitmapData
  <2>4. current_total_bitmap_size' \in Int
    BY <2>1, <2>3 DEF BitmapOK
  <2>5. IsFiniteSet(bitmaps')
    BY <1>1, <2>1, FS_Subset DEF BitmapsFinite
  <2>6. BitmapsFinite'
    BY <1>1, <1>2, <2>1, <2>5 DEF BitmapsFinite
  <2>7. (DataIn(ring, BitmapData) /\ DataIn(batch, BitmapData))'
    BY <2>2 DEF DataIn, BitmapData, Pointers, Types
  <2> QED
    BY <1>2, <2>1, <2>4, <2>6, <2>7 DEF BitmapOK
<1> QED
  BY <1>7, <1>8, <1>9, <1>10, <1>11, <1>12, <1>13, <1>14, <1>15, <1>16, <1>17, <1>18, <1>19
     DEF BitmapNext

-----------------------------------------------------------------------------
(* The handlers together. *)

(* Outputs are about records, and grants are reported by their handler only. *)
OutputsTyped ==
    \A n \in 1..Len(out) : /\ out[n].id \in 0..MaxHits[mapPath]
                           /\ out[n].what = "grant" => mapPath = "Accessibility_output_buf"

SettingsOK == userBuild \in BOOLEAN /\ logging.present \in BOOLEAN /\ logging.atomId \in BOOLEAN

AccessibilityInv ==
    Collected /\ (mapPath = "Accessibility_output_buf" => AccessibilityOK)

HandlersInv ==
    LoopInv /\ OutputsTyped /\ SettingsOK /\ AccessibilityInv /\ BinderOK /\ BitmapOK

LEMMA MoreOutputs ==
  ASSUME LoopInv, OutputsTyped, NEW outs, IsSeq(outs), out' = out \o outs, mapPath' = mapPath,
         \A i \in 1..Len(outs) : /\ outs[i].id \in 0..MaxHits[mapPath]
                                 /\ outs[i].what = "grant" => mapPath = "Accessibility_output_buf"
  PROVE  OutputsTyped'
<1>1. IsSeq(out)
  BY DEF LoopInv, Ordered
<1>2. /\ \A i \in 1..Len(out) : out'[i] = out[i]
      /\ \A j \in 1..Len(outs) : out'[Len(out) + j] = outs[j]
      /\ \A i \in 1..Len(out') : i \in 1..Len(out) \/ \E j \in 1..Len(outs) : i = Len(out) + j
  BY <1>1, ConcatParts
<1>3. ASSUME NEW n \in 1..Len(out')
      PROVE  /\ out'[n].id \in 0..MaxHits[mapPath]
             /\ out'[n].what = "grant" => mapPath = "Accessibility_output_buf"
  <2>1. CASE n \in 1..Len(out)
    BY <1>2, <2>1 DEF OutputsTyped
  <2>2. CASE n \notin 1..Len(out)
    <3>1. PICK j \in 1..Len(outs) : n = Len(out) + j
      BY <1>2, <2>2
    <3> QED
      BY <1>2, <3>1
  <2> QED
    BY <2>1, <2>2
<1> QED
  BY <1>3 DEF OutputsTyped

(* The outputs of the record at hand. *)
LEMMA RecordOutputs ==
  ASSUME LoopInv, phase = "handling", NEW outs, OutputsOf(Head(batch).id, outs)
  PROVE  /\ IsSeq(outs)
         /\ \A i \in 1..Len(outs) : /\ outs[i].id \in 0..MaxHits[mapPath]
                                    /\ outs[i].what = "grant" => mapPath = "Accessibility_output_buf"
<1>1. Head(batch).id \in 0..MaxHits[mapPath]
  <2>1. Head(batch).id = Len(seen) + 1 /\ Len(seen) \in Nat /\ Len(batch) \in Nat \ {0}
    BY HeadRecord
  <2>2. Len(ring) \in Nat /\ Len(seen) + Len(batch) + Len(ring) <= MaxHits[mapPath]
    BY SeqFacts DEF LoopInv, Numbered
  <2>3. MaxHits[mapPath] \in Nat
    BY HandlersAssumption DEF LoopInv, Timing
  <2> QED
    BY <2>1, <2>2, <2>3
<1>2. \A i \in 1..Len(outs) : outs[i].what # "grant"
  BY DEF OutputsOf, Summaries
<1> QED
  BY <1>1, <1>2 DEF OutputsOf

LEMMA MoveOutputs ==
  ASSUME LoopInv, OutputsTyped, Move \/ UNCHANGED loopVars
  PROVE  OutputsTyped'
<1>1. mapPath' = mapPath
  BY MoveFacts DEF loopVars
<1>2. CASE UNCHANGED out
  BY <1>1, <1>2 DEF OutputsTyped
<1>3. CASE LoopStep
  BY <1>2, <1>3, LoopStepFacts
<1>4. CASE (\E data : Reserve(data)) \/ (\E i, data : SubmitAs(i, data)) \/ Aborts
  BY <1>2, <1>4 DEF Reserve, SubmitAs, Aborts
<1>5. CASE \E r, outs : Accepts(r, outs)
  <2>1. PICK r, outs : Accepts(r, outs)
    BY <1>5
  <2>2. phase = "handling" /\ OutputsOf(Head(batch).id, outs) /\ out' = out \o outs
    BY <2>1 DEF Accepts, Accept
  <2> QED
    BY <1>1, <2>2, RecordOutputs, MoreOutputs
<1>6. CASE \E outs, type, point : Refuses(outs, type, point)
  <2>1. PICK outs, type, point : Refuses(outs, type, point)
    BY <1>6
  <2>2. phase = "handling" /\ OutputsOf(Head(batch).id, outs) /\ out' = out \o outs
    BY <2>1 DEF Refuses, Refuse
  <2> QED
    BY <1>1, <2>2, RecordOutputs, MoreOutputs
<1>7. CASE \E outs : Finishes(outs)
  <2>1. PICK outs : Finishes(outs)
    BY <1>7
  <2>2. SummaryOutputs(outs) /\ out' = out \o outs
    BY <2>1 DEF Finishes, FinishOk, FinishFails
  <2> QED
    BY <1>1, <2>2, MoreOutputs DEF SummaryOutputs, IsSummary
<1>8. CASE UNCHANGED loopVars
  BY <1>2, <1>8 DEF loopVars
<1> QED
  BY <1>3, <1>4, <1>5, <1>6, <1>7, <1>8 DEF Move

LEMMA InitHandlers == Init => HandlersInv
<1> SUFFICES ASSUME Init PROVE HandlersInv
  OBVIOUS
<1>1. LoopInv /\ BinderOK /\ BitmapOK
  BY InitLoop, InitBinder, InitBitmap
<1>2. /\ out = <<>> /\ ring = <<>> /\ batch = <<>> /\ verdict = "none" /\ events = <<>>
      /\ Len(<<>>) = 0 /\ 1..0 = {}
  BY EmptyIsSeq DEF Init, LoopInit, AccessibilityInit
<1>3. OutputsTyped
  BY <1>2 DEF OutputsTyped
<1>4. SettingsOK
  <2>1. CASE mapPath \in GenericMaps \cup AllowlistMaps
    BY <2>1, GenericAssumption, Zenon DEF Init, GenericInit, SettingsOK, DisruptiveInit
  <2>2. CASE mapPath \notin GenericMaps \cup AllowlistMaps
    <3>1. logging = [present |-> FALSE, atomId |-> FALSE, positions |-> <<>>]
      BY <2>2 DEF Init
    <3>2. logging.present = FALSE /\ logging.atomId = FALSE
      BY <3>1
    <3>3. userBuild \in BOOLEAN
      BY Zenon DEF Init, DisruptiveInit
    <3> QED
      BY <3>2, <3>3, Zenon DEF SettingsOK
  <2> QED
    BY <2>1, <2>2
<1>5. Collected
  BY <1>2 DEF Collected
<1>6. AccessibilityOK
  <2>1. AtomsOK(out)
    BY <1>2, NoAtoms
  <2> QED
    BY <1>2, <1>5, <2>1 DEF AccessibilityOK, DataIn
<1> QED
  BY <1>1, <1>3, <1>4, <1>5, <1>6 DEF HandlersInv, AccessibilityInv

(* The records of another map say nothing of the events. *)
LEMMA StayAccessibility ==
  ASSUME AccessibilityInv, UNCHANGED <<mapPath, events>>, mapPath # "Accessibility_output_buf"
  PROVE  AccessibilityInv'
BY DEF AccessibilityInv, Collected, EventRecords, Kinds

LEMMA StutterHandlers == HandlersInv /\ UNCHANGED vars => HandlersInv'
<1> SUFFICES ASSUME HandlersInv, UNCHANGED vars PROVE HandlersInv'
  OBVIOUS
<1>1. /\ UNCHANGED loopVars /\ UNCHANGED <<mapPath, ring, batch, phase, verdict, seen, out>>
      /\ UNCHANGED <<flags, events, userBuild, logging>> /\ UNCHANGED binderVars
      /\ UNCHANGED bitmapVars
  BY DEF vars, loopVars, accessibilityVars, disruptiveVars, genericVars
<1>2. LoopInv' /\ OutputsTyped'
  BY <1>1, MoveLoop, MoveOutputs DEF HandlersInv
<1>3. SettingsOK'
  BY <1>1, Zenon DEF HandlersInv, SettingsOK
<1>4. BinderOK'
  BY <1>1, StayBinder DEF HandlersInv
<1>5. BitmapOK'
  <2>1. mapPath = "BitmapAllocation_output" => DataIn(ring', BitmapData) /\ DataIn(batch', BitmapData)
    BY <1>1 DEF HandlersInv, BitmapOK
  <2> QED
    BY <1>1, <2>1, StayBitmap DEF HandlersInv
<1>6. AccessibilityInv'
  <2>1. CASE mapPath # "Accessibility_output_buf"
    BY <1>1, <2>1, StayAccessibility DEF HandlersInv
  <2>2. CASE mapPath = "Accessibility_output_buf"
    <3>1. AccessibilityOK
      BY <2>2 DEF HandlersInv, AccessibilityInv
    <3>2. Collected'
      BY <1>1, <3>1 DEF AccessibilityOK, Collected, EventRecords, Kinds
    <3>3. CollectedGrants' = CollectedGrants /\ CollectedCalls' = CollectedCalls
      BY <1>1 DEF CollectedGrants, CollectedCalls
    <3>4. AtomsOK(out)'
      <4>1. PICK outs : outs = out
        OBVIOUS
      <4> QED
        BY <1>1, <3>1, <4>1, AtomsStay DEF AccessibilityOK
    <3>5. (verdict = "ok" => AtomsComplete(out))'
      BY <1>1, <3>1, <3>3 DEF AccessibilityOK, AtomsComplete, IsPreceding, FirstLater, LaterGrants
    <3>6. AccessibilityOK'
      BY <1>1, <3>1, <3>2, <3>4, <3>5 DEF AccessibilityOK, DataIn, EventData, Kinds
    <3> QED
      BY <3>2, <3>6 DEF AccessibilityInv
  <2> QED
    BY <2>1, <2>2
<1> QED
  BY <1>2, <1>3, <1>4, <1>5, <1>6 DEF HandlersInv

(* A step of one handler leaves the state of the others alone. *)
LEMMA NextHandlers == HandlersInv /\ [Next]_vars => HandlersInv'
<1> SUFFICES ASSUME HandlersInv, [Next]_vars PROVE HandlersInv'
  OBVIOUS
<1>1. LoopInv /\ OutputsTyped /\ SettingsOK /\ AccessibilityInv /\ BinderOK /\ BitmapOK
  BY DEF HandlersInv
<1>2. BinderOrder /\ BitmapsFinite
  BY <1>1 DEF BinderOK, BitmapOK
<1>3. CASE UNCHANGED vars
  BY <1>3, StutterHandlers
<1>4. ASSUME Move \/ UNCHANGED loopVars PROVE LoopInv' /\ OutputsTyped' /\ mapPath' = mapPath
  BY <1>1, <1>4, MoveLoop, MoveOutputs, MoveFacts DEF loopVars
<1>5. ASSUME UNCHANGED <<userBuild, logging>> PROVE SettingsOK'
  BY <1>1, <1>5, Zenon DEF SettingsOK
<1>6. ASSUME mapPath # "BitmapAllocation_output", UNCHANGED <<mapPath, bitmapVars>> PROVE BitmapOK'
  BY <1>1, <1>6, StayBitmap
<1>7. ASSUME mapPath # "Binder_output_buf", UNCHANGED <<mapPath, flags, binderVars>> PROVE BinderOK'
  BY <1>1, <1>7, StayBinder
<1>8. CASE PollRegistryFails /\ UNCHANGED flags
  <2>1. /\ phase = "new" /\ mapPath \notin Registered /\ verdict' = "error"
        /\ UNCHANGED <<mapPath, ring, batch, seen, out, events, userBuild, logging, binderVars,
                       bitmapVars>>
    BY <1>8 DEF PollRegistryFails, End, accessibilityVars, disruptiveVars, genericVars
  <2>2. Move
    BY <1>8 DEF PollRegistryFails, Aborts, Move
  <2>3. BinderOK'
    BY <1>1, <1>8, <2>1, StayBinder
  <2>4. BitmapOK'
    <3>1. mapPath = "BitmapAllocation_output" => DataIn(ring', BitmapData) /\ DataIn(batch', BitmapData)
      BY <1>1, <2>1 DEF BitmapOK
    <3> QED
      BY <1>1, <2>1, <3>1, StayBitmap
  <2>5. AccessibilityInv'
    <3>1. CASE mapPath # "Accessibility_output_buf"
      BY <1>1, <2>1, <3>1, StayAccessibility
    <3>2. CASE mapPath = "Accessibility_output_buf"
      <4>1. AccessibilityOK /\ out = <<>>
        BY <1>1, <2>1, <3>2 DEF AccessibilityInv, AccessibilityOK
      <4>2. Collected'
        BY <1>1, <2>1 DEF AccessibilityInv, Collected, EventRecords, Kinds
      <4>3. /\ \A i \in 1..Len(events') : events'[i].id <= Len(seen')
            /\ DataIn(ring', EventData) /\ DataIn(batch', EventData)
        BY <2>1, <4>1 DEF AccessibilityOK
      <4>4. AccessibilityOK'
        BY <2>1, <4>1, <4>2, <4>3, AccessibilityGoesOn
      <4> QED
        BY <4>2, <4>4 DEF AccessibilityInv
    <3> QED
      BY <3>1, <3>2
  <2> QED
    BY <1>4, <1>5, <2>1, <2>2, <2>3, <2>4, <2>5 DEF HandlersInv
<1>9. CASE PollRegistry /\ UNCHANGED flags
  <2>1. mapPath \in Registered
    BY <1>9 DEF PollRegistry
  <2>2. CASE /\ mapPath = "Accessibility_output_buf" /\ AccessibilityNext
             /\ UNCHANGED <<binderVars, bitmapVars, disruptiveVars, genericVars>>
    <3>1. AccessibilityOK
      BY <1>1, <2>2 DEF AccessibilityInv
    <3>2. Move /\ AccessibilityOK'
      BY <1>1, <2>2, <3>1, AccessibilityMoves, AccessibilitySteps
    <3>3. AccessibilityInv'
      BY <3>2 DEF AccessibilityInv, AccessibilityOK
    <3> QED
      BY <1>4, <1>5, <1>6, <1>7, <1>9, <2>2, <3>2, <3>3 DEF HandlersInv, disruptiveVars, genericVars
  <2>3. CASE /\ mapPath = "Binder_output_buf" /\ BinderNext
             /\ UNCHANGED <<accessibilityVars, bitmapVars, disruptiveVars, genericVars>>
    <3>1. Move \/ UNCHANGED loopVars
      BY <1>1, <1>2, <2>1, <2>3, BinderMoves
    <3>2. BinderOK'
      BY <1>1, <1>9, <2>1, <2>3, BinderSteps
    <3>3. AccessibilityInv'
      BY <1>1, <1>4, <2>3, <3>1, StayAccessibility DEF accessibilityVars
    <3> QED
      BY <1>4, <1>5, <1>6, <2>3, <3>1, <3>2, <3>3 DEF HandlersInv, disruptiveVars, genericVars
  <2>4. CASE /\ mapPath = "BitmapAllocation_output" /\ BitmapNext
             /\ UNCHANGED <<accessibilityVars, binderVars, disruptiveVars, genericVars>>
    <3>1. Move \/ UNCHANGED loopVars
      BY <1>1, <1>2, <2>4, BitmapMoves
    <3>2. BitmapOK'
      BY <1>1, <2>4, BitmapSteps
    <3>3. AccessibilityInv'
      BY <1>1, <1>4, <2>4, <3>1, StayAccessibility DEF accessibilityVars
    <3> QED
      BY <1>4, <1>5, <1>7, <1>9, <2>4, <3>1, <3>2, <3>3 DEF HandlersInv, disruptiveVars, genericVars
  <2>5. CASE /\ mapPath \in DisruptiveMaps /\ DisruptiveNext
             /\ UNCHANGED <<accessibilityVars, binderVars, bitmapVars, genericVars>>
    <3>1. Move
      BY <1>1, <2>5, DisruptiveMoves
    <3>2. UNCHANGED userBuild
      BY <2>5 DEF DisruptiveNext, disruptiveVars, BindServiceLocked, SetComponentEnabledSetting,
                  Unreadable, OnProgramError, OnMalformed, OnBind, OnSetting, OnDisruptiveFinished
    <3>3. mapPath \notin {"Accessibility_output_buf", "Binder_output_buf", "BitmapAllocation_output"}
      BY <2>5 DEF DisruptiveMaps
    <3>4. AccessibilityInv'
      BY <1>1, <1>4, <2>5, <3>1, <3>3, StayAccessibility DEF accessibilityVars
    <3> QED
      BY <1>4, <1>5, <1>6, <1>7, <1>9, <2>5, <3>1, <3>2, <3>3, <3>4 DEF HandlersInv, genericVars
  <2>6. CASE /\ mapPath \in GenericMaps \cup AllowlistMaps /\ GenericNext
             /\ UNCHANGED <<accessibilityVars, binderVars, bitmapVars, disruptiveVars>>
    <3>1. Move
      BY <1>1, <2>6, GenericMoves
    <3>2. UNCHANGED logging
      BY <2>6 DEF GenericNext, genericVars, ProbeHits, OnItemUnconfigured, OnItemWritten,
                  OnItemError, OnItemPanics, OnGenericFinished
    <3>3. mapPath \notin {"Accessibility_output_buf", "Binder_output_buf", "BitmapAllocation_output"}
      BY <2>6 DEF GenericMaps, AllowlistMaps
    <3>4. AccessibilityInv'
      BY <1>1, <1>4, <2>6, <3>1, <3>3, StayAccessibility DEF accessibilityVars
    <3> QED
      BY <1>4, <1>5, <1>6, <1>7, <1>9, <2>6, <3>1, <3>2, <3>3, <3>4 DEF HandlersInv, disruptiveVars
  <2> QED
    BY <1>9, <2>2, <2>3, <2>4, <2>5, <2>6 DEF PollRegistry
<1>10. CASE Ended
  BY <1>3, <1>10 DEF Ended
<1> QED
  BY <1>3, <1>8, <1>9, <1>10 DEF Next

LEMMA Invariance == Spec => []HandlersInv
<1> QED
  BY InitHandlers, NextHandlers, PTL DEF Spec

-----------------------------------------------------------------------------
(* What the handler of bitmaps knows.  The records it has not read yet, as  *)
(* a set: their numbers tell their order.  Read to the end, they bring its  *)
(* bitmaps up to date: the last record about a pointer says what it is.     *)
Entry(i, d) == [id |-> i, data |-> d]
EntriesOf(s) == {Entry(s[i].id, s[i].data) : i \in 1..Len(s)}
Unread == EntriesOf(batch) \cup EntriesOf(ring)

IsStart(u)  == u.data.type = "ACTIVITY_START"
About(u, p) == u.data.type \in {"ALLOCATION", "DEALLOCATION"} /\ u.data.ptr = p

(* Of the records U, the last one about p. *)
LastAbout(U, u, p) == About(u, p) /\ \A v \in U : About(v, p) => v.id <= u.id

(* With the records U unread and the name of the activity known, a is the   *)
(* activity once the records before number k are read.                      *)
InForce(U, name, a, k) ==
    \/ \E u \in U : /\ IsStart(u) /\ u.id < k /\ u.data.activity = a
                    /\ \A v \in U : IsStart(v) /\ v.id < k => v.id <= u.id
    \/ a = name /\ \A v \in U : IsStart(v) => v.id >= k

(* The bitmaps K of the process and the bitmaps B of the handler agree on   *)
(* pointer p.                                                               *)
Agree(K, B, p) ==
    /\ \A b \in K : b.ptr = p =>
           \E c \in B : c.ptr = p /\ c.id = b.id /\ (b.activity # "lost" => c = b)
    /\ \A c \in B : c.ptr = p => \E b \in K : b.ptr = p /\ b.id = c.id

(* What the last record u about pointer p says of the bitmaps of the        *)
(* process.                                                                 *)
Says(U, name, K, u, p) ==
    /\ u.data.type = "ALLOCATION" =>
           \E b \in K : /\ b.ptr = p /\ b.id = u.id /\ b.size = u.data.size
                        /\ b.activity # "lost" => InForce(U, name, b.activity, u.id)
    /\ u.data.type = "DEALLOCATION" => \A b \in K : b.ptr # p

OnePerPtr(B) == \A b, c \in B : b.ptr = c.ptr => b = c
IsMetadata(b) == b = Metadata(b.ptr, b.id, b.size, b.activity)

Entries(U, n) ==
    /\ \A u \in U : u.id \in Nat /\ u.id <= n
    /\ \A u, v \in U : u.id = v.id => u = v

(* Of the n records so far U are unread; K is what the process has, and cur *)
(* the activity it has started last.                                        *)
Replays(U, n, K, B, cur, name) ==
    /\ Entries(U, n)
    /\ \A b \in K : IsMetadata(b)
    /\ OnePerPtr(B) /\ OnePerPtr(K)
    /\ cur # "lost" => InForce(U, name, cur, n + 1)
    /\ \A p : (\A u \in U : ~About(u, p)) => Agree(K, B, p)
    /\ \A p : \A u \in U : LastAbout(U, u, p) => Says(U, name, K, u, p)

LEMMA NewEntry ==
  ASSUME NEW U, NEW n \in Nat, Entries(U, n), NEW d
  PROVE  /\ Entry(n + 1, d).id = n + 1 /\ Entry(n + 1, d).data = d
         /\ Entries(U \cup {Entry(n + 1, d)}, n + 1)
         /\ \A u \in U : u.id < n + 1
BY DEF Entries, Entry

(* A record added changes nothing of the activity before it. *)
LEMMA InForceAdd ==
  ASSUME NEW U, NEW n \in Nat, Entries(U, n), NEW d, NEW name, NEW a, NEW k \in Nat, k <= n + 1,
         InForce(U, name, a, k)
  PROVE  InForce(U \cup {Entry(n + 1, d)}, name, a, k)
<1>1. Entry(n + 1, d).id = n + 1
  BY NewEntry
<1>2. ~(Entry(n + 1, d).id < k) /\ Entry(n + 1, d).id >= k
  BY <1>1
<1> QED
  BY <1>2 DEF InForce

(* Nor of the activity after it, unless it is a start. *)
LEMMA InForceLater ==
  ASSUME NEW U, NEW n \in Nat, Entries(U, n), NEW d, d.type # "ACTIVITY_START", NEW name, NEW a,
         InForce(U, name, a, n + 1)
  PROVE  InForce(U \cup {Entry(n + 1, d)}, name, a, (n + 1) + 1)
<1> DEFINE e == Entry(n + 1, d)
<1>1. ~IsStart(e)
  BY NewEntry DEF IsStart
<1>2. \A u \in U : u.id \in Nat /\ u.id <= n
  BY DEF Entries
<1> HIDE DEF e
<1>3. CASE \E u \in U : /\ IsStart(u) /\ u.id < n + 1 /\ u.data.activity = a
                        /\ \A v \in U : IsStart(v) /\ v.id < n + 1 => v.id <= u.id
  <2>1. InForce(U \cup {e}, name, a, (n + 1) + 1)
    BY <1>1, <1>2, <1>3 DEF InForce
  <2> QED
    BY <2>1 DEF e
<1>4. CASE a = name /\ \A v \in U : IsStart(v) => v.id >= n + 1
  <2>1. InForce(U \cup {e}, name, a, (n + 1) + 1)
    BY <1>1, <1>2, <1>4 DEF InForce
  <2> QED
    BY <2>1 DEF e
<1> QED
  BY <1>3, <1>4 DEF InForce

LEMMA SaysAdd ==
  ASSUME NEW U, NEW n \in Nat, Entries(U, n), NEW d, NEW name, NEW K, NEW u \in U, NEW p,
         Says(U, name, K, u, p)
  PROVE  Says(U \cup {Entry(n + 1, d)}, name, K, u, p)
<1>1. u.id \in Nat /\ u.id <= n + 1
  BY DEF Entries
<1>2. \A a : InForce(U, name, a, u.id) => InForce(U \cup {Entry(n + 1, d)}, name, a, u.id)
  BY <1>1, InForceAdd
<1> QED
  BY <1>2 DEF Says

(* A record that says nothing of pointer p is added. *)
LEMMA PtrAdd ==
  ASSUME NEW U, NEW n \in Nat, NEW K, NEW B, NEW cur, NEW name, Replays(U, n, K, B, cur, name),
         NEW d, NEW p, ~About(Entry(n + 1, d), p)
  PROVE  /\ (\A u \in U \cup {Entry(n + 1, d)} : ~About(u, p)) => Agree(K, B, p)
         /\ \A u \in U \cup {Entry(n + 1, d)} : LastAbout(U \cup {Entry(n + 1, d)}, u, p) =>
                Says(U \cup {Entry(n + 1, d)}, name, K, u, p)
<1> DEFINE e == Entry(n + 1, d)
           W == U \cup {e}
<1>1. ASSUME \A u \in W : ~About(u, p) PROVE Agree(K, B, p)
  BY <1>1 DEF Replays
<1>2. ASSUME NEW u \in W, LastAbout(W, u, p) PROVE Says(W, name, K, u, p)
  <2>1. u \in U
    BY <1>2 DEF LastAbout
  <2>2. LastAbout(U, u, p)
    BY <1>2 DEF LastAbout
  <2>3. Says(U, name, K, u, p)
    BY <2>1, <2>2 DEF Replays
  <2> QED
    BY <2>1, <2>3, SaysAdd DEF Replays
<1> QED
  BY <1>1, <1>2

(* A record of another type. *)
LEMMA AddOther ==
  ASSUME NEW U, NEW n \in Nat, NEW K, NEW B, NEW cur, NEW name, Replays(U, n, K, B, cur, name),
         NEW d, d.type \notin {"ALLOCATION", "DEALLOCATION", "ACTIVITY_START"}
  PROVE  Replays(U \cup {Entry(n + 1, d)}, n + 1, K, B, cur, name)
<1> DEFINE e == Entry(n + 1, d)
           W == U \cup {e}
<1>0. Entries(U, n)
  BY DEF Replays
<1>1. e.id = n + 1 /\ e.data = d /\ Entries(W, n + 1) /\ \A u \in U : u.id < n + 1
  BY <1>0, NewEntry
<1>2. \A p : ~About(e, p)
  BY <1>1 DEF About
<1> HIDE DEF e
<1>4. ASSUME cur # "lost" PROVE InForce(W, name, cur, (n + 1) + 1)
  BY <1>0, <1>4, InForceLater DEF Replays, e
<1>5. \A p : /\ (\A u \in W : ~About(u, p)) => Agree(K, B, p)
             /\ \A u \in W : LastAbout(W, u, p) => Says(W, name, K, u, p)
  BY <1>2, PtrAdd DEF e
<1> HIDE DEF W
<1>6. Replays(W, n + 1, K, B, cur, name)
  BY <1>1, <1>4, <1>5 DEF Replays
<1> QED
  BY <1>6 DEF W, e

(* An activity starts. *)
LEMMA AddStart ==
  ASSUME NEW U, NEW n \in Nat, NEW K, NEW B, NEW cur, NEW name, Replays(U, n, K, B, cur, name),
         NEW d, d.type = "ACTIVITY_START"
  PROVE  Replays(U \cup {Entry(n + 1, d)}, n + 1, K, B, d.activity, name)
<1> DEFINE e == Entry(n + 1, d)
           W == U \cup {e}
<1>0. Entries(U, n)
  BY DEF Replays
<1>1. e.id = n + 1 /\ e.data = d /\ Entries(W, n + 1) /\ \A u \in U : u.id < n + 1
  BY <1>0, NewEntry
<1>2. \A p : ~About(e, p)
  BY <1>1 DEF About
<1>3. IsStart(e)
  BY <1>1 DEF IsStart
<1>4. InForce(W, name, d.activity, (n + 1) + 1)
  <2>1. e \in W /\ e.id < (n + 1) + 1 /\ e.data.activity = d.activity
    BY <1>1
  <2>2. \A v \in W : v.id <= e.id
    BY <1>0, <1>1 DEF Entries
  <2> QED
    BY <1>3, <2>1, <2>2 DEF InForce
<1> HIDE DEF e
<1>5. \A p : /\ (\A u \in W : ~About(u, p)) => Agree(K, B, p)
             /\ \A u \in W : LastAbout(W, u, p) => Says(W, name, K, u, p)
  BY <1>2, PtrAdd DEF e
<1> HIDE DEF W
<1>6. Replays(W, n + 1, K, B, d.activity, name)
  BY <1>1, <1>4, <1>5 DEF Replays
<1> QED
  BY <1>6 DEF W, e

LEMMA LoseStart ==
  ASSUME NEW U, NEW n \in Nat, NEW K, NEW B, NEW cur, NEW name, Replays(U, n, K, B, cur, name)
  PROVE  Replays(U, n, K, B, "lost", name)
BY DEF Replays

(* A pointer of which the new record says nothing, while the bitmaps at     *)
(* another pointer change.                                                  *)
LEMMA ElsewhereSays ==
  ASSUME NEW U, NEW name, NEW K, NEW L, NEW u, NEW p, Says(U, name, K, u, p),
         \A b : b.ptr = p => (b \in K <=> b \in L)
  PROVE  Says(U, name, L, u, p)
BY DEF Says

LEMMA ElsewhereAgree ==
  ASSUME NEW K, NEW L, NEW B, NEW C, NEW p, Agree(K, B, p),
         \A b : b.ptr = p => (b \in K <=> b \in L) /\ (b \in B <=> b \in C)
  PROVE  Agree(L, C, p)
BY DEF Agree

(* A bitmap is created, at a pointer not in use. *)
LEMMA AddAllocation ==
  ASSUME NEW U, NEW n \in Nat, NEW K, NEW B, NEW cur, NEW name, Replays(U, n, K, B, cur, name),
         NEW d, d.type = "ALLOCATION"
  PROVE  Replays(U \cup {Entry(n + 1, d)}, n + 1,
                 Without(K, d.ptr) \cup {Metadata(d.ptr, n + 1, d.size, cur)}, B, cur, name)
<1> DEFINE e == Entry(n + 1, d)
           W == U \cup {e}
           new == Metadata(d.ptr, n + 1, d.size, cur)
           L == Without(K, d.ptr) \cup {new}
<1>1. Entries(U, n)
  BY DEF Replays
<1>2. e.id = n + 1 /\ e.data = d /\ Entries(W, n + 1) /\ \A u \in U : u.id < n + 1
  BY <1>1, NewEntry
<1>3. About(e, d.ptr) /\ \A p : p # d.ptr => ~About(e, p)
  BY <1>2 DEF About
<1>4. /\ new.ptr = d.ptr /\ new.id = n + 1 /\ new.size = d.size /\ new.activity = cur
      /\ IsMetadata(new)
  BY DEF Metadata, IsMetadata
<1>5. \A u \in U : u.id \in Nat /\ u.id <= n
  BY <1>1 DEF Entries
<1> HIDE DEF e, new
<1>6. ASSUME cur # "lost" PROVE InForce(W, name, cur, n + 1) /\ InForce(W, name, cur, (n + 1) + 1)
  <2>1. InForce(U, name, cur, n + 1)
    BY <1>6 DEF Replays
  <2>2. n + 1 \in Nat /\ n + 1 <= n + 1
    OBVIOUS
  <2>3. InForce(W, name, cur, n + 1)
    BY <1>1, <2>1, <2>2, InForceAdd DEF e
  <2>4. InForce(W, name, cur, (n + 1) + 1)
    BY <1>1, <2>1, InForceLater DEF e
  <2> QED
    BY <2>3, <2>4
<1>7. OnePerPtr(L) /\ \A b \in L : IsMetadata(b)
  BY <1>4 DEF Replays, OnePerPtr, Without
<1>8. ASSUME NEW p
      PROVE  /\ (\A u \in W : ~About(u, p)) => Agree(L, B, p)
             /\ \A u \in W : LastAbout(W, u, p) => Says(W, name, L, u, p)
  <2>1. CASE p = d.ptr
    <3>1. ~\A u \in W : ~About(u, p)
      BY <1>3, <2>1
    <3>2. ASSUME NEW u \in W, LastAbout(W, u, p) PROVE Says(W, name, L, u, p)
      <4>1. u = e
        <5>1. e.id <= u.id
          BY <1>3, <2>1, <3>2 DEF LastAbout
        <5> QED
          BY <1>2, <1>5, <5>1
      <4>2. u.data.type = "ALLOCATION" /\ u.data.size = d.size /\ u.id = n + 1
        BY <1>2, <4>1
      <4>3. new \in L
        OBVIOUS
      <4> QED
        BY <1>4, <1>6, <2>1, <4>2, <4>3 DEF Says
    <3> QED
      BY <3>1, <3>2
  <2>2. CASE p # d.ptr
    <3>1. /\ (\A u \in W : ~About(u, p)) => Agree(K, B, p)
          /\ \A u \in W : LastAbout(W, u, p) => Says(W, name, K, u, p)
      BY <1>3, <2>2, PtrAdd DEF e
    <3>2. \A b : b.ptr = p => (b \in K <=> b \in L)
      BY <1>4, <2>2 DEF Without
    <3> HIDE DEF L, W
    <3> QED
      BY <3>1, <3>2, ElsewhereSays, ElsewhereAgree
  <2> QED
    BY <2>1, <2>2
<1> HIDE DEF W, L
<1>9. OnePerPtr(B)
  BY DEF Replays
<1>10. Replays(W, n + 1, L, B, cur, name)
  BY <1>2, <1>6, <1>7, <1>8, <1>9 DEF Replays
<1> QED
  BY <1>10 DEF W, L, e, new

(* A bitmap is freed. *)
LEMMA AddDeallocation ==
  ASSUME NEW U, NEW n \in Nat, NEW K, NEW B, NEW cur, NEW name, Replays(U, n, K, B, cur, name),
         NEW d, d.type = "DEALLOCATION"
  PROVE  Replays(U \cup {Entry(n + 1, d)}, n + 1, Without(K, d.ptr), B, cur, name)
<1> DEFINE e == Entry(n + 1, d)
           W == U \cup {e}
           L == Without(K, d.ptr)
<1>1. Entries(U, n)
  BY DEF Replays
<1>2. e.id = n + 1 /\ e.data = d /\ Entries(W, n + 1) /\ \A u \in U : u.id < n + 1
  BY <1>1, NewEntry
<1>3. About(e, d.ptr) /\ \A p : p # d.ptr => ~About(e, p)
  BY <1>2 DEF About
<1>4. \A u \in U : u.id \in Nat /\ u.id <= n
  BY <1>1 DEF Entries
<1> HIDE DEF e
<1>5. ASSUME cur # "lost" PROVE InForce(W, name, cur, (n + 1) + 1)
  BY <1>1, <1>5, InForceLater DEF Replays, e
<1>6. OnePerPtr(L) /\ \A b \in L : IsMetadata(b)
  BY DEF Replays, OnePerPtr, Without
<1>7. ASSUME NEW p
      PROVE  /\ (\A u \in W : ~About(u, p)) => Agree(L, B, p)
             /\ \A u \in W : LastAbout(W, u, p) => Says(W, name, L, u, p)
  <2>1. CASE p = d.ptr
    <3>1. ~\A u \in W : ~About(u, p)
      BY <1>3, <2>1
    <3>2. ASSUME NEW u \in W, LastAbout(W, u, p) PROVE Says(W, name, L, u, p)
      <4>1. u = e
        <5>1. e.id <= u.id
          BY <1>3, <2>1, <3>2 DEF LastAbout
        <5> QED
          BY <1>2, <1>4, <5>1
      <4>2. u.data.type = "DEALLOCATION" /\ \A b \in L : b.ptr # p
        BY <1>2, <2>1, <4>1 DEF Without
      <4> QED
        BY <4>2 DEF Says
    <3> QED
      BY <3>1, <3>2
  <2>2. CASE p # d.ptr
    <3>1. /\ (\A u \in W : ~About(u, p)) => Agree(K, B, p)
          /\ \A u \in W : LastAbout(W, u, p) => Says(W, name, K, u, p)
      BY <1>3, <2>2, PtrAdd DEF e
    <3>2. \A b : b.ptr = p => (b \in K <=> b \in L)
      BY <2>2 DEF Without
    <3> HIDE DEF L, W
    <3> QED
      BY <3>1, <3>2, ElsewhereSays, ElsewhereAgree
  <2> QED
    BY <2>1, <2>2
<1> HIDE DEF W, L
<1>8. OnePerPtr(B)
  BY DEF Replays
<1>9. Replays(W, n + 1, L, B, cur, name)
  BY <1>2, <1>5, <1>6, <1>7, <1>8 DEF Replays
<1> QED
  BY <1>9 DEF W, L, e

(* The oldest record of U is read; V is left. *)
Oldest(U, m, d, V) ==
    m \in Nat /\ U = V \cup {Entry(m, d)} /\ \A v \in V : v.id \in Nat /\ v.id > m

NameAfter(name, d) == IF d.type = "ACTIVITY_START" THEN d.activity ELSE name

LEMMA InForceTake ==
  ASSUME NEW U, NEW m, NEW d, NEW V, Oldest(U, m, d, V), NEW name, NEW a, NEW k \in Nat, k > m,
         InForce(U, name, a, k)
  PROVE  InForce(V, NameAfter(name, d), a, k)
<1> DEFINE e == Entry(m, d)
<1>1. e.id = m /\ e.data = d
  BY DEF Entry
<1> HIDE DEF e
<1>2. U = V \cup {e} /\ m \in Nat /\ \A v \in V : v.id \in Nat /\ v.id > m
  BY DEF Oldest, e
<1>3. CASE d.type = "ACTIVITY_START"
  <2>1. IsStart(e) /\ NameAfter(name, d) = d.activity
    BY <1>1, <1>3 DEF IsStart, NameAfter
  <2>2. PICK u \in U : /\ IsStart(u) /\ u.id < k /\ u.data.activity = a
                      /\ \A v \in U : IsStart(v) /\ v.id < k => v.id <= u.id
    BY <1>1, <1>2, <2>1 DEF InForce
  <2>3. CASE u \in V
    BY <1>2, <2>2, <2>3 DEF InForce
  <2>4. CASE u = e
    <3>1. \A v \in V : IsStart(v) => v.id >= k
      BY <1>1, <1>2, <2>2, <2>4
    <3> QED
      BY <1>1, <2>1, <2>2, <2>4, <3>1 DEF InForce
  <2> QED
    BY <1>2, <2>3, <2>4
<1>4. CASE d.type # "ACTIVITY_START"
  <2>1. ~IsStart(e) /\ NameAfter(name, d) = name
    BY <1>1, <1>4 DEF IsStart, NameAfter
  <2> QED
    BY <1>2, <2>1 DEF InForce
<1> QED
  BY <1>3, <1>4

LEMMA TakeSays ==
  ASSUME NEW U, NEW n \in Nat, NEW K, NEW B, NEW cur, NEW name, Replays(U, n, K, B, cur, name),
         NEW m, NEW d, NEW V, Oldest(U, m, d, V), NEW p, NEW u \in V, LastAbout(V, u, p)
  PROVE  Says(V, NameAfter(name, d), K, u, p)
<1>1. /\ U = V \cup {Entry(m, d)} /\ m \in Nat /\ u.id \in Nat /\ u.id > m /\ u \in U
      /\ Entry(m, d).id = m
  BY DEF Oldest, Entry
<1>2. LastAbout(U, u, p)
  BY <1>1 DEF LastAbout
<1>3. Says(U, name, K, u, p)
  BY <1>1, <1>2 DEF Replays
<1>4. \A a : InForce(U, name, a, u.id) => InForce(V, NameAfter(name, d), a, u.id)
  BY <1>1, InForceTake
<1> QED
  BY <1>3, <1>4 DEF Says

(* The handler's bitmaps become C. *)
LEMMA Take ==
  ASSUME NEW U, NEW n \in Nat, NEW K, NEW B, NEW cur, NEW name, Replays(U, n, K, B, cur, name),
         NEW m, NEW d, NEW V, Oldest(U, m, d, V), NEW C, OnePerPtr(C),
         \A p : (\A v \in V : ~About(v, p)) => Agree(K, C, p)
  PROVE  Replays(V, n, K, C, cur, NameAfter(name, d))
<1>1. Entries(V, n) /\ m <= n
  <2>1. U = V \cup {Entry(m, d)} /\ Entry(m, d).id = m
    BY DEF Oldest, Entry
  <2>2. Entries(U, n)
    BY DEF Replays
  <2> QED
    BY <2>1, <2>2 DEF Entries
<1>2. ASSUME cur # "lost" PROVE InForce(V, NameAfter(name, d), cur, n + 1)
  <2>1. InForce(U, name, cur, n + 1) /\ n + 1 \in Nat /\ m \in Nat
    BY <1>2 DEF Replays, Oldest
  <2>2. n + 1 > m
    BY <1>1, <2>1
  <2> QED
    BY <2>1, <2>2, InForceTake
<1>3. \A p : \A u \in V : LastAbout(V, u, p) => Says(V, NameAfter(name, d), K, u, p)
  BY TakeSays
<1> QED
  BY <1>1, <1>2, <1>3 DEF Replays

(* An allocation is read. *)
LEMMA TakeAllocation ==
  ASSUME NEW U, NEW n \in Nat, NEW K, NEW B, NEW cur, NEW name, Replays(U, n, K, B, cur, name),
         NEW m, NEW d, NEW V, Oldest(U, m, d, V), d.type = "ALLOCATION"
  PROVE  Replays(V, n, K, Without(B, d.ptr) \cup {Metadata(d.ptr, m, d.size, name)}, cur, name)
<1> DEFINE e == Entry(m, d)
           new == Metadata(d.ptr, m, d.size, name)
           C == Without(B, d.ptr) \cup {new}
<1>1. e.id = m /\ e.data = d /\ About(e, d.ptr) /\ \A p : p # d.ptr => ~About(e, p)
  BY DEF Entry, About
<1>2. /\ new.ptr = d.ptr /\ new.id = m /\ new.size = d.size /\ new.activity = name
  BY DEF Metadata
<1>3. U = V \cup {e} /\ m \in Nat /\ \A v \in V : v.id \in Nat /\ v.id > m
  BY DEF Oldest
<1>4. NameAfter(name, d) = name
  BY DEF NameAfter
<1> HIDE DEF e
<1>5. OnePerPtr(C)
  <2> HIDE DEF new
  <2> QED
    BY <1>2 DEF Replays, OnePerPtr, Without
<1>6. ASSUME NEW p, \A v \in V : ~About(v, p) PROVE Agree(K, C, p)
  <2>1. CASE p = d.ptr
    <3>1. LastAbout(U, e, p) /\ e \in U
      BY <1>1, <1>3, <1>6, <2>1 DEF LastAbout
    <3>2. Says(U, name, K, e, p)
      BY <3>1 DEF Replays
    <3>3. PICK b \in K : /\ b.ptr = p /\ b.id = m /\ b.size = d.size
                         /\ b.activity # "lost" => InForce(U, name, b.activity, m)
      BY <1>1, <3>2 DEF Says
    <3>4. ASSUME b.activity # "lost" PROVE b = new
      <4>1. InForce(U, name, b.activity, m)
        BY <3>3, <3>4
      <4>2. b.activity = name
        BY <1>1, <1>3, <4>1 DEF InForce
      <4> QED
        BY <2>1, <3>3, <4>2 DEF Replays, IsMetadata
    <3>5. \A c \in K : c.ptr = p => c = b
      BY <3>3 DEF Replays, OnePerPtr
    <3>6. new \in C /\ \A c \in C : c.ptr = p => c = new
      BY <2>1 DEF Without
    <3> HIDE DEF new, C
    <3> QED
      BY <1>2, <2>1, <3>3, <3>4, <3>5, <3>6 DEF Agree
  <2>2. CASE p # d.ptr
    <3>1. Agree(K, B, p)
      BY <1>1, <1>3, <1>6, <2>2 DEF Replays
    <3>2. \A b : b.ptr = p => (b \in B <=> b \in C)
      <4> HIDE DEF new
      <4> QED
        BY <1>2, <2>2 DEF Without
    <3> HIDE DEF C
    <3> QED
      BY <3>1, <3>2, ElsewhereAgree
  <2> QED
    BY <2>1, <2>2
<1> HIDE DEF C
<1>7. Replays(V, n, K, C, cur, NameAfter(name, d))
  BY <1>5, <1>6, Take
<1> QED
  BY <1>4, <1>7 DEF C, new

(* A release is read. *)
LEMMA TakeDeallocation ==
  ASSUME NEW U, NEW n \in Nat, NEW K, NEW B, NEW cur, NEW name, Replays(U, n, K, B, cur, name),
         NEW m, NEW d, NEW V, Oldest(U, m, d, V), d.type = "DEALLOCATION"
  PROVE  Replays(V, n, K, Without(B, d.ptr), cur, name)
<1> DEFINE e == Entry(m, d)
           C == Without(B, d.ptr)
<1>1. e.id = m /\ e.data = d /\ About(e, d.ptr) /\ \A p : p # d.ptr => ~About(e, p)
  BY DEF Entry, About
<1>2. U = V \cup {e} /\ m \in Nat /\ \A v \in V : v.id \in Nat /\ v.id > m
  BY DEF Oldest
<1>3. NameAfter(name, d) = name
  BY DEF NameAfter
<1> HIDE DEF e
<1>4. OnePerPtr(C)
  BY DEF Replays, OnePerPtr, Without
<1>5. ASSUME NEW p, \A v \in V : ~About(v, p) PROVE Agree(K, C, p)
  <2>1. CASE p = d.ptr
    <3>1. LastAbout(U, e, p) /\ e \in U
      BY <1>1, <1>2, <1>5, <2>1 DEF LastAbout
    <3>2. Says(U, name, K, e, p)
      BY <3>1 DEF Replays
    <3>3. \A b \in K : b.ptr # p
      BY <1>1, <3>2 DEF Says
    <3> QED
      BY <2>1, <3>3 DEF Agree, Without
  <2>2. CASE p # d.ptr
    <3>1. Agree(K, B, p)
      BY <1>1, <1>2, <1>5, <2>2 DEF Replays
    <3>2. \A b : b.ptr = p => (b \in B <=> b \in C)
      BY <2>2 DEF Without
    <3> HIDE DEF C
    <3> QED
      BY <3>1, <3>2, ElsewhereAgree
  <2> QED
    BY <2>1, <2>2
<1> HIDE DEF C
<1>6. Replays(V, n, K, C, cur, NameAfter(name, d))
  BY <1>4, <1>5, Take
<1> QED
  BY <1>3, <1>6 DEF C

(* Another record is read: a start gives the activity its name. *)
LEMMA TakeOther ==
  ASSUME NEW U, NEW n \in Nat, NEW K, NEW B, NEW cur, NEW name, Replays(U, n, K, B, cur, name),
         NEW m, NEW d, NEW V, Oldest(U, m, d, V), d.type \notin {"ALLOCATION", "DEALLOCATION"}
  PROVE  Replays(V, n, K, B, cur, NameAfter(name, d))
<1>1. U = V \cup {Entry(m, d)} /\ Entry(m, d).data = d
  BY DEF Oldest, Entry
<1>2. \A p : ~About(Entry(m, d), p)
  BY <1>1 DEF About
<1>3. \A p : (\A v \in V : ~About(v, p)) => Agree(K, B, p)
  BY <1>1, <1>2 DEF Replays
<1>4. OnePerPtr(B)
  BY DEF Replays
<1> QED
  BY <1>3, <1>4, Take

-----------------------------------------------------------------------------
(* What the moves of the loop do to the unread records. *)

LEMMA RecordNumbers ==
  ASSUME LoopInv
  PROVE  /\ \A i \in 1..Len(batch) : batch[i].id = Len(seen) + i
         /\ \A i \in 1..Len(ring) : ring[i].id = Len(seen) + Len(batch) + i
<1>1. ASSUME NEW r, NEW k, IsRecordNo(r, k) PROVE r.id = k
  BY <1>1 DEF IsRecordNo
<1>2. /\ \A i \in 1..Len(batch) : IsRecordNo(batch[i], Len(seen) + i)
      /\ \A i \in 1..Len(ring) : IsRecordNo(ring[i], Len(seen) + Len(batch) + i)
  BY DEF LoopInv, Numbered
<1> QED
  BY <1>1, <1>2

LEMMA UnreadNumbers ==
  ASSUME LoopInv
  PROVE  /\ hits \in Nat /\ Len(seen) \in Nat /\ Entries(Unread, hits)
         /\ \A u \in Unread : u.id \in Nat /\ u.id > Len(seen)
<1>1. /\ IsSeq(ring) /\ IsSeq(batch) /\ IsSeq(seen) /\ Len(ring) \in Nat /\ Len(batch) \in Nat
      /\ Len(seen) \in Nat /\ hits \in Nat /\ hits = Len(seen) + Len(batch) + Len(ring)
  BY SeqFacts DEF LoopInv, Numbered
<1>2. \A i \in 1..Len(batch) : batch[i].id = Len(seen) + i
  BY RecordNumbers
<1>3. \A i \in 1..Len(ring) : ring[i].id = Len(seen) + Len(batch) + i
  BY RecordNumbers
<1>4. \A u \in EntriesOf(batch) : \E i \in 1..Len(batch) : u = Entry(batch[i].id, batch[i].data)
                                     /\ u.id = Len(seen) + i
  BY <1>2 DEF EntriesOf, Entry
<1>5. \A u \in EntriesOf(ring) : \E i \in 1..Len(ring) : u = Entry(ring[i].id, ring[i].data)
                                     /\ u.id = Len(seen) + Len(batch) + i
  BY <1>3 DEF EntriesOf, Entry
<1>6. /\ \A u \in EntriesOf(batch) : u.id \in Nat /\ u.id > Len(seen) /\ u.id <= Len(seen) + Len(batch)
      /\ \A u \in EntriesOf(ring) : u.id \in Nat /\ u.id > Len(seen) + Len(batch) /\ u.id <= hits
  BY <1>1, <1>4, <1>5
<1>7. ASSUME NEW u \in Unread, NEW v \in Unread, u.id = v.id PROVE u = v
  <2>1. CASE u \in EntriesOf(batch)
    <3>1. v \in EntriesOf(batch)
      BY <1>1, <1>6, <1>7, <2>1 DEF Unread
    <3>2. PICK i \in 1..Len(batch) : u = Entry(batch[i].id, batch[i].data) /\ u.id = Len(seen) + i
      BY <1>4, <2>1
    <3>3. PICK j \in 1..Len(batch) : v = Entry(batch[j].id, batch[j].data) /\ v.id = Len(seen) + j
      BY <1>4, <3>1
    <3>4. i = j
      BY <1>1, <1>7, <3>2, <3>3
    <3> QED
      BY <3>2, <3>3, <3>4
  <2>2. CASE u \in EntriesOf(ring)
    <3>1. v \in EntriesOf(ring)
      BY <1>1, <1>6, <1>7, <2>2 DEF Unread
    <3>2. PICK i \in 1..Len(ring) : u = Entry(ring[i].id, ring[i].data) /\ u.id = Len(seen) + Len(batch) + i
      BY <1>5, <2>2
    <3>3. PICK j \in 1..Len(ring) : v = Entry(ring[j].id, ring[j].data) /\ v.id = Len(seen) + Len(batch) + j
      BY <1>5, <3>1
    <3>4. i = j
      BY <1>1, <1>7, <3>2, <3>3
    <3> QED
      BY <3>2, <3>3, <3>4
  <2> QED
    BY <2>1, <2>2 DEF Unread
<1>8. \A u \in Unread : u.id \in Nat /\ u.id > Len(seen) /\ u.id <= hits
  BY <1>1, <1>6 DEF Unread
<1> QED
  BY <1>1, <1>7, <1>8 DEF Entries

LEMMA UnreadLoopStep ==
  ASSUME LoopInv, LoopStep
  PROVE  Unread' = Unread /\ hits' = hits
<1>1. CASE UNCHANGED <<ring, batch, hits>>
  BY <1>1 DEF Unread, EntriesOf, Entry
<1>2. CASE PollReturns
  <2> DEFINE n == Max(Readable)
  <2>1. batch' = SubSeq(ring, 1, n) /\ ring' = SubSeq(ring, n + 1, Len(ring)) /\ hits' = hits
        /\ phase = "polling"
    BY <1>2 DEF PollReturns, Consumed
  <2>2. IsSeq(ring) /\ Len(ring) \in Nat /\ Len(batch) = 0
    BY <2>1, SeqFacts DEF LoopInv, Numbered, Phased
  <2>3. n \in 0..Len(ring)
    <3>1. Readable \in SUBSET (0..Len(ring)) /\ 0 \in Readable
      BY <2>2 DEF Readable
    <3> QED
      BY <2>2, <3>1, MaxIsGreatest
  <2> HIDE DEF n
  <2>4. /\ 1 \in 1..(Len(ring) + 1) /\ 1 <= n + 1 /\ n - 1 + 1 = n
        /\ n + 1 \in 1..(Len(ring) + 1) /\ Len(ring) \in 0..Len(ring) /\ n + 1 <= Len(ring) + 1
        /\ Len(ring) - (n + 1) + 1 = Len(ring) - n
        /\ \A i \in 1..n : 1 + i - 1 = i
        /\ \A i \in 1..(Len(ring) - n) : (n + 1) + i - 1 = n + i
    BY <2>2, <2>3
  <2>5. Len(batch') = n /\ \A i \in 1..n : batch'[i] = ring[i]
    <3>1. /\ Len(batch') = n - 1 + 1 /\ \A i \in 1..(n - 1 + 1) : batch'[i] = ring[1 + i - 1]
      BY <2>1, <2>2, <2>3, <2>4, SubSeqIsSeq
    <3> QED
      BY <2>4, <3>1
  <2>6. Len(ring') = Len(ring) - n /\ \A i \in 1..(Len(ring) - n) : ring'[i] = ring[n + i]
    <3>1. /\ Len(ring') = Len(ring) - (n + 1) + 1
          /\ \A i \in 1..(Len(ring) - (n + 1) + 1) : ring'[i] = ring[(n + 1) + i - 1]
      BY <2>1, <2>2, <2>4, SubSeqIsSeq
    <3> QED
      BY <2>4, <3>1
  <2>7. EntriesOf(batch) = {}
    BY <2>2 DEF EntriesOf
  <2>8. ASSUME NEW u PROVE u \in EntriesOf(ring) <=> u \in EntriesOf(batch') \cup EntriesOf(ring')
    <3>1. ASSUME NEW i \in 1..Len(ring), u = Entry(ring[i].id, ring[i].data)
          PROVE  u \in EntriesOf(batch') \cup EntriesOf(ring')
      <4>1. CASE i <= n
        <5>1. i \in 1..n
          BY <2>3, <4>1
        <5> QED
          BY <2>5, <3>1, <5>1 DEF EntriesOf
      <4>2. CASE ~(i <= n)
        <5>1. PICK j \in 1..(Len(ring) - n) : i = n + j
          <6>1. i - n \in 1..(Len(ring) - n) /\ i = n + (i - n)
            BY <2>2, <2>3, <4>2
          <6> QED
            BY <6>1
        <5> QED
          BY <2>6, <3>1, <5>1 DEF EntriesOf
      <4> QED
        BY <4>1, <4>2
    <3>2. ASSUME u \in EntriesOf(batch') PROVE u \in EntriesOf(ring)
      <4>1. PICK i \in 1..n : u = Entry(ring[i].id, ring[i].data)
        BY <2>5, <3>2 DEF EntriesOf
      <4>2. i \in 1..Len(ring)
        BY <2>2, <2>3
      <4> QED
        BY <4>1, <4>2 DEF EntriesOf
    <3>3. ASSUME u \in EntriesOf(ring') PROVE u \in EntriesOf(ring)
      <4>1. PICK j \in 1..(Len(ring) - n) : u = Entry(ring[n + j].id, ring[n + j].data)
        BY <2>6, <3>3 DEF EntriesOf
      <4>2. n + j \in 1..Len(ring)
        BY <2>2, <2>3
      <4> QED
        BY <4>1, <4>2 DEF EntriesOf
    <3> QED
      BY <3>1, <3>2, <3>3 DEF EntriesOf
  <2>9. Unread' = EntriesOf(batch') \cup EntriesOf(ring')
    BY DEF Unread, EntriesOf, Entry
  <2> QED
    BY <2>1, <2>7, <2>8, <2>9 DEF Unread
<1> QED
  BY <1>1, <1>2 DEF LoopStep, Tick, CreateRingBuffer, CreateRingBufferFails, StartPoll,
                    StartPollFails, PollTimesOut, PollFails, TimerExpires

LEMMA UnreadReserve ==
  ASSUME LoopInv, NEW d, Reserve(d)
  PROVE  Unread' = Unread \cup {Entry(hits + 1, d)} /\ hits' = hits + 1
<1> DEFINE new == [id |-> hits + 1, ready |-> FALSE, data |-> d]
<1>1. ring' = Append(ring, new) /\ batch' = batch /\ hits' = hits + 1
  BY DEF Reserve
<1>2. IsSeq(ring) /\ Len(ring) \in Nat
  BY SeqFacts DEF LoopInv, Numbered
<1>3. Entry(new.id, new.data) = Entry(hits + 1, d)
  OBVIOUS
<1> HIDE DEF new
<1>4. /\ Len(ring') = Len(ring) + 1
      /\ \A i \in 1..Len(ring) : ring'[i] = ring[i]
      /\ ring'[Len(ring) + 1] = new
  BY <1>1, <1>2, AppendIsSeq
<1>5. 1..(Len(ring) + 1) = (1..Len(ring)) \cup {Len(ring) + 1}
  BY <1>2
<1>6. EntriesOf(ring') = EntriesOf(ring) \cup {Entry(hits + 1, d)}
  BY <1>3, <1>4, <1>5 DEF EntriesOf
<1>7. Unread' = EntriesOf(batch') \cup EntriesOf(ring')
  BY DEF Unread, EntriesOf, Entry
<1> QED
  BY <1>1, <1>6, <1>7 DEF Unread

LEMMA UnreadSubmit ==
  ASSUME LoopInv, NEW i, Submit(i)
  PROVE  Unread' = Unread /\ hits' = hits
<1>1. /\ i \in DOMAIN ring /\ ring' = [ring EXCEPT ![i].ready = TRUE, ![i].data = ring[i].data]
      /\ batch' = batch /\ hits' = hits
  BY DEF Submit, SubmitAs
<1>2. IsSeq(ring) /\ Len(ring) \in Nat /\ DOMAIN ring = 1..Len(ring)
  BY SeqFacts DEF LoopInv, Numbered
<1> DEFINE new == [[ring[i] EXCEPT !.ready = TRUE] EXCEPT !.data = ring[i].data]
<1>3. ring' = [ring EXCEPT ![i] = new]
  BY <1>1
<1>4. new.data = ring[i].data /\ new.id = ring[i].id
  <2>1. IsRecordNo(ring[i], Len(seen) + Len(batch) + i)
    BY <1>1, <1>2 DEF LoopInv, Numbered
  <2>2. PICK r, k : r = ring[i] /\ r = [id |-> k, ready |-> r.ready, data |-> r.data]
    BY <2>1 DEF IsRecordNo
  <2>3. DOMAIN r = {"id", "ready", "data"}
    BY <2>2
  <2> QED
    BY <2>2, <2>3
<1> HIDE DEF new
<1>5. Len(ring') = Len(ring) /\ \A j \in 1..Len(ring) : ring'[j] = IF j = i THEN new ELSE ring[j]
  <2>1. i \in 1..Len(ring)
    BY <1>1, <1>2
  <2> QED
    BY <1>2, <1>3, <2>1, ExceptIsSeq
<1>6. \A j \in 1..Len(ring) : Entry(ring'[j].id, ring'[j].data) = Entry(ring[j].id, ring[j].data)
  BY <1>4, <1>5
<1>7. EntriesOf(ring') = EntriesOf(ring)
  BY <1>5, <1>6 DEF EntriesOf
<1>8. Unread' = EntriesOf(batch') \cup EntriesOf(ring')
  BY DEF Unread, EntriesOf, Entry
<1> QED
  BY <1>1, <1>7, <1>8 DEF Unread

LEMMA UnreadAccept ==
  ASSUME LoopInv, phase = "handling", NEW r, NEW outs, Accept(r, outs)
  PROVE  Oldest(Unread, Head(batch).id, Head(batch).data, Unread') /\ hits' = hits
<1>1. ring' = ring /\ batch' = Tail(batch) /\ hits' = hits
  BY DEF Accept
<1>2. /\ IsSeq(batch) /\ Len(batch) \in Nat \ {0} /\ batch # <<>> /\ Head(batch) = batch[1]
      /\ Head(batch).id = Len(seen) + 1
  BY HeadRecord
<1>3. IsSeq(ring) /\ Len(ring) \in Nat /\ Len(seen) \in Nat
  BY SeqFacts DEF LoopInv, Numbered
<1>4. Len(batch') = Len(batch) - 1 /\ \A i \in 1..(Len(batch) - 1) : batch'[i] = batch[i + 1]
  BY <1>1, <1>2, TailIsSeq
<1> DEFINE m == Head(batch).id
           e == Entry(m, Head(batch).data)
<1>5. e \in EntriesOf(batch)
  BY <1>2 DEF EntriesOf
<1>6. ASSUME NEW u \in EntriesOf(batch') PROVE u \in EntriesOf(batch) /\ u.id \in Nat /\ u.id > m
  <2>1. PICK i \in 1..(Len(batch) - 1) : u = Entry(batch[i + 1].id, batch[i + 1].data)
    BY <1>4, <1>6 DEF EntriesOf
  <2>2. PICK j \in 1..Len(batch) : j = i + 1
    BY <1>2
  <2>3. batch[j].id = Len(seen) + j
    BY RecordNumbers
  <2>4. u = Entry(batch[j].id, batch[j].data) /\ u.id = Len(seen) + j
    BY <2>1, <2>2, <2>3 DEF Entry
  <2>5. j \in Nat /\ j > 1
    BY <2>2
  <2>6. u.id \in Nat /\ u.id > m
    BY <1>2, <1>3, <2>4, <2>5
  <2> QED
    BY <2>4, <2>6 DEF EntriesOf
<1>7. ASSUME NEW u \in EntriesOf(batch), u # e PROVE u \in EntriesOf(batch')
  <2>1. PICK j \in 1..Len(batch) : u = Entry(batch[j].id, batch[j].data)
    BY <1>7 DEF EntriesOf
  <2>2. j # 1
    BY <1>2, <1>7, <2>1
  <2>3. PICK i \in 1..(Len(batch) - 1) : i + 1 = j
    <3>1. j - 1 \in 1..(Len(batch) - 1) /\ (j - 1) + 1 = j
      BY <1>2, <2>2
    <3> QED
      BY <3>1
  <2>4. batch'[i] = batch[j]
    BY <1>4, <2>3
  <2> QED
    BY <1>4, <2>1, <2>4 DEF EntriesOf
<1>8. ASSUME NEW u \in EntriesOf(ring) PROVE u.id \in Nat /\ u.id > m
  <2>1. PICK j \in 1..Len(ring) : u = Entry(ring[j].id, ring[j].data)
    BY <1>8 DEF EntriesOf
  <2>2. ring[j].id = Len(seen) + Len(batch) + j
    BY RecordNumbers
  <2>3. u.id = Len(seen) + Len(batch) + j
    BY <2>1, <2>2 DEF Entry
  <2> QED
    BY <1>2, <1>3, <2>3
<1>9. Unread' = EntriesOf(batch') \cup EntriesOf(ring)
  BY <1>1 DEF Unread, EntriesOf, Entry
<1>10. m \in Nat
  BY <1>2, <1>3
<1> HIDE DEF m
<1>11. Unread = Unread' \cup {e}
  BY <1>5, <1>6, <1>7, <1>9 DEF Unread
<1>12. \A u \in Unread' : u.id \in Nat /\ u.id > m
  BY <1>6, <1>8, <1>9
<1>13. Oldest(Unread, m, Head(batch).data, Unread')
  BY <1>10, <1>11, <1>12 DEF Oldest
<1> QED
  BY <1>1, <1>13 DEF m

(* The bitmaps the handler should know once it has read every record. *)
Known == {b \in alive : b.id # 0} \cup ghosts

Snapshotting == version = "V1" /\ program = "bitmap_creation_for_snapshot"

BitmapsReplay ==
    Snapshotting => /\ mapPath = "BitmapAllocation_output" /\ OnePerPtr(alive)
                    /\ Replays(Unread, hits, Known, bitmaps, current, activity_name)

LEMMA InitReplay == Init => BitmapsReplay
<1> SUFFICES ASSUME Init, Snapshotting
             PROVE  /\ mapPath = "BitmapAllocation_output" /\ OnePerPtr(alive)
                    /\ Replays(Unread, hits, Known, bitmaps, current, activity_name)
  BY DEF BitmapsReplay
<1>0. mapPath = "BitmapAllocation_output"
  BY DEF Init, Snapshotting
<1>1. ring = <<>> /\ batch = <<>> /\ hits = 0
  BY DEF Init, LoopInit
<1>2. /\ alive \in SUBSET {Metadata(p, 0, 0, "") : p \in Ptrs} /\ ghosts = {} /\ current = ""
      /\ bitmaps = {} /\ activity_name = ""
  BY DEF Init, BitmapInit
<1>3. Unread = {}
  BY <1>1, EmptyIsSeq DEF Unread, EntriesOf
<1>4. ASSUME NEW b \in alive PROVE b.id = 0 /\ b = Metadata(b.ptr, 0, 0, "")
  <2>1. PICK p \in Ptrs : b = Metadata(p, 0, 0, "")
    BY <1>2
  <2> QED
    BY <2>1 DEF Metadata
<1>5. Known = {}
  BY <1>2, <1>4 DEF Known
<1>6. OnePerPtr(alive)
  BY <1>4 DEF OnePerPtr
<1> QED
  BY <1>0, <1>1, <1>2, <1>3, <1>5, <1>6 DEF Replays, Entries, OnePerPtr, InForce, Agree

(* The bitmaps of the process, when those of the handler and the unread     *)
(* records stay.                                                            *)
LEMMA ReplayStays ==
  ASSUME BitmapsReplay, UNCHANGED <<mapPath, bitmapVars, hits>>, Unread' = Unread
  PROVE  BitmapsReplay'
<1>1. /\ Known' = Known /\ alive' = alive /\ bitmaps' = bitmaps /\ current' = current
      /\ activity_name' = activity_name /\ hits' = hits
      /\ version' = version /\ program' = program /\ mapPath' = mapPath
  BY DEF Known, bitmapVars
<1> QED
  BY <1>1 DEF BitmapsReplay, Snapshotting

LEMMA UnreadStays == ASSUME UNCHANGED <<ring, batch>> PROVE Unread' = Unread
BY DEF Unread, EntriesOf, Entry

(* The steps of the programs. *)
LEMMA ReplayPrograms ==
  ASSUME LoopInv, BitmapsReplay, Snapshotting,
         \/ BitmapCreation
         \/ \E p \in Ptrs : \/ \E s \in Sizes : BitmapCreationForSnapshot(p, s)
                            \/ BitmapCreationUnrecorded(p) \/ CreateScaledBitmap(p)
         \/ \E b \in alive : ApplyFreeFunction(b) \/ ApplyFreeFunctionUnrecorded(b)
         \/ \E a \in Activities : ActivityPerformStart(a)
  PROVE  BitmapsReplay'
<1>1. /\ OnePerPtr(alive) /\ hits \in Nat
      /\ Replays(Unread, hits, Known, bitmaps, current, activity_name)
  BY UnreadNumbers DEF BitmapsReplay
<1>2. mapPath' = "BitmapAllocation_output"
  BY DEF BitmapCreation, BitmapCreationForSnapshot, BitmapCreationUnrecorded, CreateScaledBitmap,
         ApplyFreeFunction, ApplyFreeFunctionUnrecorded, ActivityPerformStart, Reserve, loopVars,
         BitmapsReplay
<1>3. CASE BitmapCreation
  BY <1>3 DEF BitmapCreation, Snapshotting
<1>4. ASSUME NEW p \in Ptrs, NEW s \in Sizes, BitmapCreationForSnapshot(p, s) PROVE BitmapsReplay'
  <2> DEFINE d == BitmapEvent("ALLOCATION", p, s, "")
             new == Metadata(p, hits + 1, s, current)
  <2>1. /\ p \notin {b.ptr : b \in alive} /\ Reserve(d) /\ alive' = alive \cup {new}
        /\ ghosts' = Without(ghosts, p)
        /\ UNCHANGED <<bitmaps, current, activity_name>>
    BY <1>4 DEF BitmapCreationForSnapshot, handlerVars
  <2>2. d.type = "ALLOCATION" /\ d.ptr = p /\ d.size = s
    BY DEF BitmapEvent
  <2>3. new.ptr = p /\ new.id = hits + 1 /\ new.id # 0
    BY <1>1 DEF Metadata
  <2> HIDE DEF d, new
  <2>4. Unread' = Unread \cup {Entry(hits + 1, d)} /\ hits' = hits + 1
    BY <2>1, UnreadReserve
  <2>5. Known' = Without(Known, p) \cup {new}
    BY <2>1, <2>3 DEF Known, Without
  <2>6. OnePerPtr(alive')
    BY <1>1, <2>1, <2>3 DEF OnePerPtr
  <2>7. Replays(Unread \cup {Entry(hits + 1, d)}, hits + 1,
                Without(Known, d.ptr) \cup {Metadata(d.ptr, hits + 1, d.size, current)},
                bitmaps, current, activity_name)
    BY <1>1, <2>2, AddAllocation
  <2>8. Without(Known, d.ptr) \cup {Metadata(d.ptr, hits + 1, d.size, current)} = Known'
    BY <2>2, <2>5 DEF new
  <2> QED
    BY <1>2, <2>1, <2>4, <2>6, <2>7, <2>8 DEF BitmapsReplay
<1>5. ASSUME NEW p \in Ptrs, BitmapCreationUnrecorded(p) PROVE BitmapsReplay'
  <2> DEFINE new == Metadata(p, 0, 0, "")
  <2>1. /\ p \notin {b.ptr : b \in alive} /\ UNCHANGED loopVars /\ alive' = alive \cup {new}
        /\ UNCHANGED <<ghosts, bitmaps, current, activity_name>>
    BY <1>5 DEF BitmapCreationUnrecorded, handlerVars
  <2>2. new.ptr = p /\ new.id = 0
    BY DEF Metadata
  <2> HIDE DEF new
  <2>3. Known' = Known
    BY <2>1, <2>2 DEF Known
  <2>4. OnePerPtr(alive')
    BY <1>1, <2>1, <2>2 DEF OnePerPtr
  <2>5. Unread' = Unread /\ hits' = hits
    BY <2>1, UnreadStays DEF loopVars
  <2> QED
    BY <1>2, <1>1, <2>1, <2>3, <2>4, <2>5 DEF BitmapsReplay
<1>6. ASSUME NEW p \in Ptrs, CreateScaledBitmap(p) PROVE BitmapsReplay'
  <2> DEFINE d == BitmapEvent("BITMAP_SCALED", p, 0, "")
  <2>1. Reserve(d) /\ UNCHANGED <<alive, ghosts, bitmaps, current, activity_name>>
    BY <1>6 DEF CreateScaledBitmap, bitmapVars
  <2>2. d.type = "BITMAP_SCALED"
    BY DEF BitmapEvent
  <2> HIDE DEF d
  <2>3. Unread' = Unread \cup {Entry(hits + 1, d)} /\ hits' = hits + 1 /\ Known' = Known
    BY <2>1, UnreadReserve DEF Known
  <2>4. Replays(Unread \cup {Entry(hits + 1, d)}, hits + 1, Known, bitmaps, current, activity_name)
    BY <1>1, <2>2, AddOther
  <2> QED
    BY <1>2, <1>1, <2>1, <2>3, <2>4 DEF BitmapsReplay
<1>7. ASSUME NEW b \in alive, ApplyFreeFunction(b) PROVE BitmapsReplay'
  <2>1. PICK s : /\ Reserve(BitmapEvent("DEALLOCATION", b.ptr, s, ""))
                 /\ alive' = alive \ {b} /\ ghosts' = Without(ghosts, b.ptr)
                 /\ UNCHANGED <<bitmaps, current, activity_name>>
    BY <1>7 DEF ApplyFreeFunction, handlerVars
  <2> DEFINE d == BitmapEvent("DEALLOCATION", b.ptr, s, "")
  <2>2. d.type = "DEALLOCATION" /\ d.ptr = b.ptr
    BY DEF BitmapEvent
  <2>3. Reserve(d)
    BY <2>1
  <2> HIDE DEF d
  <2>4. Unread' = Unread \cup {Entry(hits + 1, d)} /\ hits' = hits + 1
    BY <2>3, UnreadReserve
  <2>5. Known' = Without(Known, b.ptr)
    BY <1>1, <2>1 DEF Known, Without, OnePerPtr
  <2>6. OnePerPtr(alive')
    BY <1>1, <2>1 DEF OnePerPtr
  <2>7. Replays(Unread \cup {Entry(hits + 1, d)}, hits + 1, Without(Known, d.ptr), bitmaps,
                current, activity_name)
    BY <1>1, <2>2, AddDeallocation
  <2> QED
    BY <1>2, <2>1, <2>2, <2>4, <2>5, <2>6, <2>7 DEF BitmapsReplay
<1>8. ASSUME NEW b \in alive, ApplyFreeFunctionUnrecorded(b) PROVE BitmapsReplay'
  <2>1. /\ UNCHANGED loopVars /\ alive' = alive \ {b}
        /\ ghosts' = (IF b.id = 0 THEN ghosts ELSE ghosts \cup {b})
        /\ UNCHANGED <<bitmaps, current, activity_name>>
    BY <1>8 DEF ApplyFreeFunctionUnrecorded, handlerVars
  <2>2. Known' = Known
    BY <2>1 DEF Known
  <2>3. OnePerPtr(alive')
    BY <1>1, <2>1 DEF OnePerPtr
  <2>4. Unread' = Unread /\ hits' = hits
    BY <2>1, UnreadStays DEF loopVars
  <2> QED
    BY <1>2, <1>1, <2>1, <2>2, <2>3, <2>4 DEF BitmapsReplay
<1>9. ASSUME NEW a \in Activities, ActivityPerformStart(a) PROVE BitmapsReplay'
  <2> DEFINE d == BitmapEvent("ACTIVITY_START", "", 0, a)
  <2>1. /\ \/ Reserve(d) /\ current' = a
           \/ UNCHANGED loopVars /\ current' = "lost"
        /\ UNCHANGED <<alive, ghosts, bitmaps, activity_name>>
    BY <1>9 DEF ActivityPerformStart, handlerVars
  <2>2. d.type = "ACTIVITY_START" /\ d.activity = a
    BY DEF BitmapEvent
  <2>3. Known' = Known
    BY <2>1 DEF Known
  <2> HIDE DEF d
  <2>4. CASE Reserve(d) /\ current' = a
    <3>1. Unread' = Unread \cup {Entry(hits + 1, d)} /\ hits' = hits + 1
      BY <2>4, UnreadReserve
    <3>2. Replays(Unread \cup {Entry(hits + 1, d)}, hits + 1, Known, bitmaps, d.activity,
                  activity_name)
      BY <1>1, <2>2, AddStart
    <3> QED
      BY <1>2, <1>1, <2>1, <2>2, <2>3, <2>4, <3>1, <3>2 DEF BitmapsReplay
  <2>5. CASE UNCHANGED loopVars /\ current' = "lost"
    <3>1. Unread' = Unread /\ hits' = hits
      BY <2>5, UnreadStays DEF loopVars
    <3>2. Replays(Unread, hits, Known, bitmaps, "lost", activity_name)
      BY <1>1, LoseStart
    <3> QED
      BY <1>2, <1>1, <2>1, <2>3, <2>5, <3>1, <3>2 DEF BitmapsReplay
  <2> QED
    BY <2>1, <2>4, <2>5
<1> QED
  BY <1>3, <1>4, <1>5, <1>6, <1>7, <1>8, <1>9

(* The handler's steps. *)
LEMMA ReplayHandler ==
  ASSUME LoopInv, BitmapsReplay, Snapshotting,
         OnItemV0 \/ OnAllocation \/ OnDeallocation \/ OnActivityStart \/ OnScaled \/ OnOtherType
  PROVE  BitmapsReplay'
<1> DEFINE d == Head(batch).data
           m == Head(batch).id
<1>1. /\ OnePerPtr(alive) /\ hits \in Nat
      /\ Replays(Unread, hits, Known, bitmaps, current, activity_name)
  BY UnreadNumbers DEF BitmapsReplay
<1>2. PICK r, outs : phase = "handling" /\ Accept(r, outs)
  BY DEF OnItemV0, OnAllocation, OnDeallocation, OnActivityStart, OnScaled, OnOtherType, Item,
         Collect
<1>3. Oldest(Unread, m, d, Unread') /\ hits' = hits
  BY <1>2, UnreadAccept
<1>4. UNCHANGED <<alive, ghosts, current>>
  BY DEF OnItemV0, OnAllocation, OnDeallocation, OnActivityStart, OnScaled, OnOtherType, bitmapVars
<1>5. Known' = Known
  BY <1>4 DEF Known
<1>6. mapPath' = "BitmapAllocation_output"
  BY <1>2 DEF Accept, BitmapsReplay
<1>7. SUFFICES Replays(Unread', hits, Known, bitmaps', current, activity_name')
  BY <1>1, <1>3, <1>4, <1>5, <1>6 DEF BitmapsReplay
<1>8. CASE OnItemV0
  BY <1>8 DEF OnItemV0, Snapshotting
<1>9. CASE OnAllocation
  <2>1. /\ d.type = "ALLOCATION" /\ activity_name' = activity_name
        /\ bitmaps' = Without(bitmaps, d.ptr) \cup {Metadata(d.ptr, m, d.size, activity_name)}
    BY <1>9 DEF OnAllocation, Item, Insert, Metadata
  <2> HIDE DEF d, m
  <2> QED
    BY <1>1, <1>3, <2>1, TakeAllocation
<1>10. CASE OnDeallocation
  <2>1. /\ d.type = "DEALLOCATION" /\ activity_name' = activity_name
        /\ bitmaps' = Without(bitmaps, d.ptr)
    BY <1>10 DEF OnDeallocation, Item
  <2> HIDE DEF d, m
  <2> QED
    BY <1>1, <1>3, <2>1, TakeDeallocation
<1>11. CASE OnActivityStart \/ OnScaled \/ OnOtherType
  <2>1. /\ d.type \notin {"ALLOCATION", "DEALLOCATION"} /\ bitmaps' = bitmaps
        /\ activity_name' = NameAfter(activity_name, d)
    BY <1>11 DEF OnActivityStart, OnScaled, OnOtherType, Item, NewActivity, NameAfter, bitmapVars
  <2> HIDE DEF d, m
  <2> QED
    BY <1>1, <1>3, <2>1, TakeOther
<1> QED
  BY <1>8, <1>9, <1>10, <1>11

LEMMA ReplaySteps ==
  ASSUME LoopInv, BitmapsReplay, mapPath = "BitmapAllocation_output", BitmapNext
  PROVE  BitmapsReplay'
<1>1. version' = version /\ program' = program
  BY DEF BitmapNext, BitmapCreation, BitmapCreationForSnapshot, BitmapCreationUnrecorded,
         CreateScaledBitmap, ApplyFreeFunction, ApplyFreeFunctionUnrecorded, ActivityPerformStart,
         OnItemV0, OnAllocation, OnDeallocation, OnActivityStart, OnScaled, OnOtherType,
         OnBitmapFails, OnBitmapFinished, bitmapVars
<1>2. CASE ~Snapshotting
  BY <1>1, <1>2 DEF BitmapsReplay, Snapshotting
<1>3. CASE Snapshotting
  <2>1. CASE LoopStep /\ UNCHANGED bitmapVars
    BY <2>1, UnreadLoopStep, LoopStepFacts, ReplayStays
  <2>2. CASE \E i \in 1..RingCapacity : Submit(i) /\ UNCHANGED bitmapVars
    <3>1. Unread' = Unread /\ hits' = hits /\ mapPath' = mapPath
      BY <2>2, UnreadSubmit DEF Submit, SubmitAs
    <3> QED
      BY <2>2, <3>1, ReplayStays
  <2>3. CASE OnBitmapFails \/ OnBitmapFinished
    <3>1. UNCHANGED <<ring, batch, hits, mapPath, bitmapVars>>
      BY <2>3 DEF OnBitmapFails, OnBitmapFinished, Refuse, FinishOk, FinishFails
    <3> QED
      BY <3>1, UnreadStays, ReplayStays
  <2> QED
    BY <1>3, <2>1, <2>2, <2>3, ReplayPrograms, ReplayHandler DEF BitmapNext
<1> QED
  BY <1>2, <1>3

LEMMA NextReplay == HandlersInv /\ BitmapsReplay /\ [Next]_vars => BitmapsReplay'
<1> SUFFICES ASSUME HandlersInv, BitmapsReplay, [Next]_vars PROVE BitmapsReplay'
  OBVIOUS
<1>1. LoopInv
  BY DEF HandlersInv
<1>2. CASE UNCHANGED vars
  BY <1>2, UnreadStays, ReplayStays DEF vars, loopVars
<1>3. CASE Ended
  BY <1>3, UnreadStays, ReplayStays DEF Ended, vars, loopVars
<1>4. CASE PollRegistryFails
  BY <1>4, UnreadStays, ReplayStays DEF PollRegistryFails
<1>5. CASE mapPath = "BitmapAllocation_output" /\ BitmapNext
  BY <1>1, <1>5, ReplaySteps
<1>6. CASE PollRegistry /\ mapPath # "BitmapAllocation_output"
  <2>1. UNCHANGED <<version, program>>
    BY <1>6 DEF PollRegistry, bitmapVars
  <2> QED
    BY <1>6, <2>1 DEF BitmapsReplay, Snapshotting
<1>7. CASE PollRegistry /\ mapPath = "BitmapAllocation_output"
  <2>1. mapPath \notin DisruptiveMaps /\ mapPath \notin GenericMaps \cup AllowlistMaps
    BY <1>7 DEF DisruptiveMaps, GenericMaps, AllowlistMaps
  <2> QED
    BY <1>5, <1>7, <2>1 DEF PollRegistry
<1> QED
  BY <1>2, <1>3, <1>4, <1>6, <1>7 DEF Next

-----------------------------------------------------------------------------
(* What a step of the specification does to the loop. *)
LEMMA NextMove ==
  ASSUME HandlersInv, [Next]_vars
  PROVE  (Move \/ UNCHANGED loopVars) /\ mapPath' = mapPath
<1>1. /\ LoopInv /\ BinderOrder /\ BitmapsFinite
      /\ mapPath = "Accessibility_output_buf" => AccessibilityOK
  BY DEF HandlersInv, BinderOK, BitmapOK, AccessibilityInv
<1>2. CASE UNCHANGED vars \/ Ended
  BY <1>2 DEF Ended, vars, loopVars
<1>3. CASE PollRegistryFails
  <2>1. Aborts
    BY <1>3 DEF PollRegistryFails, Aborts
  <2> QED
    BY <1>1, <2>1, MoveFacts DEF Move
<1>4. CASE PollRegistry
  <2>1. Move \/ UNCHANGED loopVars
    BY <1>1, <1>4, AccessibilityMoves, BinderMoves, BitmapMoves, DisruptiveMoves, GenericMoves
       DEF PollRegistry
  <2> QED
    BY <1>1, <2>1, MoveFacts DEF loopVars
<1> QED
  BY <1>2, <1>3, <1>4 DEF Next

-----------------------------------------------------------------------------
(* Binder: what the filters written so far select. *)

(* The filter of a name and a probe has been written. *)
Sent(c, pend, p, n) == p \in DOMAIN c /\ n \in DOMAIN c[p] /\ <<p, n>> \notin pend

(* Each filter written is in the map under a key of its own, with the first *)
(* of its codes in some order, and the map holds nothing else but what it   *)
(* held before.                                                             *)
FiltersHeld(c, pend, map, old) ==
    /\ \A f \in pend : f = <<f[1], f[2]>>
    /\ \A p, n : Sent(c, pend, p, n) =>
           /\ ToCKey(n) \in DOMAIN map
           /\ \E codes \in SetToSeqs(DOMAIN c[p][n]) : map[ToCKey(n)] = ToCValue(codes)
    /\ \A p, q, n, m : Sent(c, pend, p, n) /\ Sent(c, pend, q, m) /\ ToCKey(n) = ToCKey(m)
                           => p = q /\ n = m
    /\ \A k \in DOMAIN map : k \in old \/ \E p, n : Sent(c, pend, p, n) /\ ToCKey(n) = k

FiltersWritten ==
    mapPath = "Binder_output_buf" =>
        /\ access = "closed" => DOMAIN filters = found /\ pending = {}
        /\ access \in {"draining", "drained", "stuck"} => phase = "ended"
        /\ access = "open" => FiltersHeld(config, pending, filters, found)

(* No filter is written when all are pending. *)
LEMMA NoFilterSent ==
  ASSUME NEW c, NEW pend, pend = UNION {{<<p, n>> : n \in DOMAIN c[p]} : p \in DOMAIN c},
         NEW map
  PROVE  FiltersHeld(c, pend, map, DOMAIN map)
<1>1. \A f \in pend : f = <<f[1], f[2]>>
  OBVIOUS
<1>2. \A p, n : ~Sent(c, pend, p, n)
  BY DEF Sent
<1> QED
  BY <1>1, <1>2 DEF FiltersHeld

LEMMA OneMoreFilter ==
  ASSUME NEW c, NEW pend, NEW map, NEW old, FiltersHeld(c, pend, map, old),
         NEW f \in pend, f[1] \in DOMAIN c, f[2] \in DOMAIN c[f[1]],
         NEW key, key = ToCKey(f[2]), key \notin DOMAIN map,
         NEW codes \in SetToSeqs(DOMAIN c[f[1]][f[2]]),
         NEW map2, DOMAIN map2 = DOMAIN map \cup {key}, map2[key] = ToCValue(codes),
         \A k \in DOMAIN map : map2[k] = map[k]
  PROVE  FiltersHeld(c, pend \ {f}, map2, old)
<1>1. PICK p0, n0 : f = <<p0, n0>> /\ f[1] = p0 /\ f[2] = n0
  BY DEF FiltersHeld
<1>2. PICK pend2 : pend2 = pend \ {f}
  OBVIOUS
<1>3. \A p, n : Sent(c, pend2, p, n) <=> Sent(c, pend, p, n) \/ (p = p0 /\ n = n0)
  BY <1>1, <1>2 DEF Sent
<1>4. ASSUME NEW p, NEW n, Sent(c, pend2, p, n)
      PROVE  /\ ToCKey(n) \in DOMAIN map2
             /\ \E s \in SetToSeqs(DOMAIN c[p][n]) : map2[ToCKey(n)] = ToCValue(s)
  <2>1. CASE Sent(c, pend, p, n)
    BY <2>1 DEF FiltersHeld
  <2>2. CASE p = p0 /\ n = n0
    BY <1>1, <2>2
  <2> QED
    BY <1>3, <1>4, <2>1, <2>2
<1>5. ASSUME NEW p, NEW q, NEW n, NEW m, Sent(c, pend2, p, n), Sent(c, pend2, q, m),
             ToCKey(n) = ToCKey(m)
      PROVE  p = q /\ n = m
  <2>1. \A r, l : Sent(c, pend, r, l) => ToCKey(l) # key
    BY DEF FiltersHeld
  <2>2. CASE Sent(c, pend, p, n) /\ Sent(c, pend, q, m)
    BY <1>5, <2>2 DEF FiltersHeld
  <2>3. CASE ~(Sent(c, pend, p, n) /\ Sent(c, pend, q, m))
    BY <1>1, <1>3, <1>5, <2>1, <2>3
  <2> QED
    BY <2>2, <2>3
<1>6. ASSUME NEW k \in DOMAIN map2
      PROVE  k \in old \/ \E p, n : Sent(c, pend2, p, n) /\ ToCKey(n) = k
  <2>1. CASE k = key
    BY <1>1, <1>3, <2>1
  <2>2. CASE k \in DOMAIN map
    BY <1>3, <2>2 DEF FiltersHeld
  <2> QED
    BY <2>1, <2>2
<1>7. \A g \in pend2 : g = <<g[1], g[2]>>
  BY <1>2 DEF FiltersHeld
<1>8. FiltersHeld(c, pend2, map2, old)
  BY <1>4, <1>5, <1>6, <1>7 DEF FiltersHeld
<1> QED
  BY <1>2, <1>8

LEMMA InitFilters == Init => FiltersWritten
BY DEF Init, BinderInit, FiltersWritten

LEMMA FiltersStay ==
  ASSUME FiltersWritten, UNCHANGED <<mapPath, binderVars>>,
         access = "closed" \/ access = "open" \/ phase' = phase
  PROVE  FiltersWritten'
BY DEF FiltersWritten, binderVars

LEMMA NextFilters == HandlersInv /\ FiltersWritten /\ [Next]_vars => FiltersWritten'
<1> SUFFICES ASSUME HandlersInv, FiltersWritten, [Next]_vars PROVE FiltersWritten'
  OBVIOUS
<1>1. LoopInv /\ BinderOK
  BY DEF HandlersInv
<1>2. CASE UNCHANGED vars
  BY <1>2, FiltersStay DEF vars, loopVars
<1>3. CASE Ended
  BY <1>3, FiltersStay DEF Ended, vars, loopVars
<1>4. CASE PollRegistryFails
  <2>1. UNCHANGED <<mapPath, binderVars>> /\ phase' = "ended"
    BY <1>4 DEF PollRegistryFails, End
  <2> QED
    BY <2>1 DEF FiltersWritten, binderVars
<1>5. CASE PollRegistry /\ mapPath # "Binder_output_buf"
  <2>1. mapPath' = mapPath
    BY NextMove
  <2> QED
    BY <1>5, <2>1 DEF FiltersWritten
<1>6. ASSUME mapPath = "Binder_output_buf", mapPath \in Registered, BinderNext
      PROVE  FiltersWritten'
  <2>1. BinderOrder /\ config \in Configs /\ mapPath' = mapPath
        /\ (\A f \in pending : f[1] \in DOMAIN config /\ f[2] \in DOMAIN config[f[1]])
    BY <1>1, <1>6, BinderMoves, MoveFacts DEF BinderOK, loopVars
  <2>2. CASE OpenMap
    <3>1. /\ access = "closed" /\ access' = "open"
          /\ pending' = UNION {{<<p, n>> : n \in DOMAIN config[p]} : p \in DOMAIN config}
          /\ UNCHANGED <<config, found, filters>>
      BY <2>2 DEF OpenMap
    <3>2. found = DOMAIN filters
      BY <1>6, <3>1 DEF FiltersWritten
    <3>3. FiltersHeld(config, pending', filters, found)
      BY <3>1, <3>2, NoFilterSent
    <3> QED
      BY <3>1, <3>3 DEF FiltersWritten
  <2>3. CASE \E f \in pending : PutFilter(f)
    <3>1. PICK f \in pending : PutFilter(f)
      BY <2>3
    <3>2. PICK p, n : p = f[1] /\ n = f[2]
      OBVIOUS
    <3>3. PICK codes \in SetToSeqs(DOMAIN config[p][n]) :
            filters' = [k \in DOMAIN filters \cup {ToCKey(n)} |->
                           IF k = ToCKey(n) THEN ToCValue(codes) ELSE filters[k]]
      BY <3>1, <3>2 DEF PutFilter
    <3>4. /\ access = "open" /\ pending' = pending \ {f} /\ ToCKey(n) \notin DOMAIN filters
          /\ UNCHANGED <<config, found, access>>
      BY <3>1, <3>2 DEF PutFilter, NextFilter
    <3>5. FiltersHeld(config, pending, filters, found)
      BY <1>6, <3>4 DEF FiltersWritten
    <3>6. PICK key : key = ToCKey(n)
      OBVIOUS
    <3>7. /\ DOMAIN filters' = DOMAIN filters \cup {key} /\ filters'[key] = ToCValue(codes)
          /\ \A k \in DOMAIN filters : filters'[k] = filters[k]
      BY <3>3, <3>4, <3>6
    <3>8. FiltersHeld(config, pending \ {f}, filters', found)
      BY <2>1, <3>2, <3>4, <3>5, <3>6, <3>7, OneMoreFilter
    <3> QED
      BY <3>4, <3>8 DEF FiltersWritten
  <2>4. CASE \E f \in pending : PutFilterFails(f)
    BY <2>4 DEF PutFilterFails, End, FiltersWritten
  <2>5. CASE StartDrain
    BY <2>5 DEF StartDrain, FiltersWritten, loopVars
  <2>6. CASE DrainEnds \/ \E key \in DOMAIN filters : DrainKey(key)
    <3>1. access = "draining" /\ access' \in {"draining", "drained", "stuck"} /\ phase' = phase
      BY <2>6 DEF DrainEnds, DrainKey, loopVars
    <3> QED
      BY <1>6, <3>1 DEF FiltersWritten
  <2>7. CASE access = "open" /\ UNCHANGED binderVars
    BY <2>1, <2>7, FiltersStay
  <2>8. CASE \E n \in Descriptors, c \in Codes : ExecTransactInternal(n, c)
    BY <2>7, <2>8 DEF ExecTransactInternal
  <2>9. CASE UNCHANGED binderVars /\ phase \notin {"new", "ended"}
    <3>1. access = "open"
      BY <1>1, <1>6, <2>1, <2>9 DEF BinderOrder, BinderOK, FiltersWritten
    <3> QED
      BY <2>7, <2>9, <3>1
  <2>10. CASE \E i \in 1..RingCapacity : Submit(i) /\ UNCHANGED binderVars
    BY <2>9, <2>10 DEF Submit, SubmitAs, Recording
  <2>11. CASE OnTransaction \/ OnBinderFinished
    BY <2>9, <2>11 DEF OnTransaction, OnBinderFinished, FinishOk
  <2> QED
    BY <1>6, <2>2, <2>3, <2>4, <2>5, <2>6, <2>7, <2>8, <2>10, <2>11 DEF BinderNext
<1>7. CASE PollRegistry /\ mapPath = "Binder_output_buf"
  <2>1. mapPath \in Registered /\ BinderNext
    BY <1>7 DEF PollRegistry, DisruptiveMaps, GenericMaps, AllowlistMaps
  <2> QED
    BY <1>6, <1>7, <2>1
<1> QED
  BY <1>2, <1>3, <1>4, <1>5, <1>7 DEF Next

(* The codes that fit are as many as the smaller of the two numbers. *)
LEMMA CodesOfValue ==
  ASSUME NEW S, IsFiniteSet(S), NEW codes \in SetToSeqs(S)
  PROVE  /\ ToSet(ToCValue(codes)) \subseteq S
         /\ Cardinality(ToSet(ToCValue(codes))) = Min({MaxCodes, Cardinality(S)})
<1>1. PICK c : c = Cardinality(S)
  OBVIOUS
<1>2. c \in Nat
  BY <1>1, FS_CardinalityType
<1>3. codes \in [1..c -> S] /\ \A i, j \in 1..c : i # j => codes[i] # codes[j]
  BY <1>1 DEF SetToSeqs
<1>4. codes \in Seq(S) /\ Len(codes) = c
  BY <1>2, <1>3
<1>5. MaxCodes \in Nat
  BY BinderAssumption
<1>6. PICK k : k = Min({c, MaxCodes})
  OBVIOUS
<1>7. k \in Nat /\ k <= c /\ k = Min({MaxCodes, c})
  <2>1. {c, MaxCodes} = {MaxCodes, c}
    OBVIOUS
  <2> QED
    BY <1>2, <1>5, <1>6, <2>1, MinOfTwo
<1>8. PICK v : v = ToCValue(codes)
  OBVIOUS
<1>9. v = SubSeq(codes, 1, k)
  BY <1>4, <1>6, <1>8 DEF ToCValue
<1>10. v = [i \in 1..k |-> codes[i]]
  BY <1>3, <1>4, <1>7, <1>9
<1>11. v \in Bijection(1..k, ToSet(v))
  <2>1. DOMAIN v = 1..k /\ ToSet(v) = {v[i] : i \in 1..k}
    BY <1>10 DEF ToSet
  <2>2. \A i, j \in 1..k : v[i] = v[j] => i = j
    BY <1>2, <1>3, <1>7, <1>10
  <2>3. v \in [1..k -> ToSet(v)] /\ \A t \in ToSet(v) : \E i \in 1..k : v[i] = t
    BY <1>10, <2>1
  <2> QED
    BY <2>2, <2>3 DEF Bijection, Injection, IsInjective, Surjection
<1>12. IsFiniteSet(1..k) /\ Cardinality(1..k) = k
  <2>1. 1 \in Int /\ k \in Int /\ (IF 1 > k THEN 0 ELSE k - 1 + 1) = k
    BY <1>7
  <2> QED
    BY <2>1, FS_Interval
<1>13. ExistsBijection(1..k, ToSet(v))
  BY <1>11 DEF ExistsBijection
<1>14. Cardinality(ToSet(v)) = k
  BY <1>12, <1>13, FS_Bijection
<1>15. ToSet(v) \subseteq S
  <2>1. \A i \in 1..k : i \in 1..c /\ v[i] = codes[i]
    BY <1>2, <1>7, <1>10
  <2>2. DOMAIN v = 1..k
    BY <1>10
  <2> QED
    BY <1>3, <2>1, <2>2 DEF ToSet
<1> QED
  BY <1>1, <1>7, <1>8, <1>14, <1>15

(* A name recorded fits a key; one that fits is recorded as it is. *)
LEMMA RecordedName ==
  ASSUME NEW n \in Descriptors
  PROVE  /\ IsSeq(Recorded(n)) /\ Fits(Recorded(n))
         /\ Fits(n) => Recorded(n) = n
<1>1. KeyBytes \in Nat \ {0} /\ IsSeq(n)
  BY BinderAssumption, FunctionIsSeq, EmptyIsSeq DEF Descriptors
<1>2. PICK u : u = UpToNul(n)
  OBVIOUS
<1>3. IsSeq(u) /\ (\A i \in 1..Len(u) : u[i] # Nul) /\ (Nuls(n) = {} => u = n)
  <2>1. CASE Nuls(n) = {}
    BY <1>1, <1>2, <2>1 DEF UpToNul, Nuls
  <2>2. CASE Nuls(n) # {}
    <3>1. PICK e : e = Min(Nuls(n))
      OBVIOUS
    <3>2. /\ e \in 1..Len(n) /\ \A i \in 1..Len(n) : i < e => n[i] # Nul
          /\ IsSeq(u) /\ Len(u) = e - 1 /\ \A i \in 1..(e - 1) : u[i] = n[i]
      BY <1>1, <1>2, <2>2, <3>1, FirstNul
    <3>3. Len(n) \in Nat
      BY <1>1, SeqFacts
    <3> QED
      BY <2>2, <3>2, <3>3
  <2> QED
    BY <2>1, <2>2
<1>4. PICK b : b = KeyBytes - 1
  OBVIOUS
<1>5. b \in Nat /\ b < KeyBytes
  BY <1>1, <1>4
<1>6. PICK m : m = Min({Len(u), b})
  OBVIOUS
<1>7. Len(u) \in Nat /\ m \in Nat /\ m <= Len(u) /\ m <= b
  BY <1>3, <1>5, <1>6, SeqFacts, MinOfTwo
<1>8. Recorded(n) = SubSeq(u, 1, m)
  BY <1>2, <1>4, <1>6 DEF Recorded
<1>9. 1 \in 1..(Len(u) + 1) /\ m \in 0..Len(u) /\ 1 <= m + 1 /\ m - 1 + 1 = m
  BY <1>7
<1>10. /\ IsSeq(SubSeq(u, 1, m)) /\ Len(SubSeq(u, 1, m)) = m
       /\ \A i \in 1..m : SubSeq(u, 1, m)[i] = u[1 + i - 1]
  <2>1. /\ IsSeq(SubSeq(u, 1, m)) /\ Len(SubSeq(u, 1, m)) = m - 1 + 1
        /\ \A i \in 1..(m - 1 + 1) : SubSeq(u, 1, m)[i] = u[1 + i - 1]
    BY <1>3, <1>9, SubSeqIsSeq
  <2> QED
    BY <1>9, <2>1
<1>11. \A i \in 1..m : i \in 1..Len(u) /\ 1 + i - 1 = i
  BY <1>7
<1>12. Fits(SubSeq(u, 1, m))
  BY <1>1, <1>3, <1>5, <1>7, <1>10, <1>11 DEF Fits, Nuls
<1>13. ASSUME Fits(n) PROVE SubSeq(u, 1, m) = n
  <2>1. u = n /\ Len(n) < KeyBytes
    BY <1>3, <1>13 DEF Fits
  <2>2. Len(u) <= b
    BY <1>1, <1>4, <1>7, <2>1
  <2> QED
    BY <1>3, <1>5, <1>6, <2>1, <2>2, FirstOf
<1> QED
  BY <1>8, <1>10, <1>12, <1>13

(* A filter that a recorded name matches has that name, or a zero in it.    *)
LEMMA MatchedName ==
  ASSUME NEW m \in Names, NEW r, IsSeq(r), Fits(r), ToCKey(m) = ToCKey(r), Nuls(m) = {}
  PROVE  m = r
<1>1. /\ Len(m) \in Nat /\ m = [i \in 1..Len(m) |-> m[i]] /\ KeyBytes \in Nat
      /\ Len(r) \in Nat /\ Len(r) < KeyBytes
  BY BinderAssumption, SeqFacts DEF Fits
<1>2. (\A i \in 1..Len(r) : r[i] # Nul) /\ (\A i \in 1..Len(m) : m[i] # Nul)
  BY DEF Fits, Nuls
<1>3. \A i \in 1..KeyBytes : (IF i <= Len(m) THEN m[i] ELSE Nul) = (IF i <= Len(r) THEN r[i] ELSE Nul)
  <2>1. /\ \A i \in 1..KeyBytes : ToCKey(m)[i] = IF i <= Len(m) THEN m[i] ELSE Nul
        /\ \A i \in 1..KeyBytes : ToCKey(r)[i] = IF i <= Len(r) THEN r[i] ELSE Nul
    BY DEF ToCKey
  <2> QED
    BY <2>1
<1>4. ~(Len(m) > Len(r))
  <2> SUFFICES ASSUME Len(m) > Len(r) PROVE FALSE
    OBVIOUS
  <2>1. Len(r) + 1 \in 1..KeyBytes /\ Len(r) + 1 \in 1..Len(m) /\ ~(Len(r) + 1 <= Len(r))
    BY <1>1
  <2>2. m[Len(r) + 1] = Nul
    BY <1>1, <1>3, <2>1
  <2> QED
    BY <1>2, <2>1, <2>2
<1>5. ~(Len(m) < Len(r))
  <2> SUFFICES ASSUME Len(m) < Len(r) PROVE FALSE
    OBVIOUS
  <2>1. Len(m) + 1 \in 1..KeyBytes /\ Len(m) + 1 \in 1..Len(r) /\ ~(Len(m) + 1 <= Len(m))
    BY <1>1
  <2>2. r[Len(m) + 1] = Nul
    BY <1>1, <1>3, <2>1
  <2> QED
    BY <1>2, <2>1, <2>2
<1>6. PICK l : l = Len(m)
  OBVIOUS
<1>7. Len(r) = l /\ l \in Nat /\ l < KeyBytes
  BY <1>1, <1>4, <1>5, <1>6
<1>8. \A i \in 1..l : i \in 1..KeyBytes /\ i <= l
  BY <1>1, <1>7
<1>9. \A i \in 1..l : m[i] = r[i]
  BY <1>3, <1>6, <1>7, <1>8
<1>10. DOMAIN r = 1..l /\ r = [i \in DOMAIN r |-> r[i]]
  BY <1>7, SeqFacts DEF IsSeq
<1> QED
  BY <1>1, <1>6, <1>9, <1>10

LEMMA SelectedAsWritten ==
  ASSUME HandlersInv, FiltersWritten
  PROVE  FiltersSelectConfigured
<1> SUFFICES ASSUME mapPath = "Binder_output_buf", access = "open", pending = {}, found = {}
             PROVE  /\ \A n \in Descriptors, c \in Codes : Selects(n, c) =>
                           \/ Configured(Recorded(n), c)
                           \/ \E m \in InterfaceNames :
                                  /\ Nuls(m) # {} /\ c \in CodesOf(m)
                                  /\ ToCKey(m) = ToCKey(Recorded(n))
                    /\ \A n \in InterfaceNames : Fits(n) =>
                           Cardinality({c \in Codes : Selects(n, c)})
                               = Min({MaxCodes, Cardinality(CodesOf(n))})
  BY DEF FiltersSelectConfigured
<1>1. config \in Configs /\ FiltersHeld(config, pending, filters, found)
  BY DEF HandlersInv, BinderOK, FiltersWritten
<1>2. \A p \in DOMAIN config : \A n \in DOMAIN config[p] :
          n \in Names /\ IsFiniteSet(DOMAIN config[p][n]) /\ DOMAIN config[p][n] \subseteq Codes
  BY <1>1, BinderAssumption
<1>3. \A p, n : Sent(config, pending, p, n) <=> p \in DOMAIN config /\ n \in DOMAIN config[p]
  BY DEF Sent
<1>4. ASSUME NEW p \in DOMAIN config, NEW n \in DOMAIN config[p]
      PROVE  /\ ToCKey(n) \in DOMAIN filters
             /\ \E codes \in SetToSeqs(DOMAIN config[p][n]) : filters[ToCKey(n)] = ToCValue(codes)
             /\ \A q \in DOMAIN config : n \in DOMAIN config[q] => q = p
  BY <1>1, <1>3 DEF FiltersHeld
<1>5. ASSUME NEW n \in Descriptors, NEW c \in Codes, Selects(n, c)
      PROVE  \/ Configured(Recorded(n), c)
             \/ \E m \in InterfaceNames :
                    Nuls(m) # {} /\ c \in CodesOf(m) /\ ToCKey(m) = ToCKey(Recorded(n))
  <2>1. PICK key : key = ToCKey(Recorded(n))
    OBVIOUS
  <2>2. key \in DOMAIN filters /\ c \in ToSet(filters[key])
    BY <1>5, <2>1 DEF Selects
  <2>3. PICK p, m : p \in DOMAIN config /\ m \in DOMAIN config[p] /\ ToCKey(m) = key
    BY <1>1, <1>3, <2>2 DEF FiltersHeld
  <2>4. PICK codes \in SetToSeqs(DOMAIN config[p][m]) : filters[ToCKey(m)] = ToCValue(codes)
    BY <1>4, <2>3
  <2>5. ToSet(ToCValue(codes)) \subseteq DOMAIN config[p][m]
    BY <1>2, <2>3, CodesOfValue
  <2>6. c \in DOMAIN config[p][m]
    BY <2>2, <2>3, <2>4, <2>5
  <2>7. CASE Nuls(m) = {}
    <3>1. m = Recorded(n)
      BY <1>2, <2>1, <2>3, <2>7, RecordedName, MatchedName
    <3> QED
      BY <2>3, <2>6, <3>1 DEF Configured, Probes
  <2>8. CASE Nuls(m) # {}
    <3>1. m \in InterfaceNames /\ c \in CodesOf(m)
      BY <2>3, <2>6 DEF InterfaceNames, CodesOf
    <3> QED
      BY <2>1, <2>3, <2>8, <3>1
  <2> QED
    BY <2>7, <2>8
<1>6. ASSUME NEW n \in InterfaceNames, Fits(n)
      PROVE  Cardinality({c \in Codes : Selects(n, c)}) = Min({MaxCodes, Cardinality(CodesOf(n))})
  <2>1. PICK p \in DOMAIN config : n \in DOMAIN config[p]
    BY DEF InterfaceNames
  <2>2. n \in Names /\ Recorded(n) = n
    BY <1>2, <1>6, <2>1, RecordedName DEF Descriptors
  <2>3. PICK key : key = ToCKey(n)
    OBVIOUS
  <2>4. PICK codes \in SetToSeqs(DOMAIN config[p][n]) : filters[key] = ToCValue(codes)
    BY <1>4, <2>1, <2>3
  <2>5. {q \in DOMAIN config : n \in DOMAIN config[q]} = {p}
    BY <1>4, <2>1
  <2>6. CodesOf(n) = DOMAIN config[p][n]
    BY <2>5 DEF CodesOf
  <2>7. /\ ToSet(filters[key]) \subseteq DOMAIN config[p][n]
        /\ Cardinality(ToSet(filters[key])) = Min({MaxCodes, Cardinality(DOMAIN config[p][n])})
    BY <1>2, <2>1, <2>4, CodesOfValue
  <2>8. {c \in Codes : Selects(n, c)} = ToSet(filters[key])
    BY <1>2, <1>4, <2>1, <2>2, <2>7, <2>3 DEF Selects
  <2> QED
    BY <2>6, <2>7, <2>8
<1> QED
  BY <1>5, <1>6

-----------------------------------------------------------------------------
(* The outputs of each record accepted. *)

(* In the outputs o those with id k stand together and are outs. *)
CarriesAt(o, k, outs, b) ==
    /\ \A n \in 1..Len(o) : o[n].id = k <=> n \in (b + 1)..(b + Len(outs))
    /\ \A j \in 1..Len(outs) : b + j \in 1..Len(o) /\ o[b + j] = outs[j]
Carries(o, k, outs) == \E b \in Nat : CarriesAt(o, k, outs, b)

LEMMA CarriesMore ==
  ASSUME NEW o, IsSeq(o), NEW k, NEW outs, IsSeq(outs), Carries(o, k, outs),
         NEW more, IsSeq(more), \A j \in 1..Len(more) : more[j].id # k
  PROVE  Carries(o \o more, k, outs)
<1>1. PICK b \in Nat : CarriesAt(o, k, outs, b)
  BY DEF Carries
<1>2. PICK all : all = o \o more
  OBVIOUS
<1>3. /\ Len(all) = Len(o) + Len(more) /\ Len(o) \in Nat /\ Len(more) \in Nat /\ Len(outs) \in Nat
      /\ \A i \in 1..(Len(o) + Len(more)) :
             all[i] = IF i <= Len(o) THEN o[i] ELSE more[i - Len(o)]
  BY <1>2, ConcatIsSeq, SeqFacts
<1>4. \A j \in 1..Len(outs) : b + j \in 1..Len(o) /\ o[b + j] = outs[j]
  BY <1>1 DEF CarriesAt
<1>5. ASSUME NEW j \in 1..Len(outs) PROVE b + j \in 1..Len(all) /\ all[b + j] = outs[j]
  BY <1>3, <1>4
<1>6. ASSUME NEW n \in 1..Len(all) PROVE all[n].id = k <=> n \in (b + 1)..(b + Len(outs))
  <2>1. CASE n <= Len(o)
    <3>1. n \in 1..Len(o) /\ all[n] = o[n]
      BY <1>3, <2>1
    <3> QED
      BY <1>1, <3>1 DEF CarriesAt
  <2>2. CASE ~(n <= Len(o))
    <3>1. n - Len(o) \in 1..Len(more) /\ all[n] = more[n - Len(o)]
      BY <1>3, <2>2
    <3>2. ASSUME n \in (b + 1)..(b + Len(outs)) PROVE FALSE
      <4>1. n - b \in 1..Len(outs) /\ b + (n - b) = n
        BY <1>3, <3>2
      <4>2. n \in 1..Len(o)
        BY <1>4, <4>1
      <4> QED
        BY <1>3, <2>2, <4>2
    <3> QED
      BY <3>1, <3>2
  <2> QED
    BY <1>3, <2>1, <2>2
<1>7. CarriesAt(all, k, outs, b)
  BY <1>5, <1>6 DEF CarriesAt
<1> QED
  BY <1>2, <1>7 DEF Carries

LEMMA CarriesNew ==
  ASSUME NEW o, IsSeq(o), NEW k, \A n \in 1..Len(o) : o[n].id # k,
         NEW outs, IsSeq(outs), \A j \in 1..Len(outs) : outs[j].id = k
  PROVE  Carries(o \o outs, k, outs)
<1>1. PICK all, b : all = o \o outs /\ b = Len(o)
  OBVIOUS
<1>2. /\ Len(all) = b + Len(outs) /\ b \in Nat /\ Len(outs) \in Nat
      /\ \A i \in 1..(b + Len(outs)) : all[i] = IF i <= b THEN o[i] ELSE outs[i - b]
  BY <1>1, ConcatIsSeq, SeqFacts
<1>3. ASSUME NEW j \in 1..Len(outs) PROVE b + j \in 1..Len(all) /\ all[b + j] = outs[j]
  <2>1. b + j \in 1..(b + Len(outs)) /\ ~(b + j <= b) /\ (b + j) - b = j
    BY <1>2
  <2> QED
    BY <1>2, <2>1
<1>4. ASSUME NEW n \in 1..Len(all) PROVE all[n].id = k <=> n \in (b + 1)..(b + Len(outs))
  <2>1. CASE n <= b
    <3>1. n \in 1..Len(o) /\ all[n] = o[n]
      BY <1>1, <1>2, <2>1
    <3> QED
      BY <1>2, <2>1, <3>1
  <2>2. CASE ~(n <= b)
    <3>1. n - b \in 1..Len(outs) /\ all[n] = outs[n - b] /\ n \in (b + 1)..(b + Len(outs))
      BY <1>2, <2>2
    <3> QED
      BY <3>1
  <2> QED
    BY <2>1, <2>2
<1>5. CarriesAt(all, k, outs, b)
  BY <1>3, <1>4 DEF CarriesAt
<1> QED
  BY <1>1, <1>2, <1>5 DEF Carries

(* A setting with the answer about the launcher. *)
AnsweredSettings == [pkg : BOOLEAN, class : BOOLEAN, state : {1, 2},
                     caller : {"", "shell", "app"}, launcher : BOOLEAN]

TracedMaps == GenericMaps \cup AllowlistMaps \cup DisruptiveMaps \cup {"Binder_output_buf"}

(* What is written for a record accepted. *)
BindOutcome(r, outs) ==
    r.data.error = FALSE /\ r.data.call \in Binds /\ outs = BindOutputs(r)
SettingOutcome(r, outs) ==
    /\ r.data.error = FALSE /\ r.data.call \in AnsweredSettings
    /\ outs = IF Disables(r.data.call) THEN SettingOutputs(r) ELSE <<>>
BinderOutcome(r, outs) ==
    /\ \E p : Probes(r.data.name, r.data.code) = {p}
    /\ outs = TransactionOutputs(r, FirstMethod(r.data.name, r.data.code))
GenericOutcome(r, outs) ==
    outs = IF logging.present /\ logging.atomId THEN <<UnstructuredAtom(r, AtomFields)>> ELSE <<>>

Outcome(r, outs) ==
    /\ mapPath = "DisruptiveApp_BindServiceLocked_output_buf" => BindOutcome(r, outs)
    /\ mapPath = "DisruptiveApp_ComponentEnabledSetting_output_buf" => SettingOutcome(r, outs)
    /\ mapPath = "Binder_output_buf" => BinderOutcome(r, outs)
    /\ mapPath \in GenericMaps \cup AllowlistMaps => GenericOutcome(r, outs)

TracedAs(r, i) == \E outs : IsSeq(outs) /\ Outcome(r, outs) /\ Carries(out, i, outs)

Traced ==
    mapPath \in TracedMaps =>
        \A r : \A i \in 1..Len(seen) : seen[i] = r => TracedAs(r, i)

(* The configuration of the handlers never changes. *)
Settled == UNCHANGED <<mapPath, userBuild, config, logging>>

LEMMA OutcomeStays ==
  ASSUME Settled, NEW r, NEW outs, Outcome(r, outs)
  PROVE  Outcome(r, outs)'
<1>1. AtomFields' = AtomFields
  BY DEF Settled, AtomFields
<1>2. BindOutputs(r)' = BindOutputs(r)
  BY DEF Settled, BindOutputs, BindNames
<1>3. SettingOutputs(r)' = SettingOutputs(r)
  BY DEF Settled, SettingOutputs
<1>4. /\ Probes(r.data.name, r.data.code)' = Probes(r.data.name, r.data.code)
      /\ FirstMethod(r.data.name, r.data.code)' = FirstMethod(r.data.name, r.data.code)
  BY DEF Settled, Probes, FirstMethod
<1>5. GenericOutcome(r, outs)' <=> GenericOutcome(r, outs)
  BY <1>1 DEF GenericOutcome, Settled
<1>6. BindOutcome(r, outs)' <=> BindOutcome(r, outs)
  BY <1>2 DEF BindOutcome
<1>7. SettingOutcome(r, outs)' <=> SettingOutcome(r, outs)
  BY <1>3 DEF SettingOutcome
<1>8. BinderOutcome(r, outs)' <=> BinderOutcome(r, outs)
  BY <1>4 DEF BinderOutcome
<1> QED
  BY <1>5, <1>6, <1>7, <1>8 DEF Outcome, Settled

LEMMA NextSettled ==
  ASSUME HandlersInv, [Next]_vars
  PROVE  Settled
<1>1. mapPath' = mapPath
  BY NextMove
<1>2. userBuild' = userBuild
  BY DEF Next, Ended, vars, PollRegistryFails, PollRegistry, disruptiveVars, DisruptiveNext,
         BindServiceLocked, SetComponentEnabledSetting, Unreadable, OnProgramError, OnMalformed,
         OnBind, OnSetting, OnDisruptiveFinished
<1>3. config' = config
  BY DEF Next, Ended, vars, PollRegistryFails, PollRegistry, binderVars, BinderNext, OpenMap,
         StartDrain, DrainEnds, PutFilter, PutFilterFails, DrainKey, ExecTransactInternal,
         OnTransaction, OnBinderFinished
<1>4. logging' = logging
  BY DEF Next, Ended, vars, PollRegistryFails, PollRegistry, genericVars, GenericNext, ProbeHits,
         OnItemUnconfigured, OnItemWritten, OnItemError, OnItemPanics, OnGenericFinished
<1> QED
  BY <1>1, <1>2, <1>3, <1>4 DEF Settled

LEMMA TracedStays ==
  ASSUME LoopInv, Traced, Settled, seen' = seen, out' = out
  PROVE  Traced'
<1> SUFFICES ASSUME mapPath \in TracedMaps, NEW r, NEW i \in 1..Len(seen), seen[i] = r
             PROVE  TracedAs(r, i)'
  BY DEF Traced, Settled
<1>1. PICK outs : IsSeq(outs) /\ Outcome(r, outs) /\ Carries(out, i, outs)
  BY DEF Traced, TracedAs
<1>2. Outcome(r, outs)'
  BY <1>1, OutcomeStays
<1> QED
  BY <1>1, <1>2 DEF TracedAs

LEMMA TracedRefuses ==
  ASSUME LoopInv, Traced, Settled, NEW more, NEW type, NEW point, Refuses(more, type, point)
  PROVE  Traced'
<1>1. phase = "handling" /\ OutputsOf(Head(batch).id, more) /\ out' = out \o more /\ seen' = seen
  BY DEF Refuses, Refuse
<1>2. Head(batch).id = Len(seen) + 1 /\ Len(seen) \in Nat
  BY <1>1, HeadRecord
<1>3. IsSeq(more) /\ \A j \in 1..Len(more) : more[j].id = Len(seen) + 1
  BY <1>1, <1>2 DEF OutputsOf
<1> SUFFICES ASSUME mapPath \in TracedMaps, NEW r, NEW i \in 1..Len(seen), seen[i] = r
             PROVE  TracedAs(r, i)'
  BY <1>1 DEF Traced, Settled
<1>4. PICK outs : IsSeq(outs) /\ Outcome(r, outs) /\ Carries(out, i, outs)
  BY DEF Traced, TracedAs
<1>5. Outcome(r, outs)'
  BY <1>4, OutcomeStays
<1>6. \A j \in 1..Len(more) : more[j].id # i
  BY <1>2, <1>3
<1>7. IsSeq(out)
  BY DEF LoopInv, Ordered
<1>8. Carries(out', i, outs)
  BY <1>1, <1>3, <1>4, <1>6, <1>7, CarriesMore
<1> QED
  BY <1>4, <1>5, <1>8 DEF TracedAs

LEMMA TracedAccepts ==
  ASSUME LoopInv, Traced, Settled, NEW new, NEW more, Accepts(new, more), Outcome(new, more)
  PROVE  Traced'
<1>1. phase = "handling" /\ OutputsOf(Head(batch).id, more) /\ out' = out \o more
      /\ seen' = Append(seen, new)
  BY DEF Accepts, Accept
<1>2. PICK k : k = Len(seen) + 1
  OBVIOUS
<1>3. Head(batch).id = k /\ Len(seen) \in Nat /\ IsSeq(seen)
  BY <1>1, <1>2, HeadRecord
<1>4. IsSeq(more) /\ \A j \in 1..Len(more) : more[j].id = k
  BY <1>1, <1>3 DEF OutputsOf
<1>5. IsSeq(out) /\ \A n \in 1..Len(out) : out[n].id \in Nat /\ out[n].id <= Len(seen)
  BY <1>1 DEF LoopInv, Ordered
<1>6. /\ Len(seen') = k /\ seen'[k] = new
      /\ \A i \in 1..Len(seen) : seen'[i] = seen[i]
  BY <1>1, <1>2, <1>3, AppendIsSeq
<1> SUFFICES ASSUME mapPath \in TracedMaps, NEW r, NEW i \in 1..Len(seen'), seen'[i] = r
             PROVE  TracedAs(r, i)'
  BY DEF Traced, Settled
<1>7. CASE i = k
  <2>1. r = new
    BY <1>6, <1>7
  <2>2. Outcome(r, more)'
    BY <2>1, OutcomeStays
  <2>3. \A n \in 1..Len(out) : out[n].id # k
    BY <1>2, <1>3, <1>5
  <2>4. Carries(out', k, more)
    BY <1>1, <1>4, <1>5, <2>3, CarriesNew
  <2> QED
    BY <1>4, <1>7, <2>2, <2>4 DEF TracedAs
<1>8. CASE i # k
  <2>1. i \in 1..Len(seen) /\ seen[i] = r
    BY <1>2, <1>3, <1>6, <1>8
  <2>2. PICK outs : IsSeq(outs) /\ Outcome(r, outs) /\ Carries(out, i, outs)
    BY <2>1 DEF Traced, TracedAs
  <2>3. Outcome(r, outs)'
    BY <2>2, OutcomeStays
  <2>4. \A j \in 1..Len(more) : more[j].id # i
    BY <1>4, <1>8
  <2>5. Carries(out', i, outs)
    BY <1>1, <1>4, <1>5, <2>2, <2>4, CarriesMore
  <2> QED
    BY <2>2, <2>3, <2>5 DEF TracedAs
<1> QED
  BY <1>7, <1>8

-----------------------------------------------------------------------------
(* Disruptive apps: the event is the last output of a record. *)

(* Outputs without an event, and outputs that end with one if at all; names *)
(* only where they may be written.                                          *)
Quiet(outs) ==
    /\ IsSeq(outs)
    /\ \A j \in 1..Len(outs) : /\ outs[j].what # "event"
                               /\ outs[j].what \in NameAtoms => userBuild = FALSE
EventLast(outs) ==
    /\ IsSeq(outs)
    /\ \A j \in 1..Len(outs) : /\ outs[j].what = "event" => j = Len(outs)
                               /\ outs[j].what \in NameAtoms => userBuild = FALSE

LEMMA NothingQuiet == Quiet(<<>>) /\ EventLast(<<>>)
<1>1. IsSeq(<<>>) /\ 1..Len(<<>>) = {}
  BY EmptyIsSeq
<1> QED
  BY <1>1 DEF Quiet, EventLast

LEMMA OneQuiet ==
  ASSUME NEW o, o.what # "event", o.what \in NameAtoms => userBuild = FALSE
  PROVE  Quiet(<<o>>)
<1>1. IsSeq(<<o>>) /\ Len(<<o>>) = 1 /\ <<o>>[1] = o
  BY SingleIsSeq
<1>2. \A i \in 1..Len(<<o>>) : i = 1
  BY <1>1
<1> QED
  BY <1>1, <1>2 DEF Quiet

LEMMA JoinQuiet ==
  ASSUME NEW a, NEW b, Quiet(a), Quiet(b)
  PROVE  Quiet(a \o b)
<1>1. IsSeq(a) /\ IsSeq(b)
  BY DEF Quiet
<1>2. IsSeq(a \o b)
  BY <1>1, ConcatIsSeq
<1>3. /\ \A i \in 1..Len(a) : i \in 1..Len(a \o b) /\ (a \o b)[i] = a[i]
      /\ \A j \in 1..Len(b) : Len(a) + j \in 1..Len(a \o b) /\ (a \o b)[Len(a) + j] = b[j]
      /\ \A i \in 1..Len(a \o b) : i \in 1..Len(a) \/ \E j \in 1..Len(b) : i = Len(a) + j
  BY <1>1, ConcatParts, Zenon
<1>4. ASSUME NEW i \in 1..Len(a \o b)
      PROVE  /\ (a \o b)[i].what # "event"
             /\ (a \o b)[i].what \in NameAtoms => userBuild = FALSE
  <2>1. CASE i \in 1..Len(a)
    BY <1>3, <2>1 DEF Quiet
  <2>2. CASE \E j \in 1..Len(b) : i = Len(a) + j
    BY <1>3, <2>2 DEF Quiet
  <2> QED
    BY <1>3, <2>1, <2>2
<1> QED
  BY <1>2, <1>4 DEF Quiet

LEMMA EventAtTheEnd ==
  ASSUME NEW a, Quiet(a), NEW o, o.what \notin NameAtoms
  PROVE  EventLast(a \o <<o>>)
<1>1. IsSeq(a) /\ Len(a) \in Nat /\ IsSeq(<<o>>) /\ Len(<<o>>) = 1 /\ <<o>>[1] = o
  BY SingleIsSeq, SeqFacts DEF Quiet
<1>2. PICK s : s = a \o <<o>>
  OBVIOUS
<1>3. IsSeq(s) /\ Len(s) = Len(a) + 1
  BY <1>1, <1>2, ConcatIsSeq
<1>4. /\ \A i \in 1..Len(a) : s[i] = a[i]
      /\ s[Len(a) + 1] = o
      /\ \A i \in 1..Len(s) : i \in 1..Len(a) \/ i = Len(a) + 1
  <2>1. 1 \in 1..Len(<<o>>) /\ \A j \in 1..Len(<<o>>) : j = 1
    BY <1>1
  <2> QED
    BY <1>1, <1>2, <2>1, ConcatParts
<1>5. ASSUME NEW i \in 1..Len(s)
      PROVE  (s[i].what = "event" => i = Len(s)) /\ (s[i].what \in NameAtoms => userBuild = FALSE)
  <2>1. CASE i \in 1..Len(a)
    BY <1>4, <2>1 DEF Quiet
  <2>2. CASE i = Len(a) + 1
    BY <1>3, <1>4, <2>2
  <2> QED
    BY <1>4, <2>1, <2>2
<1>6. EventLast(s)
  BY <1>3, <1>5 DEF EventLast
<1> QED
  BY <1>2, <1>6

LEMMA QuietEnds ==
  ASSUME NEW a, Quiet(a)
  PROVE  EventLast(a \o <<>>)
<1>1. Quiet(a \o <<>>)
  BY JoinQuiet, NothingQuiet
<1> QED
  BY <1>1 DEF Quiet, EventLast

LEMMA CutIsQuiet ==
  ASSUME NEW outs, EventLast(outs), NEW asks, NEW cut \in CutShort(outs, asks)
  PROVE  Quiet(cut)
<1>1. /\ IsSeq(cut) /\ Len(cut) \in Nat
      /\ \A i \in 1..Len(cut) : i \in 1..Len(outs) /\ cut[i] = outs[i]
      /\ outs # <<>> => Len(cut) < Len(outs)
  BY CutIsPrefix DEF EventLast
<1>2. Len(outs) \in Nat /\ (outs = <<>> => Len(outs) = 0)
  BY SeqFacts DEF EventLast
<1>3. ASSUME NEW i \in 1..Len(cut)
      PROVE  cut[i].what # "event" /\ (cut[i].what \in NameAtoms => userBuild = FALSE)
  <2>1. i \in 1..Len(outs) /\ cut[i] = outs[i] /\ i # Len(outs)
    BY <1>1, <1>2
  <2> QED
    BY <2>1 DEF EventLast
<1> QED
  BY <1>1, <1>3 DEF Quiet

LEMMA BindEventLast ==
  ASSUME SettingsOK, NEW r
  PROVE  EventLast(BindOutputs(r))
<1>1. userBuild \in BOOLEAN
  BY DEF SettingsOK
<1>2. /\ CodegenAtom(r, "BindServiceLockedWithBalFlagsReported").what # "event"
      /\ CodegenAtom(r, "BindServiceLockedWithBalFlagsUidsReported").what # "event"
      /\ CodegenAtom(r, "BindServiceLockedWithBalFlagsUidsReported").what \notin NameAtoms
      /\ Event(r, FALSE).what \notin NameAtoms
  BY DEF CodegenAtom, Event, NameAtoms
<1>3. Quiet(BindNames(r))
  <2>1. CASE userBuild = TRUE
    BY <2>1, NothingQuiet DEF BindNames
  <2>2. CASE userBuild = FALSE
    BY <1>2, <2>2, OneQuiet DEF BindNames
  <2> QED
    BY <1>1, <2>1, <2>2
<1>4. Quiet(BindUids(r))
  BY <1>2, NothingQuiet, OneQuiet DEF BindUids
<1>5. Quiet(BindNames(r) \o BindUids(r))
  BY <1>3, <1>4, JoinQuiet
<1>6. EventLast((BindNames(r) \o BindUids(r)) \o <<Event(r, FALSE)>>)
  BY <1>2, <1>5, EventAtTheEnd
<1> QED
  BY <1>6, NothingQuiet DEF BindOutputs

LEMMA SettingEventLast ==
  ASSUME SettingsOK, NEW r
  PROVE  EventLast(SettingOutputs(r))
<1> DEFINE d == r.data.call
           names == IF userBuild THEN <<>>
                    ELSE <<CodegenAtom(r, "SetComponentEnabledSettingReported")>>
           atom  == [CodegenAtom(r, "DisabledLauncherActivityUidsReported")
                     EXCEPT !.fields = <<CallingPackage(d.caller)>>]
           uids  == IF d.launcher /\ d.caller # "" THEN <<atom>> ELSE <<>>
           event == IF d.launcher THEN <<Event(r, FALSE)>> ELSE <<>>
<1>1. userBuild \in BOOLEAN
  BY DEF SettingsOK
<1>2. /\ CodegenAtom(r, "SetComponentEnabledSettingReported").what # "event"
      /\ atom.what # "event" /\ atom.what \notin NameAtoms
      /\ Event(r, FALSE).what \notin NameAtoms
  BY DEF CodegenAtom, Event, NameAtoms
<1>3. SettingOutputs(r) = (names \o uids) \o event
  BY DEF SettingOutputs
<1> HIDE DEF d, atom
<1>4. Quiet(names)
  <2>1. CASE userBuild = TRUE
    BY <2>1, NothingQuiet
  <2>2. CASE userBuild = FALSE
    BY <1>2, <2>2, OneQuiet
  <2> QED
    BY <1>1, <2>1, <2>2
<1>5. Quiet(uids)
  BY <1>2, NothingQuiet, OneQuiet
<1>6. event = <<>> \/ event = <<Event(r, FALSE)>>
  OBVIOUS
<1> HIDE DEF names, uids, event
<1>7. Quiet(names \o uids)
  BY <1>4, <1>5, JoinQuiet
<1>8. EventLast((names \o uids) \o event)
  BY <1>2, <1>6, <1>7, EventAtTheEnd, QuietEnds
<1> QED
  BY <1>3, <1>8

-----------------------------------------------------------------------------
(* Disruptive apps: the records and the outputs. *)

Unset == [error |-> TRUE, call |-> "unset"]
CallsOf(path) == IF path = "DisruptiveApp_BindServiceLocked_output_buf" THEN Binds ELSE Settings
DisruptiveData(path) == {Unset} \cup {[error |-> FALSE, call |-> d] : d \in CallsOf(path)}

(* Until the loop ends all outputs are about records accepted; after that   *)
(* the record it ended with may have some, but no event.                    *)
OutputsQuiet ==
    \A n \in 1..Len(out) :
        /\ out[n].id > Len(seen) => verdict = "reported" /\ out[n].what # "event"
        /\ out[n].what \in NameAtoms => userBuild = FALSE

DisruptiveOK ==
    mapPath \in DisruptiveMaps =>
        /\ DataIn(ring, DisruptiveData(mapPath)) /\ DataIn(batch, DisruptiveData(mapPath))
        /\ OutputsQuiet

(* What a handler of disruptive apps does with the outputs. *)
Idles == UNCHANGED <<seen, out>> /\ phase # "ended"
RefusesQuietly == \E outs, type, point : Quiet(outs) /\ Refuses(outs, type, point)
AcceptsAll == \E r, outs : EventLast(outs) /\ Outcome(r, outs) /\ Accepts(r, outs)

(* The record with the answer about the launcher. *)
Answered(r, answer) == [r EXCEPT !.data.call.launcher = answer]

LEMMA AnsweredSetting ==
  ASSUME NEW r, NEW k, IsRecordNo(r, k), NEW d, d \in Settings,
         r.data = [error |-> FALSE, call |-> d], NEW answer \in BOOLEAN
  PROVE  /\ Answered(r, answer).data.error = FALSE
         /\ Answered(r, answer).data.call \in AnsweredSettings
         /\ Answered(r, answer).data.call.state = d.state
<1> DEFINE call == [r.data.call EXCEPT !.launcher = answer]
           data == [r.data EXCEPT !.call = call]
<1>1. Answered(r, answer) = [r EXCEPT !.data = data]
  BY DEF Answered
<1>2. call \in AnsweredSettings /\ call.state = d.state
  <2>1. r.data.call = d
    OBVIOUS
  <2>2. call = [d EXCEPT !.launcher = answer]
    BY <2>1
  <2> QED
    BY <2>2 DEF Settings, AnsweredSettings
<1> HIDE DEF call
<1>3. data.error = FALSE /\ data.call = call
  OBVIOUS
<1> HIDE DEF data
<1>4. r = [id |-> k, ready |-> r.ready, data |-> r.data]
  BY DEF IsRecordNo
<1>5. [r EXCEPT !.data = data].data = data
  BY <1>4
<1> QED
  BY <1>1, <1>2, <1>3, <1>5

LEMMA DisruptiveItem ==
  ASSUME LoopInv, SettingsOK, DataIn(batch, DisruptiveData(mapPath)),
         OnProgramError \/ OnMalformed \/ OnBind \/ OnSetting
  PROVE  RefusesQuietly \/ AcceptsAll
<1>1. phase = "handling"
  BY DEF OnProgramError, OnMalformed, OnBind, OnSetting, Handling
<1>2. Head(batch).ready = TRUE /\ OutputsOf(Head(batch).id, <<>>) /\ Quiet(<<>>) /\ EventLast(<<>>)
      /\ Head(batch) = batch[1] /\ 1 \in 1..Len(batch)
  <2>1. Head(batch).ready = TRUE /\ Head(batch) = batch[1] /\ Len(batch) \in Nat \ {0}
    BY <1>1, HeadRecord
  <2>2. 1 \in 1..Len(batch)
    BY <2>1
  <2> QED
    BY <2>1, <2>2, NoOutputs, NothingQuiet
<1>3. Head(batch).data \in DisruptiveData(mapPath) /\ IsRecordNo(Head(batch), Len(seen) + 1)
  BY <1>2 DEF DataIn, LoopInv, Numbered
<1>4. ASSUME NEW type \in ErrorTypes, NEW point, Refuse(<<>>, type, point) PROVE RefusesQuietly
  BY <1>1, <1>2, <1>4 DEF Refuses, RefusesQuietly
<1>5. ASSUME NEW outs, EventLast(outs), OutputsOf(Head(batch).id, outs), NEW asks,
             NEW cut \in CutShort(outs, asks), Refuse(cut, "TaskExecutionFailed", 0)
      PROVE  RefusesQuietly
  <2>1. Quiet(cut) /\ OutputsOf(Head(batch).id, cut)
    BY <1>5, CutIsQuiet, CutOutputs
  <2>2. Refuses(cut, "TaskExecutionFailed", 0)
    BY <1>1, <1>5, <2>1 DEF Refuses, ErrorTypes
  <2> QED
    BY <2>1, <2>2 DEF RefusesQuietly
<1>6. CASE OnProgramError \/ OnMalformed
  <2>1. PICK type \in ErrorTypes, point \in Int : Refuse(<<>>, type, point)
    BY <1>6 DEF OnProgramError, OnMalformed, ErrorTypes
  <2> QED
    BY <1>4, <2>1
<1>7. CASE OnBind
  <2>1. mapPath = "DisruptiveApp_BindServiceLocked_output_buf" /\ ~Head(batch).data.error
    BY <1>7 DEF OnBind, Handling
  <2>2. PICK d \in Binds : Head(batch).data = [error |-> FALSE, call |-> d]
    <3>1. CallsOf(mapPath) = Binds
      BY <2>1 DEF CallsOf
    <3>2. Unset.error = TRUE
      BY DEF Unset
    <3>3. Head(batch).data # Unset
      BY <2>1, <3>2
    <3> QED
      BY <1>3, <3>1, <3>3 DEF DisruptiveData
  <2>3. PICK outs : outs = BindOutputs(Head(batch))
    OBVIOUS
  <2>4. OutputsOf(Head(batch).id, outs) /\ EventLast(outs)
    BY <2>3, BindOutputsOf, BindEventLast
  <2>5. \/ Refuse(<<>>, "BpfRingBufferDataInvalid", 1)
        \/ Accept(Head(batch), outs)
        \/ \E cut \in CutShort(outs, FALSE) : Refuse(cut, "TaskExecutionFailed", 0)
    BY <1>7, <2>3 DEF OnBind
  <2>6. CASE Refuse(<<>>, "BpfRingBufferDataInvalid", 1)
    BY <1>4, <2>6 DEF ErrorTypes
  <2>7. CASE Accept(Head(batch), outs)
    <3>1. Accepts(Head(batch), outs)
      BY <1>1, <1>2, <2>4, <2>7 DEF Accepts
    <3>2. Outcome(Head(batch), outs)
      BY <2>1, <2>2, <2>3 DEF Outcome, BindOutcome, GenericMaps, AllowlistMaps
    <3> QED
      BY <2>4, <3>1, <3>2 DEF AcceptsAll
  <2>8. CASE \E cut \in CutShort(outs, FALSE) : Refuse(cut, "TaskExecutionFailed", 0)
    BY <1>5, <2>4, <2>8
  <2> QED
    BY <2>5, <2>6, <2>7, <2>8
<1>8. CASE OnSetting
  <2>1. mapPath = "DisruptiveApp_ComponentEnabledSetting_output_buf" /\ ~Head(batch).data.error
    BY <1>8 DEF OnSetting, Handling
  <2>2. PICK d \in Settings : Head(batch).data = [error |-> FALSE, call |-> d]
    <3>1. CallsOf(mapPath) = Settings
      BY <2>1 DEF CallsOf
    <3>2. Unset.error = TRUE
      BY DEF Unset
    <3>3. Head(batch).data # Unset
      BY <2>1, <3>2
    <3> QED
      BY <1>3, <3>1, <3>3 DEF DisruptiveData
  <2>3. PICK answer \in BOOLEAN :
            LET r == [Head(batch) EXCEPT !.data.call.launcher = answer]
            IN  \/ Refuse(<<>>, "BpfRingBufferDataInvalid", 1)
                \/ Refuse(<<>>, "BpfRingBufferDataInvalid", 2)
                \/ ~Disables(r.data.call) /\ Accept(Head(batch), <<>>)
                \/ Disables(r.data.call) /\ Accept(r, SettingOutputs(r))
                \/ \E cut \in CutShort(SettingOutputs(r), TRUE) :
                       Refuse(cut, "TaskExecutionFailed", 0)
    BY <1>8 DEF OnSetting
  <2>4. PICK r : r = [Head(batch) EXCEPT !.data.call.launcher = answer]
    OBVIOUS
  <2>5. PICK outs : outs = SettingOutputs(r)
    OBVIOUS
  <2>6. \/ Refuse(<<>>, "BpfRingBufferDataInvalid", 1)
        \/ Refuse(<<>>, "BpfRingBufferDataInvalid", 2)
        \/ ~Disables(r.data.call) /\ Accept(Head(batch), <<>>)
        \/ Disables(r.data.call) /\ Accept(r, outs)
        \/ \E cut \in CutShort(outs, TRUE) : Refuse(cut, "TaskExecutionFailed", 0)
    BY <2>3, <2>4, <2>5
  <2>7. r.id = Head(batch).id /\ r.ready = TRUE
    <3>1. r.id = Head(batch).id /\ r.ready = Head(batch).ready
      BY <1>3, <2>4, AnsweredRecord
    <3> QED
      BY <1>2, <3>1
  <2>8. r.data.error = FALSE /\ r.data.call \in AnsweredSettings /\ r.data.call.state = d.state
    <3>1. PICK h, k : h = Head(batch) /\ IsRecordNo(h, k)
      BY <1>3
    <3>2. h.data = [error |-> FALSE, call |-> d]
      BY <2>2, <3>1
    <3>3. /\ Answered(h, answer).data.error = FALSE
          /\ Answered(h, answer).data.call \in AnsweredSettings
          /\ Answered(h, answer).data.call.state = d.state
      BY <3>1, <3>2, AnsweredSetting
    <3>4. r = Answered(h, answer)
      BY <2>4, <3>1 DEF Answered
    <3> QED
      BY <3>3, <3>4
  <2>9. OutputsOf(Head(batch).id, outs) /\ EventLast(outs)
    <3>1. OutputsOf(r.id, outs)
      BY <2>5, SettingOutputsOf
    <3> QED
      BY <2>5, <2>7, <3>1, SettingEventLast
  <2>10. CASE \/ Refuse(<<>>, "BpfRingBufferDataInvalid", 1)
              \/ Refuse(<<>>, "BpfRingBufferDataInvalid", 2)
    BY <1>4, <2>10 DEF ErrorTypes
  <2>11. CASE ~Disables(r.data.call) /\ Accept(Head(batch), <<>>)
    <3>1. Accepts(Head(batch), <<>>)
      BY <1>1, <1>2, <2>11 DEF Accepts
    <3>2. d \in AnsweredSettings /\ ~Disables(d)
      BY <2>8, <2>11 DEF Settings, AnsweredSettings, Disables
    <3>3. Head(batch).data.error = FALSE /\ Head(batch).data.call = d
      BY <2>2
    <3>4. Outcome(Head(batch), <<>>)
      BY <2>1, <3>2, <3>3 DEF Outcome, SettingOutcome, GenericMaps, AllowlistMaps
    <3> QED
      BY <1>2, <3>1, <3>4 DEF AcceptsAll
  <2>12. CASE Disables(r.data.call) /\ Accept(r, outs)
    <3>1. Accepts(r, outs)
      BY <1>1, <2>7, <2>9, <2>12 DEF Accepts
    <3>2. Outcome(r, outs)
      BY <2>1, <2>5, <2>8, <2>12 DEF Outcome, SettingOutcome, GenericMaps, AllowlistMaps
    <3> QED
      BY <2>9, <3>1, <3>2 DEF AcceptsAll
  <2>13. CASE \E cut \in CutShort(outs, TRUE) : Refuse(cut, "TaskExecutionFailed", 0)
    BY <1>5, <2>9, <2>13
  <2> QED
    BY <2>6, <2>10, <2>11, <2>12, <2>13
<1> QED
  BY <1>6, <1>7, <1>8

LEMMA FinishesIdly ==
  ASSUME LoopInv, FinishOk(<<>>)
  PROVE  Idles
<1>1. PICK S : out \in Seq(S)
  BY DEF LoopInv, Ordered, IsSeq
<1>2. out \o <<>> = out
  BY <1>1
<1> QED
  BY <1>2 DEF FinishOk, Idles

LEMMA DisruptiveSteps ==
  ASSUME LoopInv, SettingsOK, DisruptiveOK, mapPath \in DisruptiveMaps, DisruptiveNext
  PROVE  /\ DataIn(ring', DisruptiveData(mapPath)) /\ DataIn(batch', DisruptiveData(mapPath))
         /\ Idles \/ RefusesQuietly \/ AcceptsAll
<1>1. PICK D : D = DisruptiveData(mapPath)
  OBVIOUS
<1>2. DataIn(ring, D) /\ DataIn(batch, D)
  BY <1>1 DEF DisruptiveOK
<1>3. CASE LoopStep
  <2>1. DataIn(ring', D) /\ DataIn(batch', D)
    BY <1>2, <1>3, LoopStepData
  <2>2. Idles
    BY <1>3, LoopStepFacts DEF Idles
  <2> QED
    BY <1>1, <2>1, <2>2
<1>4. CASE \E i \in 1..RingCapacity : Submit(i)
  <2>1. PICK i : i \in DOMAIN ring /\ SubmitAs(i, ring[i].data)
    BY <1>4 DEF Submit
  <2>2. IsSeq(ring) /\ DOMAIN ring = 1..Len(ring)
    BY SeqFacts DEF LoopInv, Numbered
  <2>3. PICK data : data = ring[i].data
    OBVIOUS
  <2>4. data \in D
    BY <1>2, <2>1, <2>2, <2>3 DEF DataIn
  <2>5. DataIn(ring', D) /\ DataIn(batch', D)
    BY <1>2, <2>1, <2>3, <2>4, SubmitData
  <2>6. Idles
    BY <2>1 DEF SubmitAs, Recording, Idles
  <2> QED
    BY <1>1, <2>5, <2>6
<1>5. ASSUME NEW data \in D, Reserve(data)
      PROVE  DataIn(ring', D) /\ DataIn(batch', D) /\ Idles
  <2>1. Idles
    BY <1>5 DEF Reserve, Room, Recording, Idles
  <2> QED
    BY <1>2, <1>5, <2>1, ReserveData
<1>6. CASE \E d \in Binds : BindServiceLocked(d)
  <2>1. PICK d \in Binds : BindServiceLocked(d)
    BY <1>6
  <2>2. [error |-> FALSE, call |-> d] \in D /\ Reserve([error |-> FALSE, call |-> d])
    BY <1>1, <2>1 DEF BindServiceLocked, DisruptiveData, CallsOf
  <2> QED
    BY <1>1, <1>5, <2>2
<1>7. CASE \E d \in Settings : SetComponentEnabledSetting(d)
  <2>1. PICK d \in Settings : SetComponentEnabledSetting(d)
    BY <1>7
  <2>2. [error |-> FALSE, call |-> d] \in D /\ Reserve([error |-> FALSE, call |-> d])
    BY <1>1, <2>1 DEF SetComponentEnabledSetting, DisruptiveData, CallsOf
  <2> QED
    BY <1>1, <1>5, <2>2
<1>8. CASE Unreadable
  <2>1. Unset \in D /\ Reserve(Unset)
    BY <1>1, <1>8 DEF Unreadable, DisruptiveData, Unset
  <2> QED
    BY <1>1, <1>5, <2>1
<1>9. CASE OnProgramError \/ OnMalformed \/ OnBind \/ OnSetting
  <2>1. RefusesQuietly \/ AcceptsAll
    BY <1>1, <1>2, <1>9, DisruptiveItem
  <2>2. CASE RefusesQuietly
    <3>1. UNCHANGED <<ring, batch>>
      BY <2>2 DEF RefusesQuietly, Refuses, Refuse
    <3> QED
      BY <1>1, <1>2, <2>1, <3>1
  <2>3. CASE AcceptsAll
    <3>1. PICK r, outs : phase = "handling" /\ Accept(r, outs)
      BY <2>3 DEF AcceptsAll, Accepts
    <3>2. DataIn(ring', D) /\ DataIn(batch', D)
      BY <1>2, <3>1, AcceptData
    <3> QED
      BY <1>1, <2>1, <3>2
  <2> QED
    BY <2>1, <2>2, <2>3
<1>10. CASE OnDisruptiveFinished
  <2>1. Idles /\ UNCHANGED <<ring, batch>>
    BY <1>10, FinishesIdly DEF OnDisruptiveFinished, FinishOk
  <2> QED
    BY <1>1, <1>2, <2>1
<1> QED
  BY <1>3, <1>4, <1>6, <1>7, <1>8, <1>9, <1>10 DEF DisruptiveNext

(* Names are written where they may be. *)
NamesAllowed(o, user) == \A n \in 1..Len(o) : o[n].what \in NameAtoms => user = FALSE

LEMMA NamesKept ==
  ASSUME NEW o, IsSeq(o), NEW more, IsSeq(more), NEW user,
         NamesAllowed(o, user), NamesAllowed(more, user)
  PROVE  NamesAllowed(o \o more, user)
<1>1. /\ \A i \in 1..Len(o) : i \in 1..Len(o \o more) /\ (o \o more)[i] = o[i]
      /\ \A j \in 1..Len(more) : /\ Len(o) + j \in 1..Len(o \o more)
                                /\ (o \o more)[Len(o) + j] = more[j]
      /\ \A i \in 1..Len(o \o more) : i \in 1..Len(o) \/ \E j \in 1..Len(more) : i = Len(o) + j
  BY ConcatParts, Zenon
<1> QED
  BY <1>1 DEF NamesAllowed

LEMMA StepsQuiet ==
  ASSUME LoopInv, LoopInv', OutputsQuiet, userBuild' = userBuild,
         Idles \/ RefusesQuietly \/ AcceptsAll
  PROVE  OutputsQuiet'
<1>1. IsSeq(out) /\ IsSeq(seen) /\ Len(seen) \in Nat
  BY SeqFacts DEF LoopInv, Ordered, Numbered
<1>2. /\ phase # "ended" => \A n \in 1..Len(out) : out[n].id \in Nat /\ out[n].id <= Len(seen)
      /\ phase' # "ended" => \A n \in 1..Len(out') : out'[n].id \in Nat /\ out'[n].id <= Len(seen')
      /\ IsSeq(out') /\ IsSeq(seen')
  BY DEF LoopInv, Ordered, Numbered
<1>3. NamesAllowed(out, userBuild)
  BY DEF OutputsQuiet, NamesAllowed
<1>4. CASE Idles
  <2>1. seen' = seen /\ out' = out /\ phase # "ended"
    BY <1>4 DEF Idles
  <2>2. \A n \in 1..Len(out) : ~(out[n].id > Len(seen))
    BY <1>1, <1>2, <2>1
  <2> QED
    BY <1>3, <2>1, <2>2 DEF OutputsQuiet, NamesAllowed
<1>5. CASE RefusesQuietly
  <2>1. PICK outs, type, point : Quiet(outs) /\ Refuses(outs, type, point)
    BY <1>5 DEF RefusesQuietly
  <2>2. phase = "handling" /\ out' = out \o outs /\ seen' = seen /\ verdict' = "reported"
    BY <2>1 DEF Refuses, Refuse, Report, End
  <2>3. NamesAllowed(out', userBuild)
    <3>1. IsSeq(outs) /\ NamesAllowed(outs, userBuild)
      BY <2>1 DEF Quiet, NamesAllowed
    <3> QED
      BY <1>1, <1>3, <2>2, <3>1, NamesKept
  <2>4. ASSUME NEW n \in 1..Len(out'), out'[n].id > Len(seen)
        PROVE  out'[n].what # "event"
    <3>1. /\ \A i \in 1..Len(out) : out'[i] = out[i]
          /\ \A j \in 1..Len(outs) : out'[Len(out) + j] = outs[j]
          /\ n \in 1..Len(out) \/ \E j \in 1..Len(outs) : n = Len(out) + j
      BY <1>1, <2>1, <2>2, ConcatParts DEF Quiet
    <3>2. CASE n \in 1..Len(out)
      BY <1>1, <1>2, <2>2, <2>4, <3>1, <3>2
    <3>3. CASE \E j \in 1..Len(outs) : n = Len(out) + j
      BY <2>1, <3>1, <3>3 DEF Quiet
    <3> QED
      BY <3>1, <3>2, <3>3
  <2> QED
    BY <2>2, <2>3, <2>4 DEF OutputsQuiet, NamesAllowed
<1>6. CASE AcceptsAll
  <2>1. PICK r, outs : EventLast(outs) /\ Accepts(r, outs)
    BY <1>6 DEF AcceptsAll
  <2>2. out' = out \o outs /\ phase' # "ended"
    BY <2>1 DEF Accepts, Accept
  <2>3. NamesAllowed(out', userBuild)
    <3>1. IsSeq(outs) /\ NamesAllowed(outs, userBuild)
      BY <2>1 DEF EventLast, NamesAllowed
    <3> QED
      BY <1>1, <1>3, <2>2, <3>1, NamesKept
  <2>4. Len(seen') \in Nat
    BY <1>2, SeqFacts
  <2>5. \A n \in 1..Len(out') : ~(out'[n].id > Len(seen'))
    BY <1>2, <2>2, <2>4
  <2> QED
    BY <2>3, <2>5 DEF OutputsQuiet, NamesAllowed
<1> QED
  BY <1>4, <1>5, <1>6

LEMMA DisruptiveStays ==
  ASSUME DisruptiveOK, UNCHANGED <<mapPath, ring, batch, out, seen, userBuild>>,
         verdict' = verdict \/ verdict # "reported"
  PROVE  DisruptiveOK'
<1>1. CASE mapPath \notin DisruptiveMaps
  BY <1>1 DEF DisruptiveOK
<1>2. CASE mapPath \in DisruptiveMaps
  <2>1. OutputsQuiet'
    BY <1>2 DEF DisruptiveOK, OutputsQuiet
  <2> QED
    BY <2>1 DEF DisruptiveOK, DataIn
<1> QED
  BY <1>1, <1>2

LEMMA InitDisruptive == Init => DisruptiveOK
<1> SUFFICES ASSUME Init PROVE DisruptiveOK
  OBVIOUS
<1>1. ring = <<>> /\ batch = <<>> /\ out = <<>> /\ 1..Len(<<>>) = {}
  BY EmptyIsSeq DEF Init, LoopInit
<1> QED
  BY <1>1 DEF DisruptiveOK, DataIn, OutputsQuiet

LEMMA NextDisruptive == HandlersInv /\ DisruptiveOK /\ [Next]_vars => DisruptiveOK'
<1> SUFFICES ASSUME HandlersInv, DisruptiveOK, [Next]_vars PROVE DisruptiveOK'
  OBVIOUS
<1>1. LoopInv /\ SettingsOK /\ LoopInv'
  BY NextHandlers DEF HandlersInv
<1>2. Settled
  BY NextSettled
<1>3. mapPath' = mapPath /\ userBuild' = userBuild
  BY <1>2 DEF Settled
<1>4. CASE UNCHANGED vars \/ Ended
  BY <1>4, DisruptiveStays DEF vars, loopVars, Ended, disruptiveVars
<1>5. CASE PollRegistryFails
  <2>1. verdict = "none"
    BY <1>1, <1>5 DEF PollRegistryFails, LoopInv, Judged
  <2> QED
    BY <1>3, <1>5, <2>1, DisruptiveStays DEF PollRegistryFails
<1>6. CASE PollRegistry /\ mapPath \notin DisruptiveMaps
  BY <1>3, <1>6 DEF DisruptiveOK
<1>7. CASE PollRegistry /\ mapPath \in DisruptiveMaps
  <2>1. DisruptiveNext
    BY <1>7 DEF PollRegistry, DisruptiveMaps, GenericMaps, AllowlistMaps
  <2>2. /\ DataIn(ring', DisruptiveData(mapPath)) /\ DataIn(batch', DisruptiveData(mapPath))
        /\ Idles \/ RefusesQuietly \/ AcceptsAll
    BY <1>1, <1>7, <2>1, DisruptiveSteps
  <2>3. OutputsQuiet'
    BY <1>1, <1>3, <1>7, <2>2, StepsQuiet DEF DisruptiveOK
  <2> QED
    BY <1>3, <2>2, <2>3 DEF DisruptiveOK
<1> QED
  BY <1>4, <1>5, <1>6, <1>7 DEF Next

LEMMA InitTraced == Init => Traced
<1> SUFFICES ASSUME Init PROVE Traced
  OBVIOUS
<1>1. seen = <<>> /\ 1..Len(<<>>) = {}
  BY EmptyIsSeq DEF Init, LoopInit
<1> QED
  BY <1>1 DEF Traced

(* A handler that follows a config: every record accepted has its outcome.  *)
Follows ==
    \/ UNCHANGED <<seen, out>>
    \/ \E outs, type, point : Refuses(outs, type, point)
    \/ \E r, outs : Outcome(r, outs) /\ Accepts(r, outs)

LEMMA GenericFollows ==
  ASSUME LoopInv, SettingsOK, mapPath \in GenericMaps \cup AllowlistMaps, GenericNext
  PROVE  Follows
<1>1. ASSUME phase = "handling"
      PROVE  Head(batch).ready = TRUE /\ OutputsOf(Head(batch).id, <<>>)
  BY <1>1, HeadRecord, NoOutputs
<1>2. ASSUME NEW r, NEW outs, GenericOutcome(r, outs) PROVE Outcome(r, outs)
  BY <1>2 DEF Outcome, GenericMaps, AllowlistMaps
<1>3. CASE LoopStep
  BY <1>3, LoopStepFacts DEF Follows
<1>4. CASE (\E i \in 1..RingCapacity : Submit(i)) \/ (\E bad \in BOOLEAN : ProbeHits(bad))
  BY <1>4 DEF Submit, SubmitAs, ProbeHits, Reserve, Follows
<1>5. CASE OnItemUnconfigured
  <2>1. Accepts(Head(batch), <<>>) /\ ~logging.present
    BY <1>1, <1>5 DEF OnItemUnconfigured, Accepts
  <2>2. GenericOutcome(Head(batch), <<>>)
    BY <2>1 DEF GenericOutcome
  <2> QED
    BY <1>2, <2>1, <2>2 DEF Follows
<1>6. CASE OnItemWritten
  <2>1. PICK o : o = UnstructuredAtom(Head(batch), AtomFields)
    OBVIOUS
  <2>2. o.id = Head(batch).id /\ o.what \notin Summaries
    BY <2>1 DEF UnstructuredAtom, Summaries
  <2>3. OutputsOf(Head(batch).id, <<o>>)
    BY <2>2, OneOutput
  <2>4. Accepts(Head(batch), <<o>>) /\ logging.present /\ logging.atomId
    BY <1>1, <1>6, <2>1, <2>3 DEF OnItemWritten, Accepts
  <2>5. GenericOutcome(Head(batch), <<o>>)
    BY <2>1, <2>4 DEF GenericOutcome
  <2> QED
    BY <1>2, <2>4, <2>5 DEF Follows
<1>7. CASE OnItemError
  <2>1. Refuses(<<>>, "TaskExecutionFailed", 0)
    BY <1>1, <1>7 DEF OnItemError, Refuses, ErrorTypes
  <2> QED
    BY <2>1 DEF Follows
<1>8. CASE OnItemPanics
  BY <1>8 DEF OnItemPanics, Follows
<1>9. CASE OnGenericFinished
  <2>1. Idles
    BY <1>9, FinishesIdly DEF OnGenericFinished
  <2> QED
    BY <2>1 DEF Idles, Follows
<1> QED
  BY <1>3, <1>4, <1>5, <1>6, <1>7, <1>8, <1>9 DEF GenericNext

(* Only one probe has a filter for the name of a record. *)
LEMMA OneProbe ==
  ASSUME HandlersInv, FiltersWritten, mapPath = "Binder_output_buf", mapPath \in Registered,
         phase = "handling", NEW name, NEW code, Probes(name, code) # {}
  PROVE  \E p : Probes(name, code) = {p}
<1>1. access = "open" /\ pending = {}
  BY DEF HandlersInv, BinderOK, BinderOrder, FiltersWritten
<1>2. FiltersHeld(config, pending, filters, found)
  BY <1>1 DEF FiltersWritten
<1>3. \A p \in Probes(name, code) : Sent(config, pending, p, name)
  BY <1>1 DEF Probes, Sent
<1>4. \A p, q \in Probes(name, code) : p = q
  BY <1>2, <1>3 DEF FiltersHeld
<1> QED
  BY <1>4

LEMMA BinderFollows ==
  ASSUME HandlersInv, FiltersWritten, mapPath = "Binder_output_buf", mapPath \in Registered,
         BinderNext
  PROVE  Follows
<1>1. LoopInv
  BY DEF HandlersInv
<1>2. CASE LoopStep
  BY <1>1, <1>2, LoopStepFacts DEF Follows
<1>3. CASE \/ OpenMap \/ StartDrain \/ DrainEnds
           \/ (\E f \in pending : PutFilter(f) \/ PutFilterFails(f))
           \/ \E key \in DOMAIN filters : DrainKey(key)
  BY <1>3 DEF OpenMap, StartDrain, DrainEnds, PutFilter, PutFilterFails, DrainKey, loopVars, Follows
<1>4. CASE \/ \E i \in 1..RingCapacity : Submit(i)
           \/ \E n \in Descriptors, c \in Codes : ExecTransactInternal(n, c)
  BY <1>4 DEF Submit, SubmitAs, ExecTransactInternal, Reserve, Follows
<1>5. CASE OnTransaction
  <2>1. phase = "handling"
    BY <1>5 DEF OnTransaction
  <2>2. Head(batch).ready = TRUE
    BY <1>1, <2>1, HeadRecord
  <2>3. PICK r : r = Head(batch)
    OBVIOUS
  <2>4. ASSUME Refuse(<<>>, "TaskExecutionFailed", 0) PROVE Follows
    <3>1. Refuses(<<>>, "TaskExecutionFailed", 0)
      BY <2>1, <2>4, NoOutputs DEF Refuses, ErrorTypes
    <3> QED
      BY <3>1 DEF Follows
  <2>5. CASE Writable(r.data.name, r.data.code)
    <3>1. PICK outs : outs = TransactionOutputs(r, FirstMethod(r.data.name, r.data.code))
      OBVIOUS
    <3>2. \/ Accept(r, outs)
          \/ \E cut \in CutShort(outs, FALSE) : Refuse(cut, "TaskExecutionFailed", 0)
      BY <1>5, <2>3, <2>5, <3>1 DEF OnTransaction
    <3>3. OutputsOf(Head(batch).id, outs)
      BY <2>3, <3>1, TransactionOutputsOf
    <3>4. CASE Accept(r, outs)
      <4>1. Accepts(r, outs)
        BY <2>1, <2>2, <2>3, <3>3, <3>4 DEF Accepts
      <4>2. \E p : Probes(r.data.name, r.data.code) = {p}
        <5>1. Probes(r.data.name, r.data.code) # {}
          BY <2>5 DEF Writable
        <5> QED
          BY <2>1, <5>1, OneProbe
      <4>3. Outcome(r, outs)
        BY <3>1, <4>2 DEF Outcome, BinderOutcome, GenericMaps, AllowlistMaps
      <4> QED
        BY <4>1, <4>3 DEF Follows
    <3>5. CASE \E cut \in CutShort(outs, FALSE) : Refuse(cut, "TaskExecutionFailed", 0)
      <4>1. PICK cut \in CutShort(outs, FALSE) : Refuse(cut, "TaskExecutionFailed", 0)
        BY <3>5
      <4>2. OutputsOf(Head(batch).id, cut)
        BY <3>3, CutOutputs
      <4>3. Refuses(cut, "TaskExecutionFailed", 0)
        BY <2>1, <4>1, <4>2 DEF Refuses, ErrorTypes
      <4> QED
        BY <4>3 DEF Follows
    <3> QED
      BY <3>2, <3>4, <3>5
  <2>6. CASE ~Writable(r.data.name, r.data.code)
    BY <1>5, <2>3, <2>4, <2>6 DEF OnTransaction
  <2> QED
    BY <2>5, <2>6
<1>6. CASE OnBinderFinished
  <2>1. Idles
    BY <1>1, <1>6, FinishesIdly DEF OnBinderFinished
  <2> QED
    BY <2>1 DEF Idles, Follows
<1> QED
  BY <1>2, <1>3, <1>4, <1>5, <1>6 DEF BinderNext

LEMMA NextTraced ==
  HandlersInv /\ FiltersWritten /\ DisruptiveOK /\ Traced /\ [Next]_vars => Traced'
<1> SUFFICES ASSUME HandlersInv, FiltersWritten, DisruptiveOK, Traced, [Next]_vars PROVE Traced'
  OBVIOUS
<1>1. LoopInv /\ SettingsOK
  BY DEF HandlersInv
<1>2. Settled
  BY NextSettled
<1>3. ASSUME Follows PROVE Traced'
  <2>1. CASE UNCHANGED <<seen, out>>
    BY <1>1, <1>2, <2>1, TracedStays
  <2>2. CASE \E outs, type, point : Refuses(outs, type, point)
    BY <1>1, <1>2, <2>2, TracedRefuses
  <2>3. CASE \E r, outs : Outcome(r, outs) /\ Accepts(r, outs)
    BY <1>1, <1>2, <2>3, TracedAccepts
  <2> QED
    BY <1>3, <2>1, <2>2, <2>3 DEF Follows
<1>4. CASE UNCHANGED vars \/ Ended \/ PollRegistryFails
  <2>1. UNCHANGED <<seen, out>>
    BY <1>4 DEF Ended, vars, loopVars, PollRegistryFails
  <2> QED
    BY <1>3, <2>1 DEF Follows
<1>5. CASE PollRegistry /\ mapPath \notin TracedMaps
  BY <1>2, <1>5 DEF Traced, Settled
<1>6. CASE PollRegistry /\ mapPath \in TracedMaps
  <2>1. CASE mapPath = "Binder_output_buf" /\ BinderNext
    <3>1. mapPath \in Registered
      BY <1>6 DEF PollRegistry
    <3> QED
      BY <1>3, <2>1, <3>1, BinderFollows
  <2>2. CASE mapPath \in DisruptiveMaps /\ DisruptiveNext
    <3>1. Idles \/ RefusesQuietly \/ AcceptsAll
      BY <1>1, <2>2, DisruptiveSteps
    <3> QED
      BY <1>3, <3>1 DEF Follows, Idles, RefusesQuietly, AcceptsAll
  <2>3. CASE mapPath \in GenericMaps \cup AllowlistMaps /\ GenericNext
    BY <1>1, <1>3, <2>3, GenericFollows
  <2>4. mapPath \notin {"Accessibility_output_buf", "BitmapAllocation_output"}
    BY <1>6 DEF TracedMaps, DisruptiveMaps, GenericMaps, AllowlistMaps
  <2> QED
    BY <1>6, <2>1, <2>2, <2>3, <2>4 DEF PollRegistry
<1> QED
  BY <1>4, <1>5, <1>6 DEF Next

LEMMA TracedInvariance == Spec => [](HandlersInv /\ FiltersWritten /\ DisruptiveOK /\ Traced)
<1>1. Init => HandlersInv /\ FiltersWritten /\ DisruptiveOK /\ Traced
  BY InitHandlers, InitFilters, InitDisruptive, InitTraced
<1>2. HandlersInv /\ FiltersWritten /\ DisruptiveOK /\ Traced /\ [Next]_vars
          => HandlersInv' /\ FiltersWritten' /\ DisruptiveOK' /\ Traced'
  BY NextHandlers, NextFilters, NextDisruptive, NextTraced
<1> QED
  BY <1>1, <1>2, PTL DEF Spec

-----------------------------------------------------------------------------
(* What the outputs of a record are. *)

Whats(s) == {s[j].what : j \in 1..Len(s)}

LEMMA WhatsOfParts ==
  ASSUME NEW a, NEW b, IsSeq(a), IsSeq(b)
  PROVE  IsSeq(a \o b) /\ Whats(a \o b) = Whats(a) \cup Whats(b)
<1>1. /\ \A i \in 1..Len(a) : i \in 1..Len(a \o b) /\ (a \o b)[i] = a[i]
      /\ \A j \in 1..Len(b) : Len(a) + j \in 1..Len(a \o b) /\ (a \o b)[Len(a) + j] = b[j]
      /\ \A i \in 1..Len(a \o b) : i \in 1..Len(a) \/ \E j \in 1..Len(b) : i = Len(a) + j
  BY ConcatParts
<1>2. IsSeq(a \o b)
  BY ConcatIsSeq
<1>3. Whats(a \o b) \subseteq Whats(a) \cup Whats(b)
  BY <1>1 DEF Whats
<1>4. Whats(a) \subseteq Whats(a \o b) /\ Whats(b) \subseteq Whats(a \o b)
  BY <1>1 DEF Whats
<1> QED
  BY <1>2, <1>3, <1>4

LEMMA WhatsOfOne == ASSUME NEW o PROVE IsSeq(<<o>>) /\ Whats(<<o>>) = {o.what}
<1>1. IsSeq(<<o>>) /\ Len(<<o>>) = 1 /\ <<o>>[1] = o
  BY SingleIsSeq
<1>2. 1..Len(<<o>>) = {1}
  BY <1>1
<1> QED
  BY <1>1, <1>2 DEF Whats

LEMMA WhatsOfNone == IsSeq(<<>>) /\ Whats(<<>>) = {}
<1>1. IsSeq(<<>>) /\ 1..Len(<<>>) = {}
  BY EmptyIsSeq
<1> QED
  BY <1>1 DEF Whats

(* The outputs found by the number of a record. *)
LEMMA WhatsCarried ==
  ASSUME NEW o, IsSeq(o), NEW k, NEW outs, IsSeq(outs), Carries(o, k, outs)
  PROVE  {p.what : p \in {q \in ToSet(o) : q.id = k}} = Whats(outs)
<1>1. PICK b \in Nat : CarriesAt(o, k, outs, b)
  BY DEF Carries
<1>2. DOMAIN o = 1..Len(o) /\ Len(o) \in Nat /\ Len(outs) \in Nat
  BY SeqFacts
<1>3. ASSUME NEW j \in 1..Len(outs)
      PROVE  outs[j] \in ToSet(o) /\ outs[j].id = k
  <2>1. b + j \in 1..Len(o) /\ o[b + j] = outs[j]
    BY <1>1 DEF CarriesAt
  <2>2. b + j \in (b + 1)..(b + Len(outs))
    BY <1>2
  <2>3. o[b + j].id = k
    BY <1>1, <2>1, <2>2 DEF CarriesAt
  <2> QED
    BY <1>2, <2>1, <2>3 DEF ToSet
<1>4. ASSUME NEW q \in ToSet(o), q.id = k
      PROVE  \E j \in 1..Len(outs) : q = outs[j]
  <2>1. PICK n \in 1..Len(o) : q = o[n]
    BY <1>2 DEF ToSet
  <2>2. n \in (b + 1)..(b + Len(outs))
    BY <1>1, <1>4, <2>1 DEF CarriesAt
  <2>3. n - b \in 1..Len(outs) /\ b + (n - b) = n
    BY <1>2, <2>2
  <2>4. o[b + (n - b)] = outs[n - b]
    BY <1>1, <2>3 DEF CarriesAt
  <2> QED
    BY <2>1, <2>3, <2>4
<1> QED
  BY <1>3, <1>4 DEF Whats

BindName    == "BindServiceLockedWithBalFlagsReported"
BindUid     == "BindServiceLockedWithBalFlagsUidsReported"
SettingName == "SetComponentEnabledSettingReported"
SettingUid  == "DisabledLauncherActivityUidsReported"

LEMMA BindWanted ==
  ASSUME SettingsOK, mapPath = "DisruptiveApp_BindServiceLocked_output_buf",
         NEW r, NEW outs, BindOutcome(r, outs)
  PROVE  Whats(outs) = Wanted(r)
<1>1. PICK d \in Binds : d = r.data.call
  BY DEF BindOutcome
<1>2. d.bal \in BOOLEAN /\ d.caller \in BOOLEAN /\ d.pkg \in BOOLEAN /\ d.component \in BOOLEAN
      /\ userBuild \in BOOLEAN
  BY DEF Binds, SettingsOK
<1>3. Wanted(r) = {w \in {"event", BindName, BindUid} :
                      \/ w = "event" /\ d.bal
                      \/ w = BindName /\ d.bal /\ ~userBuild
                      \/ w = BindUid /\ d.bal /\ d.caller /\ (d.pkg \/ d.component)}
  BY <1>1, <1>2 DEF Wanted, BindName, BindUid
<1>4. IsSeq(BindNames(r)) /\ Whats(BindNames(r)) = IF userBuild THEN {} ELSE {BindName}
  BY WhatsOfNone, WhatsOfOne DEF BindNames, CodegenAtom, BindName
<1>5. /\ IsSeq(BindUids(r))
      /\ Whats(BindUids(r)) = IF d.caller /\ (d.pkg \/ d.component) THEN {BindUid} ELSE {}
  BY <1>1, WhatsOfNone, WhatsOfOne DEF BindUids, CodegenAtom, BindUid
<1>6. IsSeq(<<Event(r, FALSE)>>) /\ Whats(<<Event(r, FALSE)>>) = {"event"}
  BY WhatsOfOne DEF Event
<1>7. /\ IsSeq(BindNames(r) \o BindUids(r))
      /\ Whats(BindNames(r) \o BindUids(r)) = Whats(BindNames(r)) \cup Whats(BindUids(r))
  BY <1>4, <1>5, WhatsOfParts
<1>8. Whats((BindNames(r) \o BindUids(r)) \o <<Event(r, FALSE)>>)
          = Whats(BindNames(r)) \cup Whats(BindUids(r)) \cup {"event"}
  <2>1. PICK a, b : a = BindNames(r) \o BindUids(r) /\ b = <<Event(r, FALSE)>>
    OBVIOUS
  <2>2. Whats(a \o b) = Whats(a) \cup Whats(b)
    BY <1>6, <1>7, <2>1, WhatsOfParts
  <2> QED
    BY <1>6, <1>7, <2>1, <2>2
<1>9. CASE d.bal = TRUE
  <2>1. outs = (BindNames(r) \o BindUids(r)) \o <<Event(r, FALSE)>>
    BY <1>1, <1>9 DEF BindOutcome, BindOutputs
  <2>2. Wanted(r) = (IF userBuild THEN {} ELSE {BindName})
                        \cup (IF d.caller /\ (d.pkg \/ d.component) THEN {BindUid} ELSE {})
                        \cup {"event"}
    BY <1>2, <1>3, <1>9 DEF BindName, BindUid
  <2> QED
    BY <1>4, <1>5, <1>8, <2>1, <2>2
<1>10. CASE d.bal = FALSE
  <2>1. outs = <<>>
    BY <1>1, <1>10 DEF BindOutcome, BindOutputs
  <2>2. Wanted(r) = {}
    BY <1>3, <1>10
  <2> QED
    BY <2>1, <2>2, WhatsOfNone
<1> QED
  BY <1>2, <1>9, <1>10

LEMMA SettingWanted ==
  ASSUME SettingsOK, mapPath = "DisruptiveApp_ComponentEnabledSetting_output_buf",
         NEW r, NEW outs, SettingOutcome(r, outs)
  PROVE  Whats(outs) = Wanted(r)
<1>1. PICK d \in AnsweredSettings : d = r.data.call
  BY DEF SettingOutcome
<1>2. d.launcher \in BOOLEAN /\ userBuild \in BOOLEAN
  BY DEF AnsweredSettings, SettingsOK
<1>3. Wanted(r) = {w \in {"event", SettingName, SettingUid} :
                      \/ w = "event" /\ Disables(d) /\ d.launcher
                      \/ w = SettingName /\ Disables(d) /\ ~userBuild
                      \/ w = SettingUid /\ Disables(d) /\ d.launcher /\ d.caller # ""}
  BY <1>1, <1>2 DEF Wanted, SettingName, SettingUid
<1>4. CASE Disables(d)
  <2> DEFINE atom  == [CodegenAtom(r, "DisabledLauncherActivityUidsReported")
                       EXCEPT !.fields = <<CallingPackage(d.caller)>>]
             names == IF userBuild THEN <<>>
                      ELSE <<CodegenAtom(r, "SetComponentEnabledSettingReported")>>
             uids  == IF d.launcher /\ d.caller # "" THEN <<atom>> ELSE <<>>
             event == IF d.launcher THEN <<Event(r, FALSE)>> ELSE <<>>
  <2>1. outs = (names \o uids) \o event
    BY <1>1, <1>4 DEF SettingOutcome, SettingOutputs
  <2>2. atom.what = SettingUid
    BY DEF CodegenAtom, SettingUid
  <2>3. CodegenAtom(r, "SetComponentEnabledSettingReported").what = SettingName
    BY DEF CodegenAtom, SettingName
  <2>4. Event(r, FALSE).what = "event"
    BY DEF Event
  <2> HIDE DEF atom
  <2>5. IsSeq(names) /\ Whats(names) = IF userBuild THEN {} ELSE {SettingName}
    BY <2>3, WhatsOfNone, WhatsOfOne
  <2>6. IsSeq(uids) /\ Whats(uids) = IF d.launcher /\ d.caller # "" THEN {SettingUid} ELSE {}
    BY <2>2, WhatsOfNone, WhatsOfOne
  <2>7. IsSeq(event) /\ Whats(event) = IF d.launcher THEN {"event"} ELSE {}
    BY <2>4, WhatsOfNone, WhatsOfOne
  <2> HIDE DEF names, uids, event
  <2>8. IsSeq(names \o uids) /\ Whats(names \o uids) = Whats(names) \cup Whats(uids)
    BY <2>5, <2>6, WhatsOfParts
  <2>9. Whats((names \o uids) \o event) = Whats(names) \cup Whats(uids) \cup Whats(event)
    BY <2>7, <2>8, WhatsOfParts
  <2>10. Wanted(r) = (IF userBuild THEN {} ELSE {SettingName})
                         \cup (IF d.launcher /\ d.caller # "" THEN {SettingUid} ELSE {})
                         \cup (IF d.launcher THEN {"event"} ELSE {})
    BY <1>2, <1>3, <1>4 DEF SettingName, SettingUid
  <2> QED
    BY <2>1, <2>5, <2>6, <2>7, <2>9, <2>10
<1>5. CASE ~Disables(d)
  <2>1. outs = <<>>
    BY <1>1, <1>5 DEF SettingOutcome
  <2>2. Wanted(r) = {}
    BY <1>3, <1>5
  <2> QED
    BY <2>1, <2>2, WhatsOfNone
<1> QED
  BY <1>4, <1>5

LEMMA ReportedAsWanted ==
  ASSUME HandlersInv, DisruptiveOK, Traced
  PROVE  DisruptionsReported
<1> SUFFICES ASSUME mapPath \in DisruptiveMaps
             PROVE  /\ \A r \in ToSet(seen) : ~r.data.error /\ Written(r) = Wanted(r)
                    /\ \A o \in ToSet(out) :
                           /\ o.id > Len(seen) => verdict = "reported" /\ o.what # "event"
                           /\ o.what \in NameAtoms => ~userBuild
  BY DEF DisruptionsReported
<1>1. LoopInv /\ SettingsOK
  BY DEF HandlersInv
<1>2. IsSeq(seen) /\ IsSeq(out) /\ DOMAIN seen = 1..Len(seen) /\ DOMAIN out = 1..Len(out)
  BY <1>1, SeqFacts DEF LoopInv, Numbered, Ordered
<1>3. ASSUME NEW r \in ToSet(seen) PROVE ~r.data.error /\ Written(r) = Wanted(r)
  <2>1. PICK i \in 1..Len(seen) : seen[i] = r
    BY <1>2 DEF ToSet
  <2>2. r.id = i
    BY <1>1, <2>1 DEF LoopInv, Numbered
  <2>3. PICK outs : IsSeq(outs) /\ Outcome(r, outs) /\ Carries(out, i, outs)
    BY <2>1 DEF Traced, TracedAs, TracedMaps
  <2>4. Written(r) = Whats(outs)
    BY <1>2, <2>2, <2>3, WhatsCarried DEF Written
  <2>5. CASE mapPath = "DisruptiveApp_BindServiceLocked_output_buf"
    <3>1. BindOutcome(r, outs)
      BY <2>3, <2>5 DEF Outcome
    <3>2. Whats(outs) = Wanted(r)
      BY <1>1, <2>5, <3>1, BindWanted
    <3> QED
      BY <2>4, <3>1, <3>2 DEF BindOutcome
  <2>6. CASE mapPath = "DisruptiveApp_ComponentEnabledSetting_output_buf"
    <3>1. SettingOutcome(r, outs)
      BY <2>3, <2>6 DEF Outcome
    <3>2. Whats(outs) = Wanted(r)
      BY <1>1, <2>6, <3>1, SettingWanted
    <3> QED
      BY <2>4, <3>1, <3>2 DEF SettingOutcome
  <2> QED
    BY <2>5, <2>6 DEF DisruptiveMaps
<1>4. ASSUME NEW o \in ToSet(out)
      PROVE  /\ o.id > Len(seen) => verdict = "reported" /\ o.what # "event"
             /\ o.what \in NameAtoms => ~userBuild
  <2>1. PICK n \in 1..Len(out) : o = out[n]
    BY <1>2 DEF ToSet
  <2> QED
    BY <2>1 DEF DisruptiveOK, OutputsQuiet
<1> QED
  BY <1>3, <1>4

(* At most one atom, and after it at most one other output. *)
IsAtom(o, fields)  == o.what = "atom" /\ o.fields = fields
PairOf(outs, hasAtom, fields, hasEvent, kind) ==
    /\ IsSeq(outs) /\ Len(outs) = (IF hasAtom THEN 1 ELSE 0) + (IF hasEvent THEN 1 ELSE 0)
    /\ hasAtom => IsAtom(outs[1], fields)
    /\ hasEvent => outs[Len(outs)].what = kind

(* The outputs with number k, the atoms among them, and their count. *)
Mine(o, k)      == {n \in DOMAIN o : o[n].id = k}
MineAtoms(o, k) == {n \in Mine(o, k) : o[n].what = "atom"}

Counted(o, k, hasAtom, fields, hasEvent, kind) ==
    /\ Cardinality(MineAtoms(o, k)) = IF hasAtom THEN 1 ELSE 0
    /\ \A n \in MineAtoms(o, k) : o[n].fields = fields
    /\ Cardinality(Mine(o, k) \ MineAtoms(o, k)) = IF hasEvent THEN 1 ELSE 0
    /\ \A n \in Mine(o, k) \ MineAtoms(o, k) : hasEvent /\ o[n].what = kind

LEMMA PairCounted ==
  ASSUME NEW o, IsSeq(o), NEW k, NEW outs, Carries(o, k, outs), NEW hasAtom \in BOOLEAN,
         NEW fields, NEW hasEvent \in BOOLEAN, NEW kind, kind # "atom",
         PairOf(outs, hasAtom, fields, hasEvent, kind)
  PROVE  Counted(o, k, hasAtom, fields, hasEvent, kind)
<1>1. PICK mine, atoms : mine = Mine(o, k) /\ atoms = MineAtoms(o, k)
  OBVIOUS
<1>2. mine = {n \in DOMAIN o : o[n].id = k} /\ atoms = {n \in mine : o[n].what = "atom"}
  BY <1>1 DEF Mine, MineAtoms
<1> SUFFICES /\ Cardinality(atoms) = IF hasAtom THEN 1 ELSE 0
             /\ \A n \in atoms : o[n].fields = fields
             /\ Cardinality(mine \ atoms) = IF hasEvent THEN 1 ELSE 0
             /\ \A n \in mine \ atoms : hasEvent /\ o[n].what = kind
  BY <1>1 DEF Counted
<1>3. PICK b \in Nat : CarriesAt(o, k, outs, b)
  BY DEF Carries
<1>4. DOMAIN o = 1..Len(o) /\ Len(o) \in Nat
  BY SeqFacts
<1>5. \A j \in 1..Len(outs) : b + j \in 1..Len(o) /\ o[b + j] = outs[j]
  BY <1>3 DEF CarriesAt
<1>6. \A n \in 1..Len(o) : o[n].id = k <=> n \in (b + 1)..(b + Len(outs))
  BY <1>3 DEF CarriesAt
<1>7. Cardinality({}) = 0 /\ \A x : Cardinality({x}) = 1
  BY FS_EmptySet, FS_Singleton
<1>8. CASE hasAtom = FALSE /\ hasEvent = FALSE
  <2>1. Len(outs) = 0
    BY <1>8 DEF PairOf
  <2>2. mine = {}
    BY <1>2, <1>4, <1>6, <2>1
  <2>3. atoms = {} /\ mine \ atoms = {}
    BY <1>2, <2>2
  <2> QED
    BY <1>7, <1>8, <2>3
<1>9. CASE hasAtom = TRUE /\ hasEvent = FALSE
  <2>1. Len(outs) = 1 /\ IsAtom(outs[1], fields)
    BY <1>9 DEF PairOf
  <2>2. b + 1 \in 1..Len(o) /\ o[b + 1] = outs[1]
    BY <1>5, <2>1
  <2>3. mine = {b + 1}
    BY <1>2, <1>4, <1>6, <2>1, <2>2
  <2>4. atoms = {b + 1} /\ mine \ atoms = {}
    BY <1>2, <2>1, <2>2, <2>3 DEF IsAtom
  <2> QED
    BY <1>7, <1>9, <2>1, <2>2, <2>4 DEF IsAtom
<1>10. CASE hasAtom = FALSE /\ hasEvent = TRUE
  <2>1. Len(outs) = 1 /\ outs[1].what = kind
    BY <1>10 DEF PairOf
  <2>2. b + 1 \in 1..Len(o) /\ o[b + 1] = outs[1]
    BY <1>5, <2>1
  <2>3. mine = {b + 1}
    BY <1>2, <1>4, <1>6, <2>1, <2>2
  <2>4. atoms = {} /\ mine \ atoms = {b + 1}
    BY <1>2, <2>1, <2>2, <2>3
  <2> QED
    BY <1>7, <1>10, <2>1, <2>2, <2>4
<1>11. CASE hasAtom = TRUE /\ hasEvent = TRUE
  <2>1. Len(outs) = 2 /\ IsAtom(outs[1], fields) /\ outs[2].what = kind
    BY <1>11 DEF PairOf
  <2>2. /\ b + 1 \in 1..Len(o) /\ o[b + 1] = outs[1]
        /\ b + 2 \in 1..Len(o) /\ o[b + 2] = outs[2]
    BY <1>5, <2>1
  <2>3. mine = {b + 1, b + 2} /\ b + 1 # b + 2
    BY <1>2, <1>4, <1>6, <2>1, <2>2
  <2>4. atoms = {b + 1} /\ mine \ atoms = {b + 2}
    BY <1>2, <2>1, <2>2, <2>3 DEF IsAtom
  <2> QED
    BY <1>7, <1>11, <2>1, <2>2, <2>4 DEF IsAtom
<1> QED
  BY <1>8, <1>9, <1>10, <1>11

LEMMA GenericPair ==
  ASSUME SettingsOK, NEW r, NEW outs, GenericOutcome(r, outs)
  PROVE  PairOf(outs, (logging.present /\ logging.atomId), AtomFields, FALSE, "event")
<1>1. CASE logging.present /\ logging.atomId
  <2>1. outs = <<UnstructuredAtom(r, AtomFields)>>
    BY <1>1 DEF GenericOutcome
  <2>2. IsSeq(outs) /\ Len(outs) = 1 /\ outs[1] = UnstructuredAtom(r, AtomFields)
    BY <2>1, SingleIsSeq
  <2> QED
    BY <1>1, <2>2 DEF PairOf, IsAtom, UnstructuredAtom
<1>2. CASE ~(logging.present /\ logging.atomId)
  <2>1. outs = <<>>
    BY <1>2 DEF GenericOutcome
  <2> QED
    BY <1>2, <2>1, EmptyIsSeq DEF PairOf
<1> QED
  BY <1>1, <1>2

LEMMA TransactionPair ==
  ASSUME NEW r, NEW m, NEW hasAtom \in BOOLEAN, hasAtom <=> m.atom
  PROVE  PairOf(TransactionOutputs(r, m), hasAtom, m.positions, m.mode # "none",
                IF m.mode = "Flush" THEN "flush" ELSE "event")
<1> DEFINE kind == IF m.mode = "Flush" THEN "flush" ELSE "event"
<1>1. PICK a : a = IF m.atom THEN <<UnstructuredAtom(r, m.positions)>> ELSE <<>>
  OBVIOUS
<1>2. PICK e : e = IF m.mode = "none" THEN <<>> ELSE <<Event(r, Flush(m.mode))>>
  OBVIOUS
<1>3. TransactionOutputs(r, m) = a \o e
  BY <1>1, <1>2 DEF TransactionOutputs
<1>4. /\ IsSeq(a) /\ Len(a) = (IF hasAtom THEN 1 ELSE 0)
      /\ hasAtom => IsAtom(a[1], m.positions)
  <2>1. CASE hasAtom = TRUE
    <3>1. a = <<UnstructuredAtom(r, m.positions)>>
      BY <1>1, <2>1
    <3>2. IsSeq(a) /\ Len(a) = 1 /\ a[1] = UnstructuredAtom(r, m.positions)
      BY <3>1, SingleIsSeq
    <3> QED
      BY <2>1, <3>2 DEF IsAtom, UnstructuredAtom
  <2>2. CASE hasAtom = FALSE
    <3>1. a = <<>>
      BY <1>1, <2>2
    <3> QED
      BY <2>2, <3>1, EmptyIsSeq
  <2> QED
    BY <2>1, <2>2
<1>5. /\ IsSeq(e) /\ Len(e) = (IF m.mode # "none" THEN 1 ELSE 0)
      /\ m.mode # "none" => e[1].what = kind
  <2>1. CASE m.mode = "none"
    BY <1>2, <2>1, EmptyIsSeq
  <2>2. CASE m.mode # "none"
    <3>1. IsSeq(e) /\ Len(e) = 1 /\ e[1] = Event(r, Flush(m.mode))
      BY <1>2, <2>2, SingleIsSeq
    <3>2. Event(r, Flush(m.mode)).what = kind
      BY DEF Event, Flush
    <3> QED
      BY <2>2, <3>1, <3>2
  <2> QED
    BY <2>1, <2>2
<1> HIDE DEF kind
<1>6. PICK s : s = a \o e
  OBVIOUS
<1>7. IsSeq(s) /\ Len(s) = Len(a) + Len(e)
  BY <1>4, <1>5, <1>6, ConcatIsSeq
<1>8. /\ \A i \in 1..Len(a) : s[i] = a[i]
      /\ \A j \in 1..Len(e) : s[Len(a) + j] = e[j]
  <2>1. IsSeq(a) /\ IsSeq(e)
    BY <1>4, <1>5
  <2>2. /\ \A i \in 1..Len(a) : i \in 1..Len(a \o e) /\ (a \o e)[i] = a[i]
        /\ \A j \in 1..Len(e) : Len(a) + j \in 1..Len(a \o e) /\ (a \o e)[Len(a) + j] = e[j]
    BY <2>1, ConcatParts
  <2> QED
    BY <1>6, <2>2, Zenon
<1>9. hasAtom => IsAtom(s[1], m.positions)
  BY <1>4, <1>8
<1>10. m.mode # "none" => s[Len(s)].what = kind
  BY <1>4, <1>5, <1>7, <1>8
<1>11. Len(s) = (IF hasAtom THEN 1 ELSE 0) + (IF m.mode # "none" THEN 1 ELSE 0)
  BY <1>4, <1>5, <1>7
<1>12. PairOf(s, hasAtom, m.positions, m.mode # "none", kind)
  BY <1>7, <1>9, <1>10, <1>11 DEF PairOf
<1> QED
  BY <1>3, <1>6, <1>12 DEF kind

(* OutputsAsConfigured of one record. *)
RecordAsConfigured(r) ==
    LET outs  == {n \in DOMAIN out : out[n].id = r.id}
        atoms == {n \in outs : out[n].what = "atom"}
    IN  /\ mapPath = "Binder_output_buf" => Configured(r.data.name, r.data.code)
        /\ Cardinality(atoms) = IF AtomAsked(r) THEN 1 ELSE 0
        /\ \A n \in atoms : out[n].fields = FieldsAsked(r)
        /\ Cardinality(outs \ atoms) = IF EventAsked(r) THEN 1 ELSE 0
        /\ \A n \in outs \ atoms : \A p \in Asking(r) :
               out[n].what = IF MethodOf(r, p).mode = "Flush" THEN "flush" ELSE "event"

LEMMA GenericAsConfigured ==
  ASSUME HandlersInv, mapPath \in GenericMaps \cup AllowlistMaps,
         NEW r, NEW outs, GenericOutcome(r, outs), Carries(out, r.id, outs)
  PROVE  RecordAsConfigured(r)
<1>1. SettingsOK /\ IsSeq(out)
  BY DEF HandlersInv, LoopInv, Ordered
<1>2. mapPath # "Binder_output_buf"
  BY DEF GenericMaps, AllowlistMaps
<1>3. PICK asked \in BOOLEAN : asked <=> logging.present /\ logging.atomId
  BY <1>1 DEF SettingsOK
<1>4. (AtomAsked(r) <=> asked) /\ ~EventAsked(r)
  BY <1>2, <1>3 DEF AtomAsked, EventAsked
<1>5. FieldsAsked(r) = AtomFields
  BY <1>2 DEF FieldsAsked, AtomFields, RegisterIndex, JAVA_ARGUMENT_REGISTER_OFFSET
<1>6. PICK fields, kind, never : fields = AtomFields /\ kind = "event" /\ never = FALSE
  OBVIOUS
<1>7. PairOf(outs, asked, fields, never, kind)
  BY <1>1, <1>3, <1>6, GenericPair
<1>8. Counted(out, r.id, asked, fields, never, kind)
  BY <1>1, <1>6, <1>7, PairCounted
<1> QED
  BY <1>2, <1>4, <1>5, <1>6, <1>8 DEF RecordAsConfigured, Counted, Mine, MineAtoms

LEMMA TransactionAsConfigured ==
  ASSUME HandlersInv, mapPath = "Binder_output_buf",
         NEW r, NEW outs, BinderOutcome(r, outs), Carries(out, r.id, outs)
  PROVE  RecordAsConfigured(r)
<1>1. IsSeq(out) /\ config \in Configs
  BY DEF HandlersInv, LoopInv, Ordered, BinderOK
<1>2. PICK p : Probes(r.data.name, r.data.code) = {p}
  BY DEF BinderOutcome
<1>3. p \in Nat
  BY <1>1, <1>2, BinderAssumption DEF Probes
<1>4. Min({p}) = p
  <2>1. {p} \in SUBSET Nat /\ {p} # {}
    BY <1>3
  <2> QED
    BY <2>1, MinIsLeast
<1>5. PICK m : m = FirstMethod(r.data.name, r.data.code)
  OBVIOUS
<1>6. Asking(r) = {p} /\ MethodOf(r, p) = m
  BY <1>2, <1>4, <1>5 DEF Asking, MethodOf, FirstMethod
<1>7. PICK asked \in BOOLEAN : asked <=> m.atom
  OBVIOUS
<1>8. PICK sends \in BOOLEAN : sends <=> m.mode # "none"
  OBVIOUS
<1>9. PICK fields, kind : /\ fields = m.positions
                          /\ kind = IF m.mode = "Flush" THEN "flush" ELSE "event"
  OBVIOUS
<1>10. /\ AtomAsked(r) <=> asked
       /\ EventAsked(r) <=> sends
       /\ FieldsAsked(r) = fields
       /\ Configured(r.data.name, r.data.code)
  <2>1. AtomAsked(r) <=> asked
    BY <1>6, <1>7 DEF AtomAsked
  <2>2. EventAsked(r) <=> sends
    BY <1>6, <1>8 DEF EventAsked
  <2>3. FieldsAsked(r) = fields
    BY <1>5, <1>9 DEF FieldsAsked
  <2> QED
    BY <1>2, <2>1, <2>2, <2>3 DEF Configured
<1>11. PairOf(outs, asked, fields, sends, kind)
  <2>1. PairOf(outs, asked, m.positions, m.mode # "none",
               IF m.mode = "Flush" THEN "flush" ELSE "event")
    BY <1>5, <1>7, TransactionPair DEF BinderOutcome
  <2> QED
    BY <1>8, <1>9, <2>1 DEF PairOf
<1>12. Counted(out, r.id, asked, fields, sends, kind)
  <2>1. kind # "atom"
    BY <1>9
  <2> QED
    BY <1>1, <1>11, <2>1, PairCounted
<1>13. \A q \in Asking(r) : kind = IF MethodOf(r, q).mode = "Flush" THEN "flush" ELSE "event"
  BY <1>6, <1>9
<1> QED
  BY <1>10, <1>12, <1>13 DEF RecordAsConfigured, Counted, Mine, MineAtoms

LEMMA WrittenAsConfigured ==
  ASSUME HandlersInv, Traced
  PROVE  OutputsAsConfigured
<1> SUFFICES ASSUME mapPath \in GenericMaps \cup AllowlistMaps \cup {"Binder_output_buf"},
                    NEW r \in ToSet(seen)
             PROVE  RecordAsConfigured(r)
  BY DEF OutputsAsConfigured, RecordAsConfigured
<1>1. IsSeq(seen) /\ DOMAIN seen = 1..Len(seen)
  BY SeqFacts DEF HandlersInv, LoopInv, Numbered
<1>2. PICK i \in 1..Len(seen) : seen[i] = r
  BY <1>1 DEF ToSet
<1>3. r.id = i
  BY <1>2 DEF HandlersInv, LoopInv, Numbered
<1>4. PICK outs : IsSeq(outs) /\ Outcome(r, outs) /\ Carries(out, i, outs)
  BY <1>2 DEF Traced, TracedAs, TracedMaps
<1>5. CASE mapPath = "Binder_output_buf"
  BY <1>3, <1>4, <1>5, TransactionAsConfigured DEF Outcome
<1>6. CASE mapPath \in GenericMaps \cup AllowlistMaps
  BY <1>3, <1>4, <1>6, GenericAsConfigured DEF Outcome
<1> QED
  BY <1>5, <1>6

-----------------------------------------------------------------------------
(* Theorems. *)

(* A poll never outlasts the timer of the task: its timeout is what is left *)
(* of the duration, for every duration, also one that is no i32.            *)
THEOREM PollsInTime == Spec => []PollsEndInTime
<1>1. HandlersInv => PollsEndInTime
  BY DEF HandlersInv, LoopInv, Timing, PollsEndInTime
<1> QED
  BY <1>1, Invariance, PTL

(* Each record reserved reaches on_item at most once, in the order of       *)
(* reservation and without a gap, and the outputs are in that order,        *)
(* whatever the handler and however the records are submitted and batched.  *)
THEOREM RecordsInOrder == Spec => []HandledInOrder
<1>1. HandlersInv => HandledInOrder
  <2> SUFFICES ASSUME HandlersInv PROVE HandledInOrder
    OBVIOUS
  <2>1. DOMAIN seen = 1..Len(seen) /\ DOMAIN out = 1..Len(out)
    BY SeqFacts DEF HandlersInv, LoopInv, Numbered, Ordered
  <2> QED
    BY <2>1 DEF HandlersInv, LoopInv, Numbered, Ordered, HandledInOrder
<1> QED
  BY <1>1, Invariance, PTL

(* A loop ends with one verdict: one error reported and marked, or one      *)
(* returned unmarked, or success, and only then bpf_map_polled is written,  *)
(* once and with the number of records accepted.                            *)
THEOREM OneVerdict == Spec => []LoopVerdict
<1>1. HandlersInv => LoopVerdict
  <2> SUFFICES ASSUME HandlersInv PROVE LoopVerdict
    OBVIOUS
  <2>1. Judged /\ (Len(batch) = 0 => batch = <<>>)
    BY SeqFacts DEF HandlersInv, LoopInv, Numbered
  <2> QED
    BY <2>1 DEF Judged, LoopVerdict
<1> QED
  BY <1>1, Invariance, PTL

(* What is reported, in terms of the outputs. *)
LEMMA ReportedAtoms ==
  ASSUME HandlersInv, NEW a \in Reported
  PROVE  /\ mapPath = "Accessibility_output_buf" /\ AtomsOK(out)
         /\ \E n \in 1..Len(out) : AtomOK(out[n]) /\ out[n].fields = a /\ out[n].id = a.id
<1>1. DOMAIN out = 1..Len(out)
  BY SeqFacts DEF HandlersInv, LoopInv, Ordered
<1>2. PICK n \in 1..Len(out) : out[n].what = "grant" /\ out[n].fields = a
  BY <1>1 DEF Reported, ToSet
<1>3. mapPath = "Accessibility_output_buf"
  BY <1>2 DEF HandlersInv, OutputsTyped
<1>4. AtomsOK(out)
  BY <1>3 DEF HandlersInv, AccessibilityInv, AccessibilityOK
<1>5. AtomOK(out[n])
  BY <1>4 DEF AtomsOK
<1>6. out[n].id = a.id
  BY <1>2, <1>5 DEF AtomOK
<1> QED
  BY <1>2, <1>3, <1>4, <1>5, <1>6

(* And the other way round. *)
LEMMA AtomsReported ==
  ASSUME HandlersInv, mapPath = "Accessibility_output_buf", NEW n \in 1..Len(out)
  PROVE  /\ AtomsOK(out) /\ AtomOK(out[n]) /\ out[n].fields \in Reported
         /\ out[n].fields.id = out[n].id
<1>1. AtomsOK(out) /\ AtomOK(out[n])
  BY DEF HandlersInv, AccessibilityInv, AccessibilityOK, AtomsOK
<1>2. PICK o : o = out[n]
  OBVIOUS
<1>3. PICK a, f : o = [id |-> a, what |-> "grant", fields |-> f]
  BY <1>1, <1>2 DEF AtomOK
<1>4. o.what = "grant" /\ o.fields.id = o.id
  BY <1>1, <1>2, <1>3 DEF AtomOK
<1>5. o \in ToSet(out)
  BY <1>2, SeqFacts DEF HandlersInv, LoopInv, Ordered, ToSet
<1>6. o.fields \in Reported
  BY <1>4, <1>5 DEF Reported
<1> QED
  BY <1>1, <1>2, <1>4, <1>6

(* A call reported with a grant is of the same uid, within the window       *)
(* before it, and no other grant to that uid lies between the two, in       *)
(* whatever order the records of the two BPF programs arrived.              *)
THEOREM CallsWithTheirGrant == Spec => []CallsBelongToTheirGrant
<1>1. HandlersInv => CallsBelongToTheirGrant
  <2> SUFFICES ASSUME HandlersInv, NEW a \in Reported, NEW c \in ToSet(a.calls)
               PROVE  /\ c.kind = "call" /\ c.uid = a.uid
                      /\ c.ts <= a.ts /\ a.ts - c.ts < Window
                      /\ ~\E g \in CollectedGrants : g.uid = c.uid /\ c.ts < g.ts /\ g.ts < a.ts
    BY DEF CallsBelongToTheirGrant
  <2>1. PICK o : AtomOK(o) /\ o.fields = a
    BY ReportedAtoms
  <2>2. c \in ToSet(o.fields.calls)
    BY <2>1
  <2>3. /\ c \in CollectedCalls /\ c.uid = a.uid /\ c.ts <= a.ts /\ a.ts - c.ts < Window
        /\ ~\E g \in CollectedGrants : g.uid = c.uid /\ c.ts < g.ts /\ g.ts < a.ts
    BY <2>1, <2>2 DEF AtomOK
  <2> QED
    BY <2>3 DEF CollectedCalls
<1> QED
  BY <1>1, Invariance, PTL

(* No grant is reported twice, and a handler that finishes has reported     *)
(* every grant it collected and nothing else.                               *)
THEOREM GrantsReported == Spec => []EveryGrantReported
<1>1. HandlersInv => EveryGrantReported
  <2> SUFFICES ASSUME HandlersInv PROVE EveryGrantReported
    OBVIOUS
  <2>1. DOMAIN out = 1..Len(out)
    BY SeqFacts DEF HandlersInv, LoopInv, Ordered
  <2>2. ASSUME NEW m \in 1..Len(out), NEW n \in 1..Len(out), out[m].what = "grant",
               out[m].id = out[n].id
        PROVE  m = n
    <3>1. mapPath = "Accessibility_output_buf"
      BY <2>2 DEF HandlersInv, OutputsTyped
    <3>2. AtomsOK(out)
      BY <3>1, AtomsReported
    <3> QED
      BY <2>2, <3>2 DEF AtomsOK
  <2>3. ASSUME Finished PROVE {a.id : a \in Reported} = {g.id : g \in CollectedGrants}
    <3>1. mapPath = "Accessibility_output_buf" /\ AtomsComplete(out)
      BY <2>3 DEF Finished, HandlersInv, AccessibilityInv, AccessibilityOK
    <3>2. ASSUME NEW a \in Reported PROVE \E g \in CollectedGrants : g.id = a.id
      <4>1. PICK n \in 1..Len(out) : AtomOK(out[n]) /\ out[n].fields = a /\ out[n].id = a.id
        BY ReportedAtoms
      <4> QED
        BY <4>1 DEF AtomOK
    <3>3. ASSUME NEW g \in CollectedGrants PROVE \E a \in Reported : a.id = g.id
      <4>1. PICK n \in 1..Len(out) : out[n].id = g.id
        BY <3>1 DEF AtomsComplete
      <4> QED
        BY <3>1, <4>1, AtomsReported
    <3> QED
      BY <3>2, <3>3
  <2> QED
    BY <2>1, <2>2, <2>3 DEF EveryGrantReported
<1> QED
  BY <1>1, Invariance, PTL

(* A call collected is reported with the first grant after it, and with no  *)
(* other, when that grant is within the window.                             *)
THEOREM CallsReported == Spec => []CallsAreReportedOnce
<1>1. HandlersInv => CallsAreReportedOnce
  <2> SUFFICES ASSUME HandlersInv, Finished, NEW c \in CollectedCalls, IsPreceding(c)
               PROVE  /\ \E a \in Reported : c \in ToSet(a.calls)
                                                 /\ \E g \in FirstLater(c) : a.id = g.id
                      /\ \A a, b \in Reported :
                             c \in ToSet(a.calls) /\ c \in ToSet(b.calls) => a = b
    BY DEF CallsAreReportedOnce, IsPreceding
  <2>1. mapPath = "Accessibility_output_buf" /\ AtomsComplete(out)
    BY DEF Finished, HandlersInv, AccessibilityInv, AccessibilityOK
  <2>2. PICK n \in 1..Len(out), g \in FirstLater(c) :
            c \in ToSet(out[n].fields.calls) /\ out[n].id = g.id
    BY <2>1 DEF AtomsComplete
  <2>3. out[n].fields \in Reported /\ out[n].fields.id = g.id
    BY <2>1, <2>2, AtomsReported
  <2>4. ASSUME NEW a \in Reported, NEW b \in Reported, c \in ToSet(a.calls), c \in ToSet(b.calls)
        PROVE  a = b
    <3>1. PICK i \in 1..Len(out) : out[i].fields = a
      BY ReportedAtoms
    <3>2. PICK j \in 1..Len(out) : out[j].fields = b
      BY ReportedAtoms
    <3>3. AtomsOK(out)
      BY ReportedAtoms
    <3>4. c \in ToSet(out[i].fields.calls) /\ c \in ToSet(out[j].fields.calls)
      BY <2>4, <3>1, <3>2
    <3>5. i = j
      BY <3>3, <3>4 DEF AtomsOK
    <3> QED
      BY <3>1, <3>2, <3>5
  <2> QED
    BY <2>2, <2>3, <2>4
<1> QED
  BY <1>1, Invariance, PTL

(* drain of BinderInterfaceMapAccessor empties the filter map whatever      *)
(* names are configured, except that a name with a zero in it or without    *)
(* room for the terminator, of this task or an earlier one, may stop it:    *)
(* every name that fits a key is deleted by the name from_c_key reads back. *)
THEOREM DrainEmptiesMap == Spec => []FiltersDrained
<1>1. HandlersInv => FiltersDrained
  <2> SUFFICES ASSUME HandlersInv, mapPath = "Binder_output_buf"
               PROVE  /\ access = "drained" => DOMAIN filters = {}
                      /\ access = "stuck" => \E k \in DOMAIN filters :
                             \/ k \in found /\ ~Padded(k)
                             \/ \E n \in InterfaceNames : k = ToCKey(n) /\ ~Fits(n)
    BY DEF FiltersDrained
  <2>1. BinderOK /\ config \in Configs
    BY DEF HandlersInv, BinderOK
  <2>2. access = "drained" => DOMAIN filters = {}
    BY <2>1 DEF BinderOK
  <2>3. ASSUME access = "stuck"
        PROVE  \E k \in DOMAIN filters : \/ k \in found /\ ~Padded(k)
                                         \/ \E n \in InterfaceNames : k = ToCKey(n) /\ ~Fits(n)
    <3>1. PICK k \in DOMAIN filters : ~Padded(k)
      BY <2>1, <2>3 DEF BinderOK
    <3>2. k \in found \/ \E n \in InterfaceNames : k = ToCKey(n)
      BY <2>1 DEF BinderOK, FilterKeys
    <3>3. ASSUME NEW n \in InterfaceNames, k = ToCKey(n) PROVE ~Fits(n)
      <4>1. n \in Names
        BY <2>1, BinderAssumption DEF InterfaceNames
      <4> QED
        BY <3>1, <3>3, <4>1, FittingKey
    <3> QED
      BY <3>1, <3>2, <3>3
  <2> QED
    BY <2>2, <2>3
<1> QED
  BY <1>1, Invariance, PTL

LEMMA LoopTypes == HandlersInv => LoopTypeOK
<1> SUFFICES ASSUME HandlersInv PROVE LoopTypeOK
  OBVIOUS
<1>1. LoopInv /\ OutputsTyped
  BY DEF HandlersInv
<1>2. /\ MaxHits[mapPath] \in Nat /\ Len(seen) \in Nat /\ Len(batch) \in Nat /\ Len(ring) \in Nat
      /\ IsSeq(seen) /\ IsSeq(batch) /\ IsSeq(ring) /\ hits = Len(seen) + Len(batch) + Len(ring)
      /\ hits <= MaxHits[mapPath] /\ total = Len(seen) + Len(batch) /\ Len(ring) <= RingCapacity
  BY <1>1, SeqFacts, HandlersAssumption DEF LoopInv, Timing, Numbered
<1>3. hits \in 0..MaxHits[mapPath] /\ total \in 0..MaxHits[mapPath]
  BY <1>2
<1>4. ASSUME NEW i \in 1..Len(seen) PROVE IsRecord(seen[i]) /\ seen[i].ready
  <2>1. seen[i].id = i /\ seen[i].ready = TRUE
    BY <1>1 DEF LoopInv, Numbered
  <2>2. seen[i].id \in 1..MaxHits[mapPath]
    BY <1>2, <2>1
  <2> QED
    BY <2>1, <2>2 DEF IsRecord
<1>5. ASSUME NEW i \in 1..Len(batch) PROVE IsRecord(batch[i]) /\ batch[i].ready
  <2>1. IsRecordNo(batch[i], Len(seen) + i) /\ batch[i].ready
    BY <1>1 DEF LoopInv, Numbered
  <2>2. batch[i].id = Len(seen) + i /\ batch[i].ready \in BOOLEAN
    BY <2>1 DEF IsRecordNo
  <2>3. batch[i].id \in 1..MaxHits[mapPath]
    BY <1>2, <2>2
  <2> QED
    BY <2>1, <2>2, <2>3 DEF IsRecord
<1>6. ASSUME NEW i \in 1..Len(ring) PROVE IsRecord(ring[i])
  <2>1. IsRecordNo(ring[i], Len(seen) + Len(batch) + i)
    BY <1>1 DEF LoopInv, Numbered
  <2>2. ring[i].id = Len(seen) + Len(batch) + i /\ ring[i].ready \in BOOLEAN
    BY <2>1 DEF IsRecordNo
  <2>3. ring[i].id \in 1..MaxHits[mapPath]
    BY <1>2, <2>2
  <2> QED
    BY <2>2, <2>3 DEF IsRecord
<1>7. ASSUME NEW a, NEW b, IsSeq(a), IsSeq(b), NEW e \in ToSet(a \o b)
      PROVE  (\E i \in 1..Len(a) : e = a[i]) \/ (\E i \in 1..Len(b) : e = b[i])
  <2>1. IsSeq(a \o b)
    BY <1>7, ConcatIsSeq
  <2>2. PICK i \in 1..Len(a \o b) : e = (a \o b)[i]
    BY <2>1, SeqFacts DEF ToSet
  <2> QED
    BY <1>7, <2>2, ConcatParts
<1>8. \A r \in ToSet(batch \o seen) : IsRecord(r) /\ r.ready
  BY <1>2, <1>4, <1>5, <1>7
<1>9. \A r \in ToSet(ring \o batch \o seen) : IsRecord(r)
  <2>1. IsSeq(ring \o batch)
    BY <1>2, ConcatIsSeq
  <2>2. PICK a : a = ring \o batch
    OBVIOUS
  <2>3. IsSeq(a) /\ DOMAIN a = 1..Len(a)
    BY <2>1, <2>2, SeqFacts
  <2>4. \A r \in ToSet(a) : IsRecord(r)
    BY <1>2, <1>5, <1>6, <1>7, <2>2, SMTT(40)
  <2>5. \A i \in 1..Len(a) : IsRecord(a[i])
    BY <2>3, <2>4 DEF ToSet
  <2>6. ASSUME NEW r \in ToSet(a \o seen) PROVE IsRecord(r)
    <3>1. (\E i \in 1..Len(a) : r = a[i]) \/ (\E i \in 1..Len(seen) : r = seen[i])
      BY <1>2, <1>7, <2>3, <2>6
    <3>2. ASSUME NEW i \in 1..Len(a), r = a[i] PROVE IsRecord(r)
      BY <2>5, <3>2
    <3>3. ASSUME NEW i \in 1..Len(seen), r = seen[i] PROVE IsRecord(r)
      BY <1>4, <3>3
    <3> QED
      BY <3>1, <3>2, <3>3
  <2> QED
    BY <2>2, <2>6
<1>10. \A o \in ToSet(out) : o.id \in 0..MaxHits[mapPath]
  BY <1>1, SeqFacts DEF LoopInv, Ordered, OutputsTyped, ToSet
<1>11. \A e \in ToSet(reports) : e.type \in ErrorTypes
  BY <1>1, SeqFacts DEF LoopInv, Judged, ToSet
<1>12. \A p \in ToSet(polled) : p.total \in 0..MaxHits[mapPath]
  <2>1. CASE polled = <<>>
    BY <2>1, EmptyIsSeq, SeqFacts DEF ToSet
  <2>2. CASE polled # <<>>
    <3>1. IsSeq(polled) /\ Len(polled) = 1 /\ polled[1].total = Len(seen)
      BY <1>1, <2>2 DEF LoopInv, Judged
    <3>2. \A p \in ToSet(polled) : p = polled[1]
      BY <3>1, SeqFacts DEF ToSet
    <3>3. Len(seen) \in 0..MaxHits[mapPath]
      BY <1>2
    <3> QED
      BY <3>1, <3>2, <3>3
  <2> QED
    BY <2>1, <2>2
<1> QED
  BY <1>1, <1>2, <1>3, <1>8, <1>9, <1>10, <1>11, <1>12
     DEF LoopInv, Timing, Phased, Judged, LoopTypeOK

(* Every variable of the loop and of every handler has its type, and only   *)
(* records that are submitted are handed to on_item.                        *)
THEOREM TypeCorrect == Spec => []TypeOK
<1>1. HandlersInv => TypeOK
  <2> SUFFICES ASSUME HandlersInv PROVE TypeOK
    OBVIOUS
  <2>1. LoopTypeOK
    BY LoopTypes
  <2>2. AccessibilityTypeOK
    <3> SUFFICES ASSUME NEW e \in ToSet(events)
                 PROVE  e.kind \in Kinds /\ e.uid \in Uids /\ e.ts \in 0..MaxTime
      BY DEF AccessibilityTypeOK
    <3>1. Collected
      BY DEF HandlersInv, AccessibilityInv
    <3>2. PICK i \in 1..Len(events) : events[i] = e
      BY <3>1 DEF Collected, ToSet
    <3> QED
      BY <3>1, <3>2, EventFields
  <2>3. BinderTypeOK
    BY DEF HandlersInv, BinderOK, IsKey, ValueOK, BinderTypeOK
  <2>4. BitmapTypeOK
    BY DEF HandlersInv, BitmapOK, BitmapsFinite, BitmapTypeOK
  <2>5. DisruptiveTypeOK /\ logging.present \in BOOLEAN /\ logging.atomId \in BOOLEAN
    BY Zenon DEF HandlersInv, SettingsOK, DisruptiveTypeOK
  <2> QED
    BY <2>1, <2>2, <2>3, <2>4, <2>5, Zenon DEF TypeOK
<1> QED
  BY <1>1, Invariance, PTL

(* Once on_item of the snapshot handler has read every record, its map      *)
(* holds exactly the bitmaps alive and those whose release left no record,  *)
(* with the activities they were made in, however the programs, their       *)
(* submissions and the batches interleave.                                  *)
THEOREM BitmapsKnown == Spec => []BitmapsTracked
<1>1. HandlersInv /\ BitmapsReplay => BitmapsTracked
  <2> SUFFICES ASSUME HandlersInv, BitmapsReplay, CaughtUp
               PROVE  /\ Identity(bitmaps) = Identity(Known)
                      /\ \A b \in Known : b.activity # "lost" => b \in bitmaps
    BY DEF BitmapsTracked, Known
  <2>1. Snapshotting /\ ring = <<>> /\ batch = <<>>
    BY DEF CaughtUp, Snapshotting
  <2>2. Unread = {}
    BY <2>1, EmptyIsSeq DEF Unread, EntriesOf
  <2>3. \A p : Agree(Known, bitmaps, p)
    BY <2>1, <2>2 DEF BitmapsReplay, Replays
  <2>4. ASSUME NEW b \in Known
        PROVE  \E c \in bitmaps : c.ptr = b.ptr /\ c.id = b.id /\ (b.activity # "lost" => c = b)
    BY <2>3 DEF Agree
  <2>5. ASSUME NEW c \in bitmaps PROVE \E b \in Known : b.ptr = c.ptr /\ b.id = c.id
    BY <2>3 DEF Agree
  <2> QED
    BY <2>4, <2>5 DEF Identity
<1> QED
  BY <1>1, InitReplay, NextReplay, Invariance, PTL DEF Spec

(* With all filters written by setup_binder_transaction_filters to an empty *)
(* map, exec_transact_internal records the codes configured for an          *)
(* interface whose name a key can hold, all or as many as the value holds,  *)
(* and no transaction that is not configured under the name recorded for it *)
(* or a name that has the recorded one before a zero.                       *)
THEOREM FiltersAsConfigured == Spec => []FiltersSelectConfigured
<1>1. Spec => []FiltersWritten
  BY InitFilters, NextFilters, Invariance, PTL DEF Spec
<1> QED
  BY <1>1, Invariance, SelectedAsWritten, PTL

(* The handlers of disruptive apps report every record they accept          *)
(* completely; the record an error ends the loop with may have some of its  *)
(* atoms but not its event, and user builds write no names.                 *)
THEOREM DisruptionsComplete == Spec => []DisruptionsReported
BY TracedInvariance, ReportedAsWanted, PTL

(* Every record that on_item of a handler with a config accepts has given   *)
(* exactly the atom and the event its config asks for, once, with the       *)
(* fields in the order configured and the flush of its mode; a transaction  *)
(* accepted is one the config names.                                        *)
THEOREM ConfigFollowed == Spec => []OutputsAsConfigured
BY TracedInvariance, WrittenAsConfigured, PTL

=============================================================================
