------------------------------ MODULE PollLoop ------------------------------
(***************************************************************************)
(* A thread that polls one BPF ring buffer until its timer expires and     *)
(* hands every record to a handler.  BPF programs reserve a record, fill   *)
(* it in and submit it, on any CPU: the buffer is read in the order of     *)
(* reservation, up to the first record not submitted yet.  The first error *)
(* of the buffer or of the handler ends the loop.                          *)
(*                                                                         *)
(* The handlers are modules of their own that extend this one: they say    *)
(* which records there are, and use Accept and Refuse for their on_item    *)
(* and FinishOk and FinishFails for their on_finished.                     *)
(***************************************************************************)
EXTENDS Integers, Sequences, SequencesExt

CONSTANTS
    Durations,    \* durations of a task, in milliseconds, by map
    MaxMillis,    \* i32::MAX
    MaxTime,      \* bound on the clock; it runs until the timer has expired
    RingCapacity, \* records the ring buffer holds
    MaxHits       \* bound on the number of records reserved, by map

ASSUME PollLoopAssumption ==
    /\ MaxMillis \in Nat /\ {MaxTime, RingCapacity} \subseteq Nat \ {0}
    /\ \A m \in DOMAIN Durations : \A d \in Durations[m] :
           d \in Nat /\ (d <= MaxMillis => d < MaxTime)

VARIABLES
    mapPath,  \* the ring buffer polled
    clock,    \* time since the loop started; also bpf_ktime_get_ns
    duration, \* of the timer
    hits,     \* number of records reserved so far
    ring,     \* reserved records, oldest first
    phase,    \* of the thread
    until,    \* when the poll in progress times out, -1 if never; 0 outside of a poll
    batch,    \* records the poll has returned and on_item has not been given
    total,    \* total_events
    seen,     \* the records on_item has accepted, or their ids
    out,      \* atoms written and events sent to the bridge service, in order
    reports,  \* uprobe_stats_internal_error atoms
    polled,   \* uprobe_stats_bpf_map_polled atoms
    verdict   \* what the loop returned: "ok", "error", "reported" (marked
              \* ReportedToStatsd), or "none" so far

loopVars == <<mapPath, clock, duration, hits, ring, phase, until, batch, total, seen,
              out, reports, polled, verdict>>

(* The maps with a handler. *)
GenericMaps    == {"GenericInstrumentation_call_timestamp_buf",
                   "GenericInstrumentation_call_detail_buf"}
AllowlistMaps  == {"ProcessManagement_output_buf",
                   "ProcessManagement_update_device_idle_temp_allowlist_records"}
DisruptiveMaps == {"DisruptiveApp_BindServiceLocked_output_buf",
                   "DisruptiveApp_ComponentEnabledSetting_output_buf"}
MapPaths == GenericMaps \cup AllowlistMaps \cup DisruptiveMaps \cup
            {"BitmapAllocation_output", "Binder_output_buf", "Accessibility_output_buf"}

Phases == {"new", "ready", "polling", "handling", "finishing", "ended"}

LoopInit ==
    /\ clock = 0 /\ duration \in Durations[mapPath]
    /\ hits = 0 /\ ring = <<>>
    /\ phase = "new" /\ until = 0
    /\ batch = <<>> /\ total = 0 /\ seen = <<>>
    /\ out = <<>> /\ reports = <<>> /\ polled = <<>> /\ verdict = "none"

-----------------------------------------------------------------------------
(* Mutated forms of operations defined below: each is a plausible bug, and  *)
(* PROJECT.json names the property that rules it out.                       *)

(* A cast in place of the conversion: a long duration becomes negative, and *)
(* the poll waits without a limit.                                          *)
FitsWrapped(millis) == TRUE

(* A record is read although an older one is not submitted yet. *)
ReadableAny == {n \in 0..Len(ring) : \A i \in 1..n : i = n => ring[i].ready}

(* The poll looks at the records and leaves them in the buffer. *)
ConsumedKept(n) == ring

(* The events are counted as they are handled, the last one too late. *)
CountLate(n) == total + Len(batch)

-----------------------------------------------------------------------------
(* The ring buffer. *)

Tick ==
    /\ clock < MaxTime /\ clock <= duration /\ phase # "ended"
    /\ clock' = clock + 1
    /\ UNCHANGED <<mapPath, duration, hits, ring, phase, until, batch, total, seen, out,
                   reports, polled, verdict>>

(* Records from before the buffer was opened are in it when it is ready,    *)
(* and those that come after the last poll are never read.                  *)
Recording == phase \in {"ready", "polling", "handling"} /\ clock <= duration
Room == Recording /\ Len(ring) < RingCapacity /\ hits < MaxHits[mapPath]
Full == Recording /\ Len(ring) = RingCapacity

(* A probe hits and its program reserves a record: data is what it fills in *)
(* before it submits.  Without room the program returns 1.                  *)
Reserve(data) ==
    /\ Room
    /\ hits' = hits + 1
    /\ ring' = Append(ring, [id |-> hits + 1, ready |-> FALSE, data |-> data])
    /\ UNCHANGED <<mapPath, clock, duration, phase, until, batch, total, seen, out,
                   reports, polled, verdict>>

SubmitAs(i, data) ==
    /\ i \in DOMAIN ring /\ ~ring[i].ready /\ Recording
    /\ ring' = [ring EXCEPT ![i].ready = TRUE, ![i].data = data]
    /\ UNCHANGED <<mapPath, clock, duration, hits, phase, until, batch, total, seen, out,
                   reports, polled, verdict>>

Submit(i) == i \in DOMAIN ring /\ SubmitAs(i, ring[i].data)

(* Lengths of the prefixes of the buffer without a pending record, and what *)
(* is left of the buffer when n records are consumed.                       *)
Readable    == {n \in 0..Len(ring) : \A i \in 1..n : ring[i].ready}
Consumed(n) == SubSeq(ring, n + 1, Len(ring))

-----------------------------------------------------------------------------
(* What a handler writes.  Each output names the record it is about. *)

(* An atom with a generated writer, and one made of fields in their order. *)
CodegenAtom(r, name)        == [id |-> r.id, what |-> name, fields |-> <<>>]
UnstructuredAtom(r, fields) == [id |-> r.id, what |-> "atom", fields |-> fields]

(* enqueueEvent of the bridge service; flush asks it to send at once. *)
Event(r, flush) == [id |-> r.id, what |-> IF flush THEN "flush" ELSE "event",
                    fields |-> <<>>]

(* The outputs of a record that is refused because a call to statsd or to   *)
(* the platform failed: every call may, and it is the last one then.        *)
CutShort(outs, asks) ==
    IF outs = <<>> THEN IF asks THEN {<<>>} ELSE {}
    ELSE {SubSeq(outs, 1, n) : n \in 0..(Len(outs) - 1)}

-----------------------------------------------------------------------------
(* poll_loop_generic. *)

End(v) == phase' = "ended" /\ verdict' = v /\ until' = 0

(* Maps without an enum of their own are written as unspecified, and so is  *)
(* the program of a map that several programs write to: its handler has no  *)
(* PROG_PATH.                                                               *)
BpfMapPathToEnum(path) == IF path \in AllowlistMaps THEN "Unspecified" ELSE path
BpfProgramPathToEnum(path) ==
    IF path \in GenericMaps \cup DisruptiveMaps \cup {"Binder_output_buf"}
    THEN path ELSE "Unspecified"

(* The atom is handed to statsd; a failed write is only logged. *)
WriteInternalError(type, point) ==
    reports' = Append(reports, [type |-> type, map |-> BpfMapPathToEnum(mapPath),
                                program |-> BpfProgramPathToEnum(mapPath), point |-> point])

(* The error is reported, and returned marked ReportedToStatsd. *)
Report(type, point) == WriteInternalError(type, point) /\ End("reported")

CreateRingBuffer ==
    /\ phase = "new" /\ phase' = "ready"
    /\ UNCHANGED <<mapPath, clock, duration, hits, ring, until, batch, total, seen, out,
                   reports, polled, verdict>>

CreateRingBufferFails ==
    /\ phase = "new" /\ Report("BpfRingBufferCreateFailed", 0)
    /\ UNCHANGED <<mapPath, clock, duration, hits, ring, batch, total, seen, out, polled>>

(* timer.remaining_millis, with None below zero, and its conversion to i32. *)
RemainingMillis == duration - clock
FitsI32(millis) == millis <= MaxMillis

(* A negative timeout waits for ever. *)
Deadline(millis) == IF millis <= MaxMillis THEN clock + millis ELSE -1

StartPoll ==
    /\ phase = "ready" /\ RemainingMillis >= 0
    /\ FitsI32(RemainingMillis)
    /\ phase' = "polling" /\ until' = Deadline(RemainingMillis)
    /\ UNCHANGED <<mapPath, clock, duration, hits, ring, batch, total, seen, out, reports,
                   polled, verdict>>

StartPollFails ==
    /\ phase = "ready" /\ RemainingMillis >= 0
    /\ ~FitsI32(RemainingMillis)
    /\ End("error")
    /\ UNCHANGED <<mapPath, clock, duration, hits, ring, batch, total, seen, out, reports, polled>>

CountBefore(n) == total + n

(* The buffer is not empty: every record up to the first pending one. *)
PollReturns ==
    /\ phase = "polling" /\ ring # <<>>
    /\ LET n == Max(Readable)
       IN  /\ batch' = SubSeq(ring, 1, n)
           /\ ring' = Consumed(n)
           /\ total' = CountBefore(n)
           /\ phase' = IF n = 0 THEN "ready" ELSE "handling"
    /\ until' = 0
    /\ UNCHANGED <<mapPath, clock, duration, hits, seen, out, reports, polled, verdict>>

PollTimesOut ==
    /\ phase = "polling" /\ ring = <<>> /\ until >= 0 /\ clock >= until
    /\ phase' = "ready" /\ until' = 0
    /\ UNCHANGED <<mapPath, clock, duration, hits, ring, batch, total, seen, out, reports,
                   polled, verdict>>

PollFails ==
    /\ phase = "polling" /\ Report("BpfRingBufferPollFailed", 0)
    /\ UNCHANGED <<mapPath, clock, duration, hits, ring, batch, total, seen, out, polled>>

(* on_item succeeds with these outputs. *)
Accept(r, outs) ==
    /\ batch' = Tail(batch)
    /\ seen' = Append(seen, r)
    /\ out' = out \o outs
    /\ phase' = IF Len(batch) = 1 THEN "ready" ELSE "handling"
    /\ UNCHANGED <<mapPath, clock, duration, hits, ring, until, total, reports, polled, verdict>>

(* on_item succeeds, and what the record said is in the handler's state. *)
Collect(outs) == Accept([id |-> Head(batch).id, ready |-> TRUE], outs)

(* on_item fails after these outputs: the rest of the batch is dropped and  *)
(* on_finished is not called.                                               *)
Refuse(outs, type, point) ==
    /\ out' = out \o outs
    /\ Report(type, point)
    /\ UNCHANGED <<mapPath, clock, duration, hits, ring, batch, total, seen, polled>>

TimerExpires ==
    /\ phase = "ready" /\ RemainingMillis < 0
    /\ phase' = "finishing"
    /\ UNCHANGED <<mapPath, clock, duration, hits, ring, until, batch, total, seen, out,
                   reports, polled, verdict>>

(* on_finished succeeds.  A bpf_map_polled atom that cannot be written is   *)
(* only logged.                                                             *)
FinishOk(outs) ==
    /\ phase = "finishing"
    /\ out' = out \o outs
    /\ polled' \in {polled, Append(polled, [map |-> BpfMapPathToEnum(mapPath), total |-> total])}
    /\ End("ok")
    /\ UNCHANGED <<mapPath, clock, duration, hits, ring, batch, total, seen, reports>>

(* on_finished fails; the thread reports nothing itself. *)
FinishFails(outs) ==
    /\ phase = "finishing"
    /\ out' = out \o outs
    /\ End("error")
    /\ UNCHANGED <<mapPath, clock, duration, hits, ring, batch, total, seen, reports, polled>>

(* The steps that no handler takes part in. *)
LoopStep ==
    \/ Tick \/ CreateRingBuffer \/ CreateRingBufferFails
    \/ StartPoll \/ StartPollFails \/ PollReturns \/ PollTimesOut \/ PollFails
    \/ TimerExpires

-----------------------------------------------------------------------------
(* Properties. *)

ErrorTypes == {"BpfRingBufferCreateFailed", "BpfRingBufferPollFailed", "BpfProgramError",
               "BpfRingBufferDataInvalid", "TaskExecutionFailed"}

IsRecord(r) == r.id \in 1..MaxHits[mapPath] /\ r.ready \in BOOLEAN

LoopTypeOK ==
    /\ clock \in 0..MaxTime /\ duration \in Durations[mapPath]
    /\ hits \in 0..MaxHits[mapPath] /\ total \in 0..MaxHits[mapPath]
    /\ Len(ring) <= RingCapacity
    /\ \A r \in ToSet(ring \o batch \o seen) : IsRecord(r)
    /\ \A r \in ToSet(batch \o seen) : r.ready
    /\ phase \in Phases /\ until \in Nat \cup {-1}
    /\ \A o \in ToSet(out) : o.id \in 0..MaxHits[mapPath]
    /\ \A e \in ToSet(reports) : e.type \in ErrorTypes
    /\ \A p \in ToSet(polled) : p.total \in 0..MaxHits[mapPath]
    /\ verdict \in {"none", "ok", "error", "reported"}

(* A poll never outlasts the timer, whatever the duration of the task: the  *)
(* thread that joins the loop waits for the duration, not for ever.         *)
PollsEndInTime == phase = "polling" => until \in 0..duration

(* The outputs of on_finished. *)
Summaries == {"max", "sample", "grant"}

(* Every record the programs reserved reaches on_item at most once, in the  *)
(* order of reservation and without a gap, though they are submitted in any *)
(* order and read in batches; outputs come in the same order.               *)
HandledInOrder ==
    /\ \A n \in DOMAIN seen : seen[n].id = n
    /\ \A m, n \in DOMAIN out : m < n /\ out[n].what \notin Summaries
                                   => out[m].id <= out[n].id

(* A loop ends with one verdict: it reports exactly one error and marks it, *)
(* or returns an unmarked one that execute reports, or succeeds; only then  *)
(* is bpf_map_polled written, once, with the number of records the handler  *)
(* accepted.                                                                *)
LoopVerdict ==
    /\ (phase = "ended") <=> (verdict # "none")
    /\ Len(reports) = IF verdict = "reported" THEN 1 ELSE 0
    /\ polled # <<>> => verdict = "ok" /\ Len(polled) = 1 /\ polled[1].total = Len(seen)
    /\ verdict = "ok" => batch = <<>> /\ clock > duration

=============================================================================
