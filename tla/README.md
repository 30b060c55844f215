# UprobeStats: a TLA+ development

UprobeStats attaches uprobes to methods of Android processes, reads what their
BPF programs record, and turns it into statsd atoms and dynamic
instrumentation events. This directory models the parts of it whose
correctness depends on order: threads, processes that die, kernel objects that
outlive them. Source paths below are relative to the repository root.

## Inventory

| Part | State | Operations | Hard because |
|---|---|---|---|
| Task lifecycle (`daemon/android/task.rs`, `uprobestats_service.rs`, `daemon/uprobestats.rs`) | `GlobalState` under a mutex: the polled map paths and a `LazyServiceGuard` | resolve, claim maps, execute, give back | one thread per call, lazy shutdown, panics, process death |
| Client library (`lib/uprobestats_service_client.cpp`) | a proxy of the service | wait for the service, `startTasks` | the proxy keeps the lazy service alive only while the call lasts |
| Filter map accessor (`daemon/android/bpf_map*.rs`, `daemon/ffi/bpf`) | keys of a pinned BPF map, an exclusive handle | open, insert, drain, close | shared by all tasks, survives the process, any call may fail |
| Poll loops (`daemon/android/bpf_handler.rs`, `daemon/core/timer.rs`) | a ring buffer, a countdown, a handler | poll, `on_item`, `on_finished` | one thread per map, errors of several threads, pinned buffers |
| Config resolver (`daemon/core/config_resolver*`) | none | parse, guardrail, validate, resolve | many early returns; accepts a task without maps |
| Process and offset resolution (`daemon/android/process.rs`, `offsets.rs`) | an observer or a probe while it waits | wait for an app start, retry offsets | waits for the task's whole duration, outside the global state, while processes die and pids are reused |
| Accessibility handler (`bpf_handler/accessibility.rs`) | events by uid | collect, sort, associate | arrival is not the order of timestamps |
| Bitmap handler (`bpf_handler/bitmap_allocation.rs`) | bitmaps by pointer, sizes, a snapshot, the activity | allocate, free, start, scale, report | lost records, reused pointers, a pinned table with a limit, a field nobody sets |
| Disruptive app handlers (`bpf_handler/disruptive_app.rs`) | none | atoms and an event per record | several calls per record, each of which may fail |
| Binder transaction handler (`bpf_handler/binder_transaction.rs`) | none | look up the method, atom, event | filters of 128 bytes and 10 codes, names that are not read back as written, keys of earlier tasks |
| Generic handlers (`bpf_handler/generic_instrumentation.rs`, `process_management.rs`) | none | one atom per record | positions of a config index an array |
| Bridge service (`service/java/.../UprobeStatsBridgeServiceImpl.java`) | the event buffer, a looper's queue, connections | `enqueueEvent`, flush, bind, send, `waitQueueFlushed` | binder threads, a handler thread, the main thread and a remote consumer |
| BPF programs (`bpf_progs/*.c`) | ring buffers, the filter map | one record per hit | run at any time while a probe is attached |
| BPF loader (`bpfloader/UprobeStatsBpfLoad.cpp`) | pinned maps and programs | create, pin, reuse | a crash between create and pin |
| Atoms, platform queries, framework classes, headers | none | encode, ask, declare | not: pure input and output |

How they interact: a client calls `startTasks` over binder; the call spawns a
thread, which reads the platform while it resolves, claims its maps in
`GlobalState`, writes the filter map, opens perf events, and starts one poll
thread per map. BPF programs write to the pinned ring buffers; the poll
threads hand records to handlers; handlers write atoms or call the bridge
service's `enqueueEvent`, which sends batches to the consumer app. Errors are
`uprobe_stats_internal_error` atoms.

What makes each part correct: no ring buffer has two readers and no task is
turned down without a conflict (lifecycle); a task only sees its own records
and its filters stay in place (kernel objects); everything claimed is given
back, on every error path; a failure leaves a trace, once; a running task
keeps its process alive; an event is sent at most once, in order, and not
forgotten (bridge); a record is handled once and in order, and gives the atoms
and events its kind and the config ask for, or ends the loop with one report
(handlers). `PROJECT.json` lists the hazards, at their lines, with the
properties that cover them.

## Modules

| Module | Models |
|---|---|
| `MapLease` | Abstract: tasks ask for a set of maps and are granted all of it or denied for a real overlap |
| `TaskManager` | Task lifecycle, client library, filter map, poll threads, process death |
| `MCTaskManager` | Instances of `TaskManager` for TLC |
| `TaskManagerProofs` | Type correctness, the claims on maps, absence of panics |
| `TaskResourceProofs` | Probes, records, filters and reports of a task |
| `LeaseProofs` | `TaskManager` implements `MapLease` |
| `BridgeService` | The event queue of the bridge service |
| `MCBridgeService` | Instances of `BridgeService` for TLC |
| `BridgeServiceProofs` | Order, completeness and coverage of the events; what `waitQueueFlushed` answers |
| `ConfigResolver`, `MCConfigResolver` | Guardrail, flags and validation of a config, against a reference definition |
| `ProcessResolver`, `MCProcessResolver` | Finding or waiting for the target process, and the offset lookup with retries |
| `PollLoop` | The loop that polls one ring buffer: timer, batches, errors, what is reported |
| `Accessibility` | The accessibility BPF programs and their handler, over `PollLoop` |
| `BitmapAllocation` | The bitmap BPF programs, `active_bitmaps` and both handlers, over `PollLoop` |
| `DisruptiveApp` | Bound services and disabled components: two BPF programs and handlers, over `PollLoop` |
| `BinderTransaction` | The filter map with its conversions, the BPF program, the handler and the drain, over `PollLoop` |
| `GenericHandlers` | The four handlers that write one atom per record, over `PollLoop` |
| `Handlers`, `MCHandlers` | `poll_registry`: the loop of one map with the handler the flags select |
| `HandlersProofs` | The poll loop with any handler; every safety property of the handlers: accessibility, the filter map, bitmaps, disruptive apps, outputs as configured; types |
| `ConfigResolverProofs` | The checks of a config are those of the reference; no binder method is lost |
| `ProcessResolverProofs` | Who is resolved, and which starts a wait may miss |
| `DataLemmas` | Numbers, sequences, folds and flattening, for the proofs |

`TaskManager` uses the outcome of `ConfigResolver` as one step
(`ResolveConfig`, `ResolveConfigFails`); `ConfigResolver` uses the outcome of
`ProcessResolver` in the same way (`ResolveProcess`, `ResolveProbe` and their
failures). `Handlers` composes `PollLoop` with the handlers and details one poll
thread of `TaskManager` (`PollReads`, `PollReadFails`, `PollFails`,
`PollFinishes`): its verdicts `ok`, `error` and `reported` are the outcomes there.
The `enqueueEvent` calls of the handlers are those of `BridgeService`.

### TaskManager

One element of `Tasks` is one call of the client library. `pc[t]` follows it:

    idle - bound - resolving - resolved - setup - discard - attach - poll - finish - cleanup - done
                       |            |
                    rejected     conflict

with `startFailed` for a call that never got a thread, `killed` for one whose
process went away, and `panicked`. The steps from `setup` to `cleanup` are
`Executing`: between step 2 (`update_polled_bpf_maps`) and step 4
(`cleanup_polled_bpf_maps`) of `task.rs`.

* `active` and `polled` are `GlobalState`: `None` is `~active`. The lock is held
  for one action each in `UpdatePolledMaps`/`TaskConflict` and
  `CleanupPolledMaps`/`CleanupPanics`.
* A config is the set of maps a task polls and its sequence of probes; a probe
  is the set of interfaces it filters on and the ring buffer its program
  writes to. Everything else of a config is abstracted.
* `attached[t]` counts open perf event fds: they are opened in order and all
  closed when `attach_probes_and_poll_maps` returns, early or not.
* `ring[m]` is the set of tasks with unread records in a buffer, which is
  enough to tell whose records a handler sees; `seen` is what it saw.
* `failures` and `reports` count, per call, failures and internal error atoms.
  `outcome` is whether the error that reaches `execute` carries the
  `ReportedToStatsd` marker: an attach error does, a joined poll error does
  not, whatever the thread returned.
* `residue` is a history variable: the filter keys a crash or a failed drain
  left behind.

Environment: `ServiceStop` is the lazy registrar, which may stop the process
when no client holds the service and no guard is alive; `Crash` kills it at any
point. Both close the fds and drop the exclusive handle, and leave ring buffers
and filter keys. A panic aborts the process, as device builds do, so no other
thread ever meets a poisoned mutex. An exclusive open that finds the map locked
fails at once, as any other open failure.

Abstractions: config resolution is one step with two outcomes (its duration
is not bounded by the model, only by fairness); the filters of one probe are
written in one step or fail with any subset of keys left behind; a poll
takes all records of a buffer; panics inside handlers are left out.

### BridgeService

Events are numbered as they enter `mEventBuffer`. A call of `enqueueEvent` has
three steps (consumer check, add under `mLock`, post outside it); the handler
thread runs posted and delayed runnables (`posted`, `timers`) and binds; the
main thread runs the connection callbacks, taking a batch under `mLock` and
sending it before the next. `faults` bounds failed binds, null bindings and
RemoteExceptions; `stranded` is a history variable, true from a flush attempt
that gave up until a connection finds the buffer empty. Delays are not
measured: a delayed runnable may fire at any time, and a wait may time out at
any time.

`waitQueueFlushed` answers at once when the buffer is empty. Otherwise it waits
once, takes `mLock` again and leaves it (`WaitLeavesLock`), and then reads
`mEventBuffer.isEmpty()` without it (`WaitReturns`). The read compares two indices
that other threads write meanwhile, so each may be of any moment since `mLock`
was left: `ReadsEmpty` and `ReadsNonEmpty` say when true and when false can come of
it. An add to a full `ArrayDeque` makes the two equal for a moment, before the
array grows; a read that meets it is `torn`. `emptied` records that the call was
notified. Interrupts of a binder thread are left out.

### ConfigResolver

One behaviour is one call of `resolve_config`; the config, the flags and the
build are chosen in `Init`. `pc` stops at the places where the code may return
early or calls the platform; `rejected` is a check that failed, `unavailable` a
platform call that failed. BPF names are model values with the words they
contain, so that overlapping rules of `is_bpf_file_enabled` are kept; the allow
list is reduced to its verdict on a method. Numbers that are present and not
positive are 0. `Acceptable` is the reference: quantifiers, no order. The types of
the messages are those of `config.proto`.

### ProcessResolver

A waiter is one task thread in `resolve_process`, then in the offset lookup of
one probe. A process is a pid and a name; `running` are those there are, `started`
all there have been. Processes start with a free pid, become ready and die, at
any time, so a pid may pass from one to another. A lookup compares names, except
that for `system_server` `get_pid` takes any command line that begins so
(`Answering`). The offset lookup goes by the pid alone (`Answers`).

With `useObserver`, starts become notices that binder threads deliver later
(`inflight`), then messages in the channel. The call of `recv_timeout` decides
(`RecvReturns`, `RecvTimesOut`), and the observer is dropped in a later step
(`DropObserver`): a start told in between goes to a channel nobody reads again.
`decided` records how many starts had been told at the decision. Otherwise
each open perf event writes a record to the one ring buffer, from which any
waiter takes everything, old records included. `foreign` is a process start
probe of some other task. Time is not measured: a wait may end at any point at
which the code could time out. After the observer is destroyed no callback
runs: this is assumed of the platform. That a record cuts names off at its
length is left out.

### PollLoop

One behaviour is one call of `poll_loop_generic`. A probe hit reserves a record,
which fixes its place in `ring`, and submits it later; a poll (`StartPoll`, then
`PollReturns`, `PollTimesOut` or `PollFails`) takes the records up to the first one
not submitted into `batch`, and `on_item` gets them one by one. A handler's
`on_item` is `Accept` (or `Collect`, when the record's content goes to the
handler's own state) with its outputs, or `Refuse` with the outputs it made before
it failed; its `on_finished` is `FinishOk` or `FinishFails`. `until` is when the
poll in progress returns at the latest; -1 is a timeout that never ends.
`reports` and `polled` are the internal error and map polled atoms, `verdict`
what the call returned, with or without the `ReportedToStatsd` marker.

`Recording` leaves out hits before the buffer is ready and after the timer has
expired: the former only make the buffer non-empty at the start, which an
early hit does as well, the latter are never read by this task.

### Accessibility

The two programs stamp a record after they have reserved it, so the order of
timestamps is not that of arrival. The handler's per-uid vectors are one sequence of
events with their uids; `on_finished` sorts, associates and writes the grants, in
any order of uids, since a `HashMap` has none. Permission and method codes are left
out: a record's id stands for them.

### BitmapAllocation

`alive` are the bitmaps of the process, `keys` its pointers in `active_bitmaps`,
`others` the number of keys of other processes; all may hold things from before
the task. `ghosts` is a history variable: bitmaps whose release left no record,
since their key was never inserted (the map was full) or the ring buffer was
full. `current` is the activity that started last. A field that a program does
not set holds zero or what an earlier record left there (`StaleSizes`,
`BitmapCreation`). The flag selects handler `V0` or `V1`; `V0` ignores all that
tells records apart, so it is run with one program only.

### DisruptiveApp

A string is present or empty; only the caller's name is kept as one of `""`,
`"shell"` and another. `CutShort` gives the outputs a record may have when one of
its calls fails: any proper prefix of them.

### BinderTransaction

Names are sequences of bytes, since their length and their zero bytes (`Nul`)
matter: a config may name any non-empty string. `ToCKey` cuts at `KeyBytes` and pads
with zeroes, the BPF program (`Recorded`) copies up to a zero and cuts one byte
earlier, and `FromCKey` reads a key up to the first zero, or as an empty name if it
has none. What `drain` deletes for a key is therefore `KeyAgain` of it: the same
entry, another one, or nothing. `access` follows the map accessor:
filters are written in any order within a probe (`pending`), the codes of an
interface in any order, the map is drained key by key at the end. I/O errors of
the map are in `TaskManager`; here an insert fails when the key exists and a
delete when the key is not found. Keys of an earlier task (`found`) may be there.

### GenericHandlers

Four handlers with one shape: no logging config, no atom id, a value that does
not fit, a failed write, or an atom. Register i has value i, so the fields of a
call result are the registers read. An index beyond the ten registers panics
the thread.

## Runs

| Run | Shows |
|---|---|
| `task_safety` | Two calls with overlapping maps and filters, one crash: `TypeOK`, one reader per ring buffer, claims accounted for, probes only live in a thread that attaches or polls under its claim, no foreign records, filter keys accounted for and in place, no silent failure, guard held, no panic, and the lease is implemented |
| `task_liveness` | Every accepted call ends; the guard is given up |
| `bridge` | Events are sent at most once and in order; a non-empty buffer has a flush coming unless an attempt gave up; what `waitQueueFlushed` answers, reading outside the lock, is true of the events that were buffered |
| `bridge_liveness` | A requested flush empties the buffer once the environment is calm; the first event's timer covers those that join it without posting anything |
| `config_safety` | The checks in the code's order accept exactly what the reference accepts, keep every binder method, and wait for a process only for allowed tasks |
| `resolve` | Two waiters, with observers and with one ring buffer for both, processes that start, die and reuse a pid: the decision of `recv_timeout` is right about the starts told before it; the process resolved was the target at some time, from another waiter's records and old ones too, and never from a record without a pid; retries are bounded; every call ends |
| `handlers` | The nine maps with their programs and handlers. The loop: polls end in time, records are handled once and in order, one verdict with one report or none. Accessibility: every collected grant is reported once, each call with the first grant after it, within the window. Filters: the program selects what the config names, up to the limits, and the drain empties the map, unless a name that a key cannot hold is in it. Bitmaps: the handler knows the bitmaps alive and their activities, except for what was lost. Disruptive apps and configured outputs: each record gives its atoms and its event, complete and in order |

Five runs are expected to be violated; each contrasts what a comment or a
message says with what the code does (quotes in `PROJECT.json`):

* `task_panic`: two overlapping tasks without maps make
  `cleanup_polled_bpf_maps` panic ("This should never happen.").
* `task_stop`: the process may be stopped while a task is still resolving.
* `resolve_probe`: the perf event of the wait for an app start is closed before
  the wait begins, since its fd is a temporary.
* `bitmap_total`: a release takes the size off the total that the BPF program
  never puts into the record.
* `drain_stuck`: draining "*must* also complete" (`task.rs:133`), and with an
  interface name that fills the key, or has a zero byte before its end, it does
  not: the key is read back as another name, which `delete` does not find.

Some disagreements have no run. The `ReportedToStatsd` marker is there "to prevent
duplicative reporting at execution boundaries" (`error.rs:33-34`), but joining the
poll threads renders their errors to strings (`task.rs:242`, `254`), so `execute`
reports them again: `JoinPollers` and `ExecutionError` model it. The comment on the
guardrail swaps user and other builds (`guardrail.rs:19-20`). A flush without a consumer logs that
events will be dropped but keeps them in the buffer
(`UprobeStatsBridgeServiceImpl.java:176-177`). The rule of
`is_bpf_file_enabled` for bitmap scaling (`config_resolver.rs:408`) comes after one
that matches the same name, so the flag "Whether to instrument bitmap scaling
events." (`mainline-flag.aconfig:36`) is never read. `call_detail` copies
eleven registers into an array of ten (`GenericInstrumentation.c:40`).

### Bounds

Two tasks and two maps are enough for every conflict, overlap and hand-over
between two tasks; the panic of an empty claim needs two overlapping tasks.
Configs are chosen for their cases: one map without filters, one binder probe, two maps with two binder probes, the
same interface twice in one config (an insert that fails), no map. One crash
gives a restart with stale records and stale keys. For the bridge, capacity 3
with four events gives an event that joins the first without posting anything, one
that fills the buffer, a full and a partial batch and several connections; the
liveness run leaves out the waiter, which changes nothing but itself.
Tasks and uids are symmetric in the safety runs; liveness runs use no symmetry.

`config_safety` enumerates what a check can see: all pairs of probes without
filters, every method config in first and second place, duplicate, absent and
empty interfaces, maps and durations, with all flags, each alone and each
missing. In `resolve`, two waiters, two names
(`system_server` and one that begins so), two pids, of which one is taken at the
beginning, and one start give a match, a miss, a record or a notice that comes
too late, a record that the other waiter takes, and a pid used again after a
death; one retry gives a first and a last attempt (the code has five). The
theorems cover several starts.

In `handlers`, each map has its own bounds. A ring buffer of two gives records read
while an older one is pending, batches of one and two, and lost hits.
Accessibility has four hits of two uids, three clock ticks and a window of two: a
call before, at and after the window's end, two grants with a call between
them, equal timestamps. Bitmaps have three hits, two pointers and two keys
(`ActiveMax`, for 5000), one pointer with a past (`MaxOld`): a reused pointer, a full
map, a key without a bitmap and a bitmap without a key. The other maps have two
hits: one accepted before or after one refused. Keys have two bytes (`KeyBytes`,
for 128), values two codes (`MaxCodes`, for 10): names shorter than, as long as
and longer than a key, two of them with the same key, names with a zero first
and last, and an interface with three codes. `MaxMillis`, 5, stands for `i32::MAX`;
the generic maps also run with a duration of 9 beyond it. A task of duration 0 still polls once. Configs are chosen
for their cases: both modes, no mode, no atom, an unknown field, a code that
does not fit, the same interface in two probes; positions in and out of order,
negative, the last register and the one beyond. Uids and pointers are symmetric.

`task_safety`'s configs all name a map, so `NoPanic` and
`GuardHeldWhileExecuting` are not vacuous there. `NoForeignRecords` assumes
that every probe writes to a map its config polls: the resolver does not check
this, and a config that breaks it leaves records for the next task's discard.

### Fairness

`TaskManager`: weak fairness of each task thread and of leaving each poll loop.
The loop ends when its timer expires, resolution waits for the task's
duration at most, the mutex is held for finite sections. Nothing is assumed
of probes, clients, crashes or the registrar.
`BridgeService`: weak fairness of a call that has entered the buffer code, of the
looper and of the callbacks; `EveryEventDelivered` assumes that a delayed runnable
runs some day. New calls, waits, faults and consumer changes are not fair. Both delivery properties speak of the time after the last fault.

`ProcessResolver`: weak fairness of each waiter: its thread runs, each wait ends
at the task's duration and each sleep between retries is finite. Process starts
and notices are not fair.

## Theorems

All hold for every value of the constants. The assumptions are named where the
constants are declared, and TLC evaluates them on the instances: they type the
configs and the bounds. Those that say more than a type: an interface name is
not empty (`config_resolver.rs:324-329` rejects it), the filter map's keys and
values have the sizes of the C structs, what the map holds before a task was
written by this code, and an unset optional field is not a string.

`TaskManager`, with any number of crashes and panics:

* `TypeCorrect`: `Spec => []TypeOK`, by induction, one lemma per group of
  actions. `TypeOK` bounds `attached` and `written` by the number of probes,
  which needs that configs never change (`ConfigStable`).
* `ClaimsAccounted`: `Spec => []MapClaims`. `OnePollerPerMap` alone is not
  inductive: a claim must imply that the map is in `polled`, two running tasks
  must be disjoint, and pollers must run only on claimed maps. `MapClaims` is
  that strengthening, inductive with `TypeOK`. Only `UpdatePolledMaps`,
  `CleanupPolledMaps`, the end of the process and panics change the global
  part; everything else is a frame step (`MoveClaims`, `StayClaims`). The
  converse, that every polled map has a running task, is part of it.
* `RingBuffersExclusive`: `Spec => []OnePollerPerMap`, from `MapClaims`.
* `PanicFree`: if every config names a map, `Spec => []NoPanic`. A running task
  has a map in `polled`, so the state is not `None` when it cleans up. The
  invariant `Healthy` adds that nobody has panicked and that a call in flight has
  a process.
* `GuardHeld`: `Spec => []GuardHeldWhileExecuting`, from the same invariants.
* `ImplementsLease`: `Spec => LeaseSpec`. Step 2 is a grant or a denial, the
  end of a call or of the process is `Leave` of the calls in flight, all else
  stutters. That a denial is justified needs the converse part of `MapClaims`.
* `ProbesClaimed`, `CleanSlate`, `FilterMapExact`, `FiltersStay`,
  `FailuresReported`: what a task holds and what it reports. A thread's step
  changes the progress of its own task only (`ThreadStepLocal`), so each
  invariant is a conjunction over tasks. `Stages` ties the counters of a task to
  its `pc` (a task that attaches has written all its filters). `OwnRecords` is
  the clean slate: from the discard of a map on, only the task's own records are
  in it, since by `MapClaims` nobody else probes it. `FilterInv` gives the filter
  map at most one holder, whose written keys are in it. `Accountables` counts the
  failures that are still on their way to a report.

`BridgeService`: `EventsInOrder` rests on `Parts`: what was delivered, the batch
under way and the buffer are each increasing and each below the next, and
together with what was lost they are all events accepted. `SentOnceInOrder`
says this of the concatenation of the three; a step that moves a batch, or loses
one, needs it of the parts.
`Scalars` types the rest, for `TypeCorrect`; relative to these two
`BufferedEventsCovered` is inductive as it stands (`EventsCovered`).
`FlushedAnswer` adds `Waits`, per call: since events enter the buffer with rising
numbers (`BufferMoves`), a buffer that holds only events newer than some point never
holds older ones again (`BeyondKept`), so what was true at the notification or when
the lock was left stays true of the events accepted by then.

`ProcessResolver`: `Good` is a part for the system and one per waiter. For
`StartsNotMissed` a waiter must know, until it decides, that nothing the observer
told it of matches if its channel is empty, and that the first message is the
first match otherwise; from the decision on, only the starts told by then count.
For `TargetResolved` a record or a notice with a pid must be of some process in
`started`, which only grows: nothing of the kind holds of `running`, since a
process may die before its record is read.

`ConfigResolver`: `AcceptsExactly` and `NothingLost` are about nested loops that
insert into a map and stop at a key that is there. `InsertLoop` says what any
such loop leaves behind: it succeeds exactly if all rounds pass their own checks
and all keys differ, and then holds every value under its key. It is used for the
methods of a filter, then for the filters of a probe. `GuardrailChecked` does the
same for the allow list's loop, which ends early. The invariant `Inv` says what has
been checked at each `pc`; that a rejected config is not acceptable is part of it,
since the step that rejects is the only one that knows why.

`Handlers`: a step of any handler is, for the loop, one of seven moves (`Move`).
`LoopInv` is about moves only: times (`Timing`), the numbers of the records in
`seen`, `batch` and `ring`, which continue each other (`Numbered`), what each phase
means, and what has been reported. Each handler is then shown to make no other
step, which gives `PollsInTime`, `RecordsInOrder` and `OneVerdict` for all nine maps.
The accessibility handler adds `AccessibilityOK`, whose step at the end needs
what `on_finished` computes: `CanSort` (any set of events has an order),
`Associated` (what the loop of `associate_events` has put where, after k events)
and that no two uids share an event; `CallsWithTheirGrant`, `GrantsReported` and
`CallsReported` follow. `BinderOK` types keys and values and says that every key is
one found or one of the config's; `DrainEmptiesMap` follows, since a key that is a
name and padding is read back as it was written. `BitmapOK` types the
bitmap handler, with the finiteness of what it counts. `HandlersInv` is all of
them together, and `TypeCorrect` its weakest consequence.

Four more invariants are inductive relative to `HandlersInv`:

* `BitmapsReplay`, for `BitmapsKnown`. `BitmapsTracked` speaks of a handler that
  has caught up; in between, its map lags behind by the records in `batch` and
  `ring`. The invariant takes the unread records as a set of numbered entries
  (`Unread`) and says, per pointer, that the newest entry decides what the process
  has there and that without one the handler's map already agrees (`Replays`).
  Reserving adds the newest entry, submitting and polling move records without
  changing the set, handling removes the oldest.
* `FiltersWritten`, for `FiltersAsConfigured`: the filters written so far are in
  the map under keys of their own, with codes in some order, and every other key
  was found there (`FiltersHeld`). Keys are never shared because an insert fails
  when its key exists; so at most one probe filters a name. A recorded name is
  shorter than a key and has no zero byte, so the key it matches is a whole
  configured name, or one that goes on after a zero (`MatchedName`), and a value has as many codes as it holds or there are, since
  an order of a set has no repetitions (`CodesOfValue`).
* `Traced`, for `DisruptionsComplete` and `ConfigFollowed`: the outputs with the
  number of a record accepted stand together in `out` and are the ones its handler
  makes for it (`Carries`, `Outcome`). Both properties only count or collect
  outputs by number, which no step preserves by itself: the next record could
  write under the same number, or the config change; `Numbered`, `Ordered` and
  `Settled` exclude this. For a transaction `Outcome` includes that exactly one
  probe has a method, which is what makes "the first probe" and "all probes have a
  say" the same; it comes from `FiltersWritten` (`OneProbe`).
* `DisruptiveOK`: what a record may carry, and that a record not accepted has
  outputs only once the loop has ended with it, without the event. The event is
  the last output of every record (`EventLast`), and a failure cuts a proper prefix
  (`CutIsQuiet`).

`DataLemmas` holds the inductions: over the set of numbers with a property, so
that no operator is passed (`NatInd`), and from it the values of `FoldLeft` and
`FlattenSeq` as those of a loop.

Some definitions are written for the proofs and mean what they say. `Sorted`
chooses the order that `InOrder` describes, `SentOnceInOrder` compares places of
sequences instead of sorting them, and `Probes` and `OutputsAsConfigured` use sets
of numbers where one might select from a sequence: the prover cannot expand
`SelectSeq`.

Every safety property of a passing run is a theorem. Model-checked only: the
liveness properties `CallsEnd`, `GuardReleased`, `ResolutionEnds`,
`EveryEventDelivered` and `FlushSendsEverything`, since fairness is out of the
prover's reach; and the five violations, which need one behaviour each.

## Plan

1. Done: all modules; proofs of every safety property that a passing run checks.
2. `BpfLoader`: create, pin and reuse with a crash in between. The SDK < 37
   start through a file and a property.

## Not modelled

* The encoding of atoms and events, FFI conversions, framework data classes: pure
  output, with no order to get wrong. Which atom is written, when and with which
  fields is modelled.
* ELF parsing and relocation of the loader, and how BPF programs find a field in a
  Java object: pure data transformation.
* Platform queries: the models take any answer, or a failure. That uids are looked
  up after the fact, and that a failed lookup of the bridge service is kept for
  the life of the daemon (`bridge_service.rs:19`), is not stated by any property.
* `art_test.rs` and `ArtTest.c`, compiled for a test feature only.
* What a task does to a process that has taken over the pid it resolved
  (`process.rs:162`): the code does not check the pid again, and `ResolvedIsTarget`
  only says whose pid it was.
* The event buffer of the bridge service has no upper bound
  (`UprobeStatsBridgeServiceImpl.java:256`): none could be stated.
