---------------------------- MODULE TaskManager ----------------------------
(***************************************************************************)
(* The task lifecycle of the uprobestats daemon: a client binds to the     *)
(* lazy service and calls startTasks; the call spawns a thread that        *)
(* resolves the config, claims its BPF maps in the global state, writes    *)
(* the binder transaction filters, discards stale records, attaches the    *)
(* probes, polls one ring buffer per map, and gives everything back.       *)
(*                                                                         *)
(* Threads of one process interleave; the process may be stopped by the    *)
(* lazy service registrar, or die, at any step.  Ring buffers and the      *)
(* filter map are pinned in the kernel and survive the process.            *)
(***************************************************************************)
EXTENDS Naturals, Sequences, FiniteSets

CONSTANTS
    Tasks,        \* one element per client call of startTasks
    Maps,         \* ring buffer map paths a config can name
    Ifaces,       \* binder interface names a config can filter on
    Configs,      \* the configs clients send: [maps, probes]
    MaxCrashes    \* bound on the number of daemon crashes in a behaviour

(* A probe has the interfaces its binder_transaction_filters name and the  *)
(* ring buffer its BPF program writes its records to.                      *)
Probe == [filters : SUBSET Ifaces, out : Maps]

ASSUME ConfigsAssumption ==
    /\ \A c \in Configs : c.maps \in SUBSET Maps /\ c.probes \in Seq(Probe)
    /\ MaxCrashes \in Nat

VARIABLES
    \* the daemon process and its global state
    up,         \* the daemon process runs
    active,     \* GlobalState is Some(ActiveState): the LazyServiceGuard is held
    polled,     \* ActiveState.polled_bpf_maps ({} when GlobalState is None)
    crashes,    \* number of crashes so far
    \* the clients and the task threads
    holding,    \* clients that hold a live proxy of the service
    cfg,        \* the config each client sends
    pc,         \* where each call stands
    written,    \* probes whose filters setup_binder_transaction_filters has handled
    discarded,  \* maps attach_probes_and_poll_maps has discarded
    attached,   \* open perf event fds: the first attached[t] probes are live
    poller,     \* the poll thread of each map of each task
    outcome,    \* the Result of attach_probes_and_poll_maps
    failures,   \* number of failures met on behalf of the call (history)
    reports,    \* number of uprobe_stats_internal_error atoms written for it
    \* the kernel
    flock,      \* tasks that hold the exclusive handle of the filter map
    filters,    \* keys of the binder interface filter map
    residue,    \* keys a crash or a failed drain left behind (history)
    ring,       \* ring[m]: tasks whose probes wrote unread records to m
    seen        \* seen[t]: tasks whose records the handlers of t were given

procVars   == <<up, active, polled, crashes>>
clientVars == <<holding, cfg>>
execVars   == <<written, discarded, attached, poller, outcome>>
errVars    == <<failures, reports>>
filterVars == <<flock, filters, residue>>
ringVars   == <<ring, seen>>
vars == <<procVars, clientVars, pc, execVars, errVars, filterVars, ringVars>>

(* The steps of a task thread between a successful step 2                  *)
(* (update_polled_bpf_maps) and step 4 (cleanup_polled_bpf_maps).          *)
Executing == {"setup", "discard", "attach", "poll", "finish", "cleanup"}
Live      == {"resolving", "resolved"} \cup Executing
Terminal  == {"done", "rejected", "conflict", "startFailed", "panicked", "killed"}
PC        == {"idle", "bound", "dead"} \cup Live \cup Terminal

Running(t)   == pc[t] \in Executing
ProbesOf(t)  == cfg[t].probes
MapsOf(t)    == cfg[t].maps
NumProbes(t) == Len(ProbesOf(t))

Goto(t, l) == pc' = [pc EXCEPT ![t] = l]

(* A failure on behalf of t, and the n internal error atoms written for it. *)
Fail(t, n) == /\ failures' = [failures EXCEPT ![t] = @ + 1]
              /\ reports'  = [reports EXCEPT ![t] = @ + n]

NoPollers == [m \in Maps |-> "none"]

Init ==
    /\ up = FALSE /\ active = FALSE /\ polled = {}
    /\ crashes = 0
    /\ holding = {}
    /\ cfg \in [Tasks -> Configs]
    /\ pc = [t \in Tasks |-> "idle"]
    /\ written   = [t \in Tasks |-> 0]
    /\ discarded = [t \in Tasks |-> {}]
    /\ attached  = [t \in Tasks |-> 0]
    /\ poller    = [t \in Tasks |-> NoPollers]
    /\ outcome   = [t \in Tasks |-> "ok"]
    /\ failures  = [t \in Tasks |-> 0]
    /\ reports   = [t \in Tasks |-> 0]
    /\ flock = {} /\ filters = {} /\ residue = {}
    /\ ring = [m \in Maps |-> {}]
    /\ seen = [t \in Tasks |-> {}]

-----------------------------------------------------------------------------
(* Mutated forms of operations defined below: each is a plausible bug, and  *)
(* PROJECT.json names the property that rules it out.                       *)

(* update_polled_bpf_maps without the conflict check. *)
UpdateWithoutCheck(t) ==
    /\ pc[t] = "resolved"
    /\ active' = TRUE
    /\ polled' = polled \cup MapsOf(t)
    /\ Goto(t, "setup")
    /\ UNCHANGED <<up, crashes, clientVars, execVars, errVars,
                   filterVars, ringVars>>

(* Any running task counts as a conflict. *)
ConflictWhenBusy(t) ==
    /\ pc[t] = "resolved" /\ active
    /\ Fail(t, 1)
    /\ Goto(t, "conflict")
    /\ UNCHANGED <<procVars, clientVars, execVars, filterVars, ringVars>>

(* cleanup drops the whole active state: as if every map had been removed,  *)
(* and, in the second form, with the maps still listed.                     *)
CleanupDropsState(t) ==
    /\ pc[t] = "cleanup" /\ active
    /\ polled' = {} /\ active' = FALSE
    /\ Goto(t, "done")
    /\ UNCHANGED <<up, crashes, clientVars, execVars, errVars,
                   filterVars, ringVars>>

CleanupDropsGuard(t) ==
    /\ pc[t] = "cleanup" /\ active
    /\ polled' = polled \ MapsOf(t) /\ active' = FALSE
    /\ Goto(t, "done")
    /\ UNCHANGED <<up, crashes, clientVars, execVars, errVars,
                   filterVars, ringVars>>

(* cleanup forgets to reset the state to None. *)
CleanupKeepsState(t) ==
    /\ pc[t] = "cleanup" /\ active
    /\ polled' = polled \ MapsOf(t)
    /\ Goto(t, "done")
    /\ UNCHANGED <<up, active, crashes, clientVars, execVars, errVars,
                   filterVars, ringVars>>

(* The filter map is opened without the exclusive lock. *)
OpenFilterMapShared(t) ==
    /\ pc[t] = "setup" /\ written[t] < NumProbes(t)
    /\ ProbesOf(t)[written[t] + 1].filters # {} /\ t \notin flock
    /\ flock' = flock \cup {t}
    /\ UNCHANGED <<procVars, clientVars, pc, execVars, errVars, filters, residue,
                   ringVars>>

(* The stale records are not discarded. *)
DiscardNothing(t, m) ==
    /\ pc[t] = "discard" /\ m \in MapsOf(t) \ discarded[t]
    /\ discarded' = [discarded EXCEPT ![t] = @ \cup {m}]
    /\ UNCHANGED <<procVars, clientVars, pc, written, attached, poller, outcome,
                   errVars, filterVars, ringVars>>

(* A failed discard starts over. *)
DiscardRetries(t) ==
    /\ pc[t] = "discard" /\ discarded[t] # MapsOf(t)
    /\ discarded' = [discarded EXCEPT ![t] = {}]
    /\ UNCHANGED <<procVars, clientVars, pc, written, attached, poller, outcome,
                   errVars, filterVars, ringVars>>

(* One probe too many is attached. *)
AttachOneMore(t) ==
    /\ pc[t] = "attach" /\ attached[t] <= NumProbes(t)
    /\ attached' = [attached EXCEPT ![t] = @ + 1]
    /\ UNCHANGED <<procVars, clientVars, pc, written, discarded, poller, outcome,
                   errVars, filterVars, ringVars>>

(* The perf event fds outlive attach_probes_and_poll_maps. *)
JoinLeaksFds(t) ==
    /\ pc[t] = "poll"
    /\ \A m \in MapsOf(t) : poller[t][m] # "polling"
    /\ outcome' = [outcome EXCEPT ![t] =
                      IF \E m \in MapsOf(t) : poller[t][m] = "failed"
                      THEN "error" ELSE "ok"]
    /\ poller' = [poller EXCEPT ![t] = NoPollers]
    /\ Goto(t, "finish")
    /\ UNCHANGED <<procVars, clientVars, written, discarded, attached, errVars,
                   filterVars, ringVars>>

(* The errors that carry the marker are reported instead of the others. *)
ReportsTheReported(t) == IF outcome[t] = "reported" THEN 1 ELSE 0

(* execute returns without draining the filter map. *)
FinishWithoutDrain(t) ==
    /\ pc[t] = "finish"
    /\ flock' = flock \ {t}
    /\ Goto(t, "cleanup")
    /\ UNCHANGED <<procVars, clientVars, execVars, errVars, filters, residue, ringVars>>

-----------------------------------------------------------------------------
(* The process goes away.  The kernel closes its fds: probes detach and the *)
(* exclusive lock on the filter map is dropped; the keys in the filter map  *)
(* and the records in the ring buffers stay.  newPc says where the calls in *)
(* flight end up.                                                           *)
ProcessGone(newPc) ==
    /\ up' = FALSE /\ active' = FALSE /\ polled' = {}
    /\ holding' = {}
    /\ pc' = newPc
    /\ attached' = [t \in Tasks |-> 0]
    /\ poller'   = [t \in Tasks |-> NoPollers]
    /\ flock' = {}
    /\ residue' = filters
    /\ UNCHANGED <<cfg, written, discarded, outcome, errVars, filters, ringVars>>

KilledPc == [t \in Tasks |-> IF pc[t] \in Live THEN "killed"
                             ELSE IF pc[t] = "bound" THEN "dead" ELSE pc[t]]

(* The daemon is killed (or dies) between any two steps. *)
Crash ==
    /\ up /\ crashes < MaxCrashes
    /\ crashes' = crashes + 1
    /\ ProcessGone(KilledPc)

(* The lazy service registrar stops the process once no client holds the    *)
(* service and no LazyServiceGuard is alive.                                *)
ServiceStop ==
    /\ up /\ ~active /\ holding = {}
    /\ ProcessGone(KilledPc)
    /\ UNCHANGED crashes

(* A panic in a task thread: device code is built to abort on panic, so the *)
(* whole process goes.                                                      *)
Panic(t) == ProcessGone([KilledPc EXCEPT ![t] = "panicked"]) /\ UNCHANGED crashes

-----------------------------------------------------------------------------
(* The client library: AUprobestatsClient_startUprobestats. *)

(* waitForService returns a proxy, starting the lazy service if needed. *)
Bind(t) ==
    /\ pc[t] = "idle"
    /\ up' = TRUE
    /\ holding' = holding \cup {t}
    /\ Goto(t, "bound")
    /\ UNCHANGED <<active, polled, crashes, cfg, execVars, errVars,
                   filterVars, ringVars>>

(* waitForService or fromBinder returns null, or the process behind the     *)
(* proxy is gone by the time of the call: log_startup_error.                *)
StartFails(t) ==
    /\ pc[t] \in {"idle", "dead"}
    /\ Fail(t, 1)
    /\ Goto(t, "startFailed")
    /\ UNCHANGED <<procVars, clientVars, execVars, filterVars, ringVars>>

(* startTasks spawns the task thread and returns at once. *)
StartTasks(t) ==
    /\ pc[t] = "bound"
    /\ Goto(t, "resolving")
    /\ UNCHANGED <<procVars, clientVars, execVars, errVars, filterVars, ringVars>>

(* The client's detached thread ends and drops its proxy. *)
ClientReleases(t) ==
    /\ t \in holding /\ pc[t] # "bound"
    /\ holding' = holding \ {t}
    /\ UNCHANGED <<procVars, cfg, pc, execVars, errVars, filterVars, ringVars>>

-----------------------------------------------------------------------------
(* The task thread. *)

(* Step 1, resolve_config: parsing, guardrail, process and probe resolution *)
(* (which may wait for an app to start for up to the task's duration).      *)
ResolveConfig(t) ==
    /\ pc[t] = "resolving"
    /\ Goto(t, "resolved")
    /\ UNCHANGED <<procVars, clientVars, execVars, errVars, filterVars, ringVars>>

ResolveConfigFails(t) ==
    /\ pc[t] = "resolving"
    /\ Fail(t, 1)
    /\ Goto(t, "rejected")
    /\ UNCHANGED <<procVars, clientVars, execVars, filterVars, ringVars>>

(* Step 2, update_polled_bpf_maps, under the state lock. *)
UpdatePolledMaps(t) ==
    /\ pc[t] = "resolved"
    /\ active => MapsOf(t) \cap polled = {}
    /\ active' = TRUE
    /\ polled' = polled \cup MapsOf(t)
    /\ Goto(t, "setup")
    /\ UNCHANGED <<up, crashes, clientVars, execVars, errVars,
                   filterVars, ringVars>>

TaskConflict(t) ==
    /\ pc[t] = "resolved"
    /\ active /\ MapsOf(t) \cap polled # {}
    /\ Fail(t, 1)
    /\ Goto(t, "conflict")
    /\ UNCHANGED <<procVars, clientVars, execVars, filterVars, ringVars>>

(* Step 3a, setup_binder_transaction_filters: probe by probe. *)
NextFilters(t) == ProbesOf(t)[written[t] + 1].filters

SetupSkipsProbe(t) ==
    /\ pc[t] = "setup" /\ written[t] < NumProbes(t)
    /\ NextFilters(t) = {}
    /\ written' = [written EXCEPT ![t] = @ + 1]
    /\ UNCHANGED <<procVars, clientVars, pc, discarded, attached, poller, outcome,
                   errVars, filterVars, ringVars>>

(* BinderInterfaceMapAccessor::new: the exclusive handle, once per task. *)
OpenFilterMap(t) ==
    /\ pc[t] = "setup" /\ written[t] < NumProbes(t)
    /\ NextFilters(t) # {}
    /\ flock = {}
    /\ flock' = {t}
    /\ UNCHANGED <<procVars, clientVars, pc, execVars, errVars, filters, residue,
                   ringVars>>

(* Someone else holds the handle, or the open fails: execute gives up. *)
OpenFilterMapFails(t) ==
    /\ pc[t] = "setup" /\ written[t] < NumProbes(t)
    /\ NextFilters(t) # {} /\ t \notin flock
    /\ Fail(t, 1)
    /\ Goto(t, "cleanup")
    /\ UNCHANGED <<procVars, clientVars, execVars, filterVars, ringVars>>

(* write_binder_transaction_filter_to_binder_bpf_map inserts each key with  *)
(* BPF_NOEXIST.                                                             *)
WriteFilters(t) ==
    /\ pc[t] = "setup" /\ written[t] < NumProbes(t)
    /\ NextFilters(t) # {} /\ t \in flock
    /\ NextFilters(t) \cap filters = {}
    /\ filters' = filters \cup NextFilters(t)
    /\ written' = [written EXCEPT ![t] = @ + 1]
    /\ UNCHANGED <<procVars, clientVars, pc, discarded, attached, poller, outcome,
                   errVars, flock, residue, ringVars>>

(* drain: delete keys until none is left, or give up with `left' behind.    *)
Drain(left) == filters' = left /\ residue' = left

(* A write fails (the key exists, or the kernel refuses): the map is        *)
(* drained, the handle closed, and execute gives up.                        *)
WriteFiltersFails(t) ==
    /\ pc[t] = "setup" /\ written[t] < NumProbes(t)
    /\ NextFilters(t) # {} /\ t \in flock
    /\ \E left \in SUBSET (filters \cup NextFilters(t)) : Drain(left)
    /\ flock' = flock \ {t}
    /\ Fail(t, 1)
    /\ Goto(t, "cleanup")
    /\ UNCHANGED <<procVars, clientVars, execVars, ringVars>>

SetupDone(t) ==
    /\ pc[t] = "setup" /\ written[t] = NumProbes(t)
    /\ Goto(t, "discard")
    /\ UNCHANGED <<procVars, clientVars, execVars, errVars, filterVars, ringVars>>

(* Step 3b, attach_probes_and_poll_maps. *)

(* bpf_ring_buffer_discard, one map at a time. *)
DiscardMap(t, m) ==
    /\ pc[t] = "discard" /\ m \in MapsOf(t) \ discarded[t]
    /\ ring' = [ring EXCEPT ![m] = {}]
    /\ discarded' = [discarded EXCEPT ![t] = @ \cup {m}]
    /\ UNCHANGED <<procVars, clientVars, pc, written, attached, poller, outcome,
                   errVars, filterVars, seen>>

DiscardDone(t) ==
    /\ pc[t] = "discard" /\ discarded[t] = MapsOf(t)
    /\ Goto(t, "attach")
    /\ UNCHANGED <<procVars, clientVars, execVars, errVars, filterVars, ringVars>>

(* The function returns early: every fd opened so far is dropped.           *)
ReturnsError(t, result, n) ==
    /\ Fail(t, n)
    /\ outcome'  = [outcome EXCEPT ![t] = result]
    /\ attached' = [attached EXCEPT ![t] = 0]
    /\ Goto(t, "finish")

DiscardFails(t) ==
    /\ pc[t] = "discard" /\ discarded[t] # MapsOf(t)
    /\ ReturnsError(t, "error", 0)
    /\ UNCHANGED <<procVars, clientVars, written, discarded, poller, filterVars,
                   ringVars>>

(* bpf_perf_event_open of the next probe, which is live from here on. *)
AttachProbe(t) ==
    /\ pc[t] = "attach" /\ attached[t] < NumProbes(t)
    /\ attached' = [attached EXCEPT ![t] = @ + 1]
    /\ UNCHANGED <<procVars, clientVars, pc, written, discarded, poller, outcome,
                   errVars, filterVars, ringVars>>

(* bpf_perf_event_open fails: reported, and marked ReportedToStatsd. *)
AttachFails(t) ==
    /\ pc[t] = "attach" /\ attached[t] < NumProbes(t)
    /\ ReturnsError(t, "reported", 1)
    /\ UNCHANGED <<procVars, clientVars, written, discarded, poller, filterVars,
                   ringVars>>

(* A conversion before or after the open fails: a plain error. *)
AttachConversionFails(t) ==
    /\ pc[t] = "attach" /\ attached[t] < NumProbes(t)
    /\ ReturnsError(t, "error", 0)
    /\ UNCHANGED <<procVars, clientVars, written, discarded, poller, filterVars,
                   ringVars>>

(* thread::scope spawns one thread per map. *)
SpawnPollers(t) ==
    /\ pc[t] = "attach" /\ attached[t] = NumProbes(t)
    /\ poller' = [poller EXCEPT ![t] =
                     [m \in Maps |-> IF m \in MapsOf(t) THEN "polling" ELSE "none"]]
    /\ Goto(t, "poll")
    /\ UNCHANGED <<procVars, clientVars, written, discarded, attached, outcome,
                   errVars, filterVars, ringVars>>

(* A live probe of t fires in the traced process: its BPF program writes a  *)
(* record to the ring buffer it is compiled for.                            *)
ProbeFires(t, i) ==
    /\ i \in 1..attached[t]
    /\ ring' = [ring EXCEPT ![ProbesOf(t)[i].out] = @ \cup {t}]
    /\ UNCHANGED <<procVars, clientVars, pc, execVars, errVars, filterVars, seen>>

(* ring_buffer.poll returns records, and on_item handles each of them. *)
PollReads(t, m) ==
    /\ poller[t][m] = "polling" /\ ring[m] # {}
    /\ seen' = [seen EXCEPT ![t] = @ \cup ring[m]]
    /\ ring' = [ring EXCEPT ![m] = {}]
    /\ UNCHANGED <<procVars, clientVars, pc, execVars, errVars, filterVars>>

(* on_item fails on one of them: reported, and the poll loop is left. *)
PollReadFails(t, m) ==
    /\ poller[t][m] = "polling" /\ ring[m] # {}
    /\ seen' = [seen EXCEPT ![t] = @ \cup ring[m]]
    /\ ring' = [ring EXCEPT ![m] = {}]
    /\ poller' = [poller EXCEPT ![t][m] = "failed"]
    /\ Fail(t, 1)
    /\ UNCHANGED <<procVars, clientVars, pc, written, discarded, attached, outcome,
                   filterVars>>

(* Creating or polling the ring buffer fails (reported, n = 1); the map has *)
(* no handler, on_finished or a conversion fails (not reported, n = 0).     *)
PollFails(t, m, n) ==
    /\ poller[t][m] = "polling"
    /\ poller' = [poller EXCEPT ![t][m] = "failed"]
    /\ Fail(t, n)
    /\ UNCHANGED <<procVars, clientVars, pc, written, discarded, attached, outcome,
                   filterVars, ringVars>>

(* The timer has expired and on_finished succeeds. *)
PollFinishes(t, m) ==
    /\ poller[t][m] = "polling"
    /\ poller' = [poller EXCEPT ![t][m] = "finished"]
    /\ UNCHANGED <<procVars, clientVars, pc, written, discarded, attached, outcome,
                   errVars, filterVars, ringVars>>

(* Every poll thread is joined.  Their errors are rendered to strings and   *)
(* wrapped in a new one, which carries no ReportedToStatsd marker.  The     *)
(* perf event fds are closed on return.                                     *)
JoinPollers(t) ==
    /\ pc[t] = "poll"
    /\ \A m \in MapsOf(t) : poller[t][m] # "polling"
    /\ outcome' = [outcome EXCEPT ![t] =
                      IF \E m \in MapsOf(t) : poller[t][m] = "failed"
                      THEN "error" ELSE "ok"]
    /\ poller' = [poller EXCEPT ![t] = NoPollers]
    /\ attached' = [attached EXCEPT ![t] = 0]
    /\ Goto(t, "finish")
    /\ UNCHANGED <<procVars, clientVars, written, discarded, errVars, filterVars,
                   ringVars>>

(* The rest of execute: an error that carries no marker is reported, and    *)
(* step 3c, cleanup_binder_transaction_filters, drains the filter map if    *)
(* the task opened it (reporting a failed drain) and closes the handle.     *)
ExecutionError(t) == IF outcome[t] = "error" THEN 1 ELSE 0

FinishExecute(t) ==
    /\ pc[t] = "finish"
    /\ reports' = [reports EXCEPT ![t] = @ + ExecutionError(t)]
    /\ \/ t \notin flock /\ UNCHANGED filterVars
       \/ t \in flock /\ Drain({}) /\ flock' = flock \ {t}
    /\ Goto(t, "cleanup")
    /\ UNCHANGED <<procVars, clientVars, execVars, failures, ringVars>>

FinishExecuteDrainFails(t) ==
    /\ pc[t] = "finish" /\ t \in flock
    /\ \E left \in SUBSET filters : Drain(left)
    /\ flock' = flock \ {t}
    /\ Fail(t, 1 + ExecutionError(t))
    /\ Goto(t, "cleanup")
    /\ UNCHANGED <<procVars, clientVars, execVars, ringVars>>

(* Step 4, cleanup_polled_bpf_maps, under the state lock: the last map out  *)
(* drops the LazyServiceGuard.                                              *)
CleanupPolledMaps(t) ==
    /\ pc[t] = "cleanup" /\ active
    /\ polled' = polled \ MapsOf(t)
    /\ active' = (polled' # {})
    /\ Goto(t, "done")
    /\ UNCHANGED <<up, crashes, clientVars, execVars, errVars,
                   filterVars, ringVars>>

(* cleanup with no active state: panic!("... This should never happen.").   *)
CleanupPanics(t) ==
    /\ pc[t] = "cleanup" /\ ~active
    /\ Panic(t)

-----------------------------------------------------------------------------
(* Everything a task thread does by itself, poll loops apart. *)
ThreadStep(t) ==
    \/ ResolveConfig(t) \/ ResolveConfigFails(t)
    \/ UpdatePolledMaps(t) \/ TaskConflict(t)
    \/ SetupSkipsProbe(t) \/ OpenFilterMap(t) \/ OpenFilterMapFails(t)
    \/ WriteFilters(t) \/ WriteFiltersFails(t) \/ SetupDone(t)
    \/ \E m \in Maps : DiscardMap(t, m)
    \/ DiscardDone(t) \/ DiscardFails(t)
    \/ AttachProbe(t) \/ AttachFails(t) \/ AttachConversionFails(t)
    \/ SpawnPollers(t) \/ JoinPollers(t)
    \/ FinishExecute(t) \/ FinishExecuteDrainFails(t)
    \/ CleanupPolledMaps(t) \/ CleanupPanics(t)

(* The poll loop of map m is left, one way or the other. *)
PollEnds(t, m) == PollFinishes(t, m) \/ PollReadFails(t, m) \/ PollFails(t, m, 0)
                  \/ PollFails(t, m, 1)

ClientStep(t) == Bind(t) \/ StartFails(t) \/ StartTasks(t) \/ ClientReleases(t)

(* Every call is over and nothing is left to do. *)
AllDone == /\ \A t \in Tasks : pc[t] \in Terminal
           /\ holding = {}
           /\ UNCHANGED vars

Next ==
    \/ \E t \in Tasks : ClientStep(t) \/ ThreadStep(t)
    \/ \E t \in Tasks, m \in Maps : PollReads(t, m) \/ PollEnds(t, m)
    \/ \E t \in Tasks : \E i \in 1..NumProbes(t) : ProbeFires(t, i)
    \/ ServiceStop
    \/ Crash
    \/ AllDone

Spec == Init /\ [][Next]_vars

(* Threads are scheduled and every wait of a task thread is bounded: a poll *)
(* loop is left when its timer expires, resolution waits for the task's     *)
(* duration at most, the mutex is held for finite sections.  Nothing is     *)
(* assumed of probes firing, of crashes or of the lazy registrar.           *)
Fairness ==
    /\ \A t \in Tasks : WF_vars(ThreadStep(t))
    /\ \A t \in Tasks, m \in Maps : WF_vars(PollEnds(t, m))

FairSpec == Spec /\ Fairness

-----------------------------------------------------------------------------
(* Properties. *)

PollerStates == {"none", "polling", "failed", "finished"}
Outcomes     == {"ok", "error", "reported"}

(* Every variable has its type, and the indices written and attached stay   *)
(* within the task's probes.                                                *)
TypeOK ==
    /\ up \in BOOLEAN /\ active \in BOOLEAN
    /\ polled \in SUBSET Maps
    /\ crashes \in 0..MaxCrashes
    /\ holding \in SUBSET Tasks
    /\ cfg \in [Tasks -> Configs]
    /\ pc \in [Tasks -> PC]
    /\ written \in [Tasks -> Nat] /\ attached \in [Tasks -> Nat]
    /\ \A t \in Tasks : written[t] <= NumProbes(t) /\ attached[t] <= NumProbes(t)
    /\ discarded \in [Tasks -> SUBSET Maps]
    /\ poller \in [Tasks -> [Maps -> PollerStates]]
    /\ outcome \in [Tasks -> Outcomes]
    /\ failures \in [Tasks -> Nat] /\ reports \in [Tasks -> Nat]
    /\ flock \in SUBSET Tasks
    /\ filters \in SUBSET Ifaces /\ residue \in SUBSET Ifaces
    /\ ring \in [Maps -> SUBSET Tasks]
    /\ seen \in [Tasks -> SUBSET Tasks]

(* No ring buffer is polled by two threads: the conflict check of           *)
(* update_polled_bpf_maps gives every map to one task until its cleanup.    *)
OnePollerPerMap ==
    \A t, u \in Tasks, m \in Maps :
        poller[t][m] = "polling" /\ poller[u][m] = "polling" => t = u

(* polled_bpf_maps is exactly what the tasks between step 2 and step 4      *)
(* claim, no two of them claim the same map, and a poll thread only runs on *)
(* a map its task claims.                                                   *)
MapClaims ==
    /\ \A t \in Tasks : Running(t) => MapsOf(t) \subseteq polled
    /\ \A t, u \in Tasks : t # u /\ Running(t) /\ Running(u) =>
                              MapsOf(t) \cap MapsOf(u) = {}
    /\ ~active => polled = {}
    /\ \A m \in polled : \E t \in Tasks : Running(t) /\ m \in MapsOf(t)
    /\ \A t \in Tasks, m \in Maps :
           poller[t][m] = "polling" => pc[t] = "poll" /\ m \in MapsOf(t)

(* An open perf event fd belongs to a thread inside the attach or the poll  *)
(* phase of attach_probes_and_poll_maps, on every return path, and that     *)
(* thread's task still claims its maps: the fds are closed before the       *)
(* filters are drained and before cleanup_polled_bpf_maps gives the maps    *)
(* away.                                                                    *)
LiveProbesAreClaimed ==
    \A t \in Tasks : attached[t] > 0 =>
        pc[t] \in {"attach", "poll"} /\ MapsOf(t) \subseteq polled

(* Every probe of a config writes to a map the config polls. *)
WellFormedConfigs ==
    \A c \in Configs : \A i \in 1..Len(c.probes) : c.probes[i].out \in c.maps

(* "Discard maps before attaching probes to ensure a clean slate": handlers *)
(* are never given a record that another task's probe wrote, even one left  *)
(* behind by a crashed daemon.                                              *)
NoForeignRecords ==
    WellFormedConfigs => \A t \in Tasks : seen[t] \subseteq {t}

WrittenKeys(t) == UNION {ProbesOf(t)[i].filters : i \in 1..written[t]}
AllKeys(t)     == UNION {ProbesOf(t)[i].filters : i \in 1..NumProbes(t)}

(* The exclusive handle of the filter map is held by one thread at most,    *)
(* between setup_binder_transaction_filters and the end of                  *)
(* cleanup_binder_transaction_filters, so never into step 4; the map holds  *)
(* the keys its holder has written and what a crash or a failed drain left  *)
(* behind, and nothing else.                                                *)
FilterMapAccounted ==
    /\ \A t, u \in flock : t = u
    /\ \A t \in flock : pc[t] \in {"setup", "discard", "attach", "poll", "finish"}
    /\ filters = residue \cup UNION {WrittenKeys(t) : t \in flock}

(* While a probe of a task is attached, every interface the task filters on *)
(* is in the filter map: no other task drains it meanwhile.                 *)
FiltersInPlace ==
    \A t \in Tasks : attached[t] > 0 => AllKeys(t) \subseteq filters

(* A call that ends after a failure has written at least one internal error *)
(* (a thread that was killed or panicked could not).                        *)
NoSilentFailure ==
    \A t \in Tasks :
        pc[t] \in Terminal \ {"killed", "panicked"} /\ failures[t] > 0 => reports[t] > 0

NonEmptyMaps == \A c \in Configs : c.maps # {}

(* The LazyServiceGuard is held, and the process is up, throughout step 3.  *)
GuardHeldWhileExecuting ==
    NonEmptyMaps => \A t \in Tasks : Running(t) => up /\ active

(* "cleanup_active_maps called with no active state. This should never      *)
(* happen."                                                                 *)
NoPanic == \A t \in Tasks : pc[t] # "panicked"

(* GlobalState "None: means there are no tasks currently running, and the   *)
(* service may be stopped": the registrar stops no process with a task in   *)
(* flight.                                                                  *)
StoppedOnlyWhenIdle ==
    [][ServiceStop => \A t \in Tasks : pc[t] \notin Live]_vars

(* The abstract lease of maps that tasks claim in step 2 and return in      *)
(* step 4.                                                                  *)
Verdict(t) == IF pc[t] \in Executing THEN "granted"
              ELSE IF pc[t] = "conflict" THEN "denied"
              ELSE IF pc[t] \in Terminal THEN "over"
              ELSE "pending"

Lease == INSTANCE MapLease WITH want    <- [t \in Tasks |-> MapsOf(t)],
                                verdict <- [t \in Tasks |-> Verdict(t)]

(* GlobalState implements the lease: maps are granted all or none, never    *)
(* twice, and ErrorTypeTaskConflict is only reported for a real conflict.   *)
LeaseSpec == Lease!Spec

(* Every accepted call comes to an end. *)
CallsEnd == \A t \in Tasks : pc[t] = "resolving" ~> pc[t] \in Terminal

(* The LazyServiceGuard is given up again: the daemon does not stay alive   *)
(* for good because of one task.                                            *)
GuardReleased == active ~> ~active

=============================================================================
