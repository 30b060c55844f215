-------------------------- MODULE ProcessResolver --------------------------
(***************************************************************************)
(* Finding the process a task targets and the offsets of its method.       *)
(* Each waiter is one call of resolve_process on a task's thread, followed *)
(* by the offset lookup of its probe.  A running process is looked up; for *)
(* a process still to come, the waiter registers a process observer or,    *)
(* without the flag use_process_observer_api, places a uprobe in           *)
(* system_server and polls the process management ring buffer, which all   *)
(* waiters share.  Meanwhile processes start and die, and the pid of one   *)
(* that died is used again.                                                *)
(***************************************************************************)
EXTENDS Naturals, Sequences, FiniteSets, SequencesExt, FiniteSetsExt

CONSTANTS
    Waiters,          \* threads that resolve a process
    Names,            \* process names
    NoName,           \* target_process_name is absent
    SystemServer,     \* the name "system_server"
    SystemServerLike, \* the names that start with it
    Pids,             \* pids
    SystemPid,        \* the pid of system_server at the beginning
    ObserverFlag,     \* values of the flag use_process_observer_api to consider
    MaxRetries,       \* of the offset lookup
    RingCapacity,     \* records of process_change_output_buf
    MaxStarts         \* bound on the number of processes started

ASSUME ProcessAssumption ==
    /\ IsFiniteSet(Waiters) /\ NoName \notin Names
    /\ SystemServer \in SystemServerLike /\ SystemServerLike \subseteq Names
    /\ Pids \subseteq Nat \ {0} /\ SystemPid \in Pids
    /\ ObserverFlag \subseteq BOOLEAN
    /\ {MaxRetries, RingCapacity, MaxStarts} \subseteq Nat

VARIABLES
    useObserver, \* the flag use_process_observer_api
    starts,    \* number of processes started
    started,   \* history: all processes there have been
    running,   \* the processes there are
    ready,     \* those whose runtime answers offset lookups
    foreign,   \* a probe of some other task writes to the ring buffer too
    ring,      \* process_change_output_buf
    pc,        \* progress of each waiter
    want,      \* target_process_selection and target_process_name
    inflight,  \* start notices on their way to the observer
    channel,   \* what the observer has sent
    delivered, \* history: what the observer was told, in order
    decided,   \* history: how much of it when recv_timeout made up its mind
    found,     \* the ResolvedProcess
    attempts   \* offset lookups made

vars == <<useObserver, starts, started, running, ready, foreign, ring, pc, want, inflight,
          channel, delivered, decided, found, attempts>>
processVars == <<useObserver, starts, started, running, ready, foreign>>
systemVars == <<processVars, ring>>
observerVars == <<inflight, channel, delivered, decided>>

(* "on_start" stands for both selections that wait, "named" for the others. *)
Selections == [kind : {"on_start", "named"}, name : Names \cup {NoName}]

Ends == {"resolved", "failed", "timed_out"}

Matches(w, name) == want[w].name = NoName \/ want[w].name = name

(* A process, a start notice, a ProcessChange record and a ResolvedProcess  *)
(* alike: uids are left out.                                                *)
Process(pid, name) == [pid |-> pid, name |-> name]
Processes == [pid : Pids, name : Names]
Nobody == Process(0, NoName)

Init ==
    /\ useObserver \in ObserverFlag
    /\ starts = 0 /\ started = {Process(SystemPid, SystemServer)} /\ running = started
    /\ ready = {} /\ foreign \in BOOLEAN /\ ring = <<>>
    /\ pc = [w \in Waiters |-> "start"]
    /\ want \in [Waiters -> Selections]
    /\ inflight = [w \in Waiters |-> <<>>] /\ channel = [w \in Waiters |-> <<>>]
    /\ delivered = [w \in Waiters |-> <<>>] /\ decided = [w \in Waiters |-> 0]
    /\ found = [w \in Waiters |-> Nobody] /\ attempts = [w \in Waiters |-> 0]

Moves(w, from, to) == pc[w] = from /\ pc' = [pc EXCEPT ![w] = to]

-----------------------------------------------------------------------------
(* Mutated forms of operations defined below: each is a plausible bug, and  *)
(* PROJECT.json names the property that rules it out.                       *)

(* The last retry is allowed one more. *)
MayRetryOnce(w) == useObserver /\ attempts[w] <= MaxRetries + 1

(* A message that arrives at the deadline is not looked at. *)
RecvTimesOutAnyway(w) ==
    /\ Moves(w, "observing", "expired")
    /\ decided' = [decided EXCEPT ![w] = Len(delivered[w])]
    /\ UNCHANGED <<systemVars, want, inflight, channel, delivered, found, attempts>>

(* A lookup that is not answered is tried again for ever. *)
RetryForEver(w) ==
    /\ Moves(w, "offsets", "offsets")
    /\ UNCHANGED <<systemVars, want, observerVars, found, attempts>>

(* The check of get_pid is made for every name. *)
AnsweringLike(name) == SystemServerLike

(* The pid of a record is not looked at. *)
UsableAny(w) == {i \in DOMAIN ring : Matches(w, ring[i].name)}

-----------------------------------------------------------------------------
(* The system. *)

(* Perf events that are open on system_server's process start. *)
LiveProbes == Cardinality({w \in Waiters : pc[w] = "attached"})
              + (IF foreign THEN 1 ELSE 0)

(* A waiter's observer is registered until it is dropped. *)
Observed(w) == pc[w] \in {"observing", "received", "expired"}

(* A process starts, with a pid that is free: registered observers will be  *)
(* told, and a live probe writes a record while there is room, with pid 0   *)
(* if it is not set yet.  A probe that get_pid placed elsewhere writes      *)
(* nothing.                                                                 *)
ProcessStarts(name) ==
    \E pid \in Pids \ {p.pid : p \in running} :
        LET new == Process(pid, name)
        IN  /\ starts < MaxStarts /\ starts' = starts + 1
            /\ started' = started \cup {new} /\ running' = running \cup {new}
            /\ inflight' = [w \in Waiters |-> IF Observed(w) THEN Append(inflight[w], new)
                                                             ELSE inflight[w]]
            /\ \E n \in 0..Min({LiveProbes, RingCapacity - Len(ring)}) :
                   \E records \in [1..n -> {new, Process(0, name)}] : ring' = ring \o records
            /\ UNCHANGED <<useObserver, ready, foreign, pc, want, channel, delivered, decided,
                           found, attempts>>

ProcessReady(p) ==
    /\ p \in running \ ready
    /\ ready' = ready \cup {p}
    /\ UNCHANGED <<useObserver, starts, started, running, foreign, ring, pc, want, observerVars,
                   found, attempts>>

ProcessDies(p) ==
    /\ p \in running
    /\ running' = running \ {p} /\ ready' = ready \ {p}
    /\ UNCHANGED <<useObserver, starts, started, foreign, ring, pc, want, observerVars,
                   found, attempts>>

-----------------------------------------------------------------------------
(* A process that runs already. *)

(* Names that get_pid, for system_server, or get_running_process_pid_uid    *)
(* takes for the name asked for.                                            *)
Answering(name) == IF name = SystemServer THEN SystemServerLike ELSE {name}

(* The pid is that of the process, the name the one asked for. *)
LookupRunning(w) ==
    /\ want[w].kind = "named" /\ want[w].name # NoName
    /\ Moves(w, "start", "offsets")
    /\ \E p \in running : /\ p.name \in Answering(want[w].name)
                          /\ found' = [found EXCEPT ![w] = Process(p.pid, want[w].name)]
    /\ UNCHANGED <<systemVars, want, observerVars, attempts>>

(* No name is given, no such process runs, or the list is not available. *)
LookupFails(w) ==
    /\ want[w].kind = "named"
    /\ Moves(w, "start", "failed")
    /\ UNCHANGED <<systemVars, want, observerVars, found, attempts>>

-----------------------------------------------------------------------------
(* Waiting with a process observer. *)

RegisterObserver(w) ==
    /\ want[w].kind = "on_start" /\ useObserver
    /\ Moves(w, "start", "observing")
    /\ UNCHANGED <<systemVars, want, observerVars, found, attempts>>

RegisterFails(w) ==
    /\ want[w].kind = "on_start" /\ useObserver
    /\ Moves(w, "start", "failed")
    /\ UNCHANGED <<systemVars, want, observerVars, found, attempts>>

(* on_process_started, on a binder thread. *)
OnProcessStarted(w) ==
    /\ Observed(w) /\ inflight[w] # <<>>
    /\ LET p == Head(inflight[w])
       IN  /\ inflight' = [inflight EXCEPT ![w] = Tail(@)]
           /\ delivered' = [delivered EXCEPT ![w] = Append(@, p)]
           /\ channel' = [channel EXCEPT ![w] = IF Matches(w, p.name) THEN Append(@, p) ELSE @]
    /\ UNCHANGED <<systemVars, pc, want, decided, found, attempts>>

(* recv_timeout returns the first message. *)
RecvReturns(w) ==
    /\ channel[w] # <<>>
    /\ Moves(w, "observing", "received")
    /\ found' = [found EXCEPT ![w] = Head(channel[w])]
    /\ channel' = [channel EXCEPT ![w] = Tail(@)]
    /\ decided' = [decided EXCEPT ![w] = Len(delivered[w])]
    /\ UNCHANGED <<systemVars, want, inflight, delivered, attempts>>

(* recv_timeout finds nothing in the channel at the deadline. *)
RecvTimesOut(w) ==
    /\ channel[w] = <<>>
    /\ Moves(w, "observing", "expired")
    /\ decided' = [decided EXCEPT ![w] = Len(delivered[w])]
    /\ UNCHANGED <<systemVars, want, inflight, channel, delivered, found, attempts>>

(* The function returns: the observer is dropped, and with it the notices   *)
(* on their way, then the receiver with what came too late.                 *)
DropObserver(w) ==
    /\ Moves(w, "received", "offsets") \/ Moves(w, "expired", "timed_out")
    /\ inflight' = [inflight EXCEPT ![w] = <<>>]
    /\ channel' = [channel EXCEPT ![w] = <<>>]
    /\ UNCHANGED <<systemVars, want, delivered, decided, found, attempts>>

-----------------------------------------------------------------------------
(* Waiting with a uprobe. *)

(* bpf_perf_event_open on makeActive or, failing that, on onProcessActive,  *)
(* of a process that get_pid takes for system_server.                       *)
OpenPerfEvent(w) ==
    /\ want[w].kind = "on_start" /\ ~useObserver
    /\ \E p \in running : p.name \in SystemServerLike
    /\ Moves(w, "start", "attached")
    /\ UNCHANGED <<systemVars, want, observerVars, found, attempts>>

(* system_server, the offsets or the perf event cannot be had. *)
OpenPerfEventFails(w) ==
    /\ want[w].kind = "on_start" /\ ~useObserver
    /\ Moves(w, "start", "failed")
    /\ UNCHANGED <<systemVars, want, observerVars, found, attempts>>

(* The result of the call is a temporary: its fd is closed at the end of    *)
(* the statement.  Then the timer starts and the ring buffer is opened.     *)
DropPerfEvent(w) ==
    /\ Moves(w, "attached", "polling")
    /\ UNCHANGED <<systemVars, want, observerVars, found, attempts>>

(* Records that name the target and have a pid. *)
Usable(w) == {i \in DOMAIN ring : Matches(w, ring[i].name) /\ ring[i].pid > 0}

(* One round of the loop takes all records and looks for the first usable.  *)
PollFinds(w) ==
    /\ Usable(w) # {}
    /\ Moves(w, "polling", "offsets")
    /\ found' = [found EXCEPT ![w] = ring[Min(Usable(w))]]
    /\ ring' = <<>>
    /\ UNCHANGED <<processVars, want, observerVars, attempts>>

PollFindsNothing(w) ==
    /\ ring # <<>> /\ Usable(w) = {}
    /\ Moves(w, "polling", "polling")
    /\ ring' = <<>>
    /\ UNCHANGED <<processVars, want, observerVars, found, attempts>>

(* Opening or polling the buffer, or a conversion, fails. *)
PollFails(w) ==
    /\ Moves(w, "polling", "failed")
    /\ ring' \in {ring, <<>>}
    /\ UNCHANGED <<processVars, want, observerVars, found, attempts>>

(* remaining_millis is None. *)
TimerExpires(w) ==
    /\ Moves(w, "polling", "timed_out")
    /\ UNCHANGED <<systemVars, want, observerVars, found, attempts>>

-----------------------------------------------------------------------------
(* The offsets of the method, with retries while the process is not ready. *)

(* The platform goes by the pid. *)
Answers(w) == \E p \in ready : p.pid = found[w].pid

OffsetsFound(w) ==
    /\ Moves(w, "offsets", "resolved")
    /\ Answers(w)
    /\ attempts' = [attempts EXCEPT ![w] = @ + 1]
    /\ UNCHANGED <<systemVars, want, observerVars, found>>

MayRetry(w) == useObserver /\ attempts[w] < MaxRetries

(* SERVICE_SPECIFIC / ILLEGAL_STATE: sleep and try again. *)
OffsetsRetry(w) ==
    /\ ~Answers(w) /\ MayRetry(w)
    /\ Moves(w, "offsets", "offsets")
    /\ attempts' = [attempts EXCEPT ![w] = @ + 1]
    /\ UNCHANGED <<systemVars, want, observerVars, found>>

(* No retry is left, another error occurs, or the method has no offsets. *)
OffsetsFail(w) ==
    /\ Moves(w, "offsets", "failed")
    /\ attempts' = [attempts EXCEPT ![w] = @ + 1]
    /\ UNCHANGED <<systemVars, want, observerVars, found>>

-----------------------------------------------------------------------------
WaiterStep(w) ==
    \/ LookupRunning(w) \/ LookupFails(w)
    \/ RegisterObserver(w) \/ RegisterFails(w) \/ RecvReturns(w) \/ RecvTimesOut(w)
    \/ DropObserver(w)
    \/ OpenPerfEvent(w) \/ OpenPerfEventFails(w) \/ DropPerfEvent(w)
    \/ PollFinds(w) \/ PollFails(w) \/ TimerExpires(w)
    \/ OffsetsFound(w) \/ OffsetsRetry(w) \/ OffsetsFail(w)

AllEnded == (\A w \in Waiters : pc[w] \in Ends) /\ UNCHANGED vars

Next ==
    \/ \E name \in Names : ProcessStarts(name)
    \/ \E p \in running : ProcessReady(p) \/ ProcessDies(p)
    \/ \E w \in Waiters : WaiterStep(w)
    \/ \E w \in Waiters : OnProcessStarted(w)
    \/ \E w \in Waiters : PollFindsNothing(w)
    \/ AllEnded

(* A waiter's thread is scheduled, and every wait is bounded by the task's  *)
(* duration.  Nothing is assumed of process starts and notices.             *)
Spec == Init /\ [][Next]_vars /\ \A w \in Waiters : WF_vars(WaiterStep(w))

-----------------------------------------------------------------------------
(* Properties. *)

(* Every variable has its type; the retries of the offset lookup and the    *)
(* ring buffer stay within their bounds, and no two processes share a pid.  *)
TypeOK ==
    /\ starts \in 0..MaxStarts /\ {foreign, useObserver} \subseteq BOOLEAN
    /\ started \subseteq Processes /\ running \subseteq started /\ ready \subseteq running
    /\ \A p, q \in running : p.pid = q.pid => p = q
    /\ ring \in Seq([pid : Pids \cup {0}, name : Names]) /\ Len(ring) <= RingCapacity
    /\ pc \in [Waiters -> {"start", "observing", "received", "expired", "attached", "polling",
                            "offsets"} \cup Ends]
    /\ want \in [Waiters -> Selections]
    /\ inflight \in [Waiters -> Seq(Processes)] /\ channel \in [Waiters -> Seq(Processes)]
    /\ delivered \in [Waiters -> Seq(Processes)]
    /\ found \in [Waiters -> Processes \cup {Nobody}]
    /\ \A w \in Waiters : decided[w] \in 0..Len(delivered[w]) /\ attempts[w] \in 0..(MaxRetries + 1)

(* The process whose offsets are looked up goes by the name the task asked  *)
(* for, and its pid was that of a process started under this name at some   *)
(* time; system_server, looked up as running, may be one whose name only    *)
(* begins so.  A record written before the pid was set never gets past the  *)
(* wait.  The process may have died since, and its pid be another's: a      *)
(* record of the shared ring buffer may be any age.                         *)
ResolvedIsTarget ==
    \A w \in Waiters : pc[w] \in {"received", "offsets", "resolved"} =>
        /\ Matches(w, found[w].name)
        /\ \E p \in started :
               /\ p.pid = found[w].pid
               /\ \/ p.name = found[w].name
                  \/ want[w] = [kind |-> "named", name |-> SystemServer] /\ p.name \in SystemServerLike

(* The i-th start a waiter's observer was told of is one it waits for. *)
Awaited(w, i) == Matches(w, delivered[w][i].name)

(* recv_timeout against on_process_started: a wait times out only if no     *)
(* start of the target was told before recv_timeout made up its mind, and   *)
(* otherwise returns the first one told.  A start told later, while the     *)
(* observer is still registered, changes neither outcome.                   *)
NoStartMissed ==
    \A w \in Waiters :
        /\ pc[w] \in {"expired", "timed_out"} => \A i \in 1..decided[w] : ~Awaited(w, i)
        /\ /\ pc[w] \in {"received", "offsets", "resolved"}
           /\ useObserver /\ want[w].kind = "on_start"
           => \E i \in 1..decided[w] :
                  /\ Awaited(w, i) /\ found[w] = delivered[w][i]
                  /\ \A j \in 1..(i - 1) : ~Awaited(w, j)

(* Every call of resolve_process and every offset lookup ends.              *)
ResolutionEnds == \A w \in Waiters : <>(pc[w] \in Ends)

(* "attaching process management bpf for app start": the probe is in place  *)
(* while the waiter polls for the start.                                    *)
ProbedWhilePolling ==
    \A w \in Waiters : pc[w] = "polling" /\ ~foreign => LiveProbes > 0

=============================================================================
