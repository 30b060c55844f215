--------------------------- MODULE BridgeService ---------------------------
(***************************************************************************)
(* The event queue of UprobeStatsBridgeServiceImpl.  Binder threads add    *)
(* events under mLock and post the flush runnable to a handler thread; the *)
(* runnable binds to the consumer; the connection's callback, on the main  *)
(* thread, takes batches out of the buffer under mLock and sends them with *)
(* the oneway onEvent until the buffer is empty, then unbinds.             *)
(*                                                                         *)
(* Events are numbered in the order they enter the buffer.  A delayed      *)
(* runnable may fire at any time: the flush timeout is not measured.       *)
(***************************************************************************)
EXTENDS Naturals, Sequences, SequencesExt

CONSTANTS
    Senders,     \* binder threads that call enqueueEvent
    Waiters,     \* binder threads that call waitQueueFlushed
    Capacity,    \* EVENT_BUFFER_CAPACITY
    MaxEvents,   \* bound on the number of events
    MaxFaults,   \* bound on failed binds, null bindings and RemoteExceptions
    MaxToggles,  \* bound on changes of the configured consumer
    MaxWaits     \* bound on calls of waitQueueFlushed

ASSUME BridgeAssumption ==
    /\ Capacity \in Nat \ {0}
    /\ {MaxEvents, MaxFaults, MaxToggles, MaxWaits} \subseteq Nat

VARIABLES
    consumer,   \* a dynamic instrumentation event consumer is configured
    toggles,    \* number of times it was changed
    buffer,     \* mEventBuffer
    accepted,   \* number of events added so far
    calls,      \* calls[s]: the enqueueEvent call of sender s
    posted,     \* flush runnables in the handler's queue
    timers,     \* delayed flush runnables in the handler's queue
    flusher,    \* the handler thread: "idle" or "configured" (has read a consumer)
    binding,    \* connections whose callback has not come yet
    sending,    \* the main thread is inside onServiceConnected
    batch,      \* the batch it is about to send
    delivered,  \* events the consumer received, in order
    lost,       \* events of batches whose onEvent threw
    faults,     \* number of faults so far
    stranded,   \* a flush attempt gave up since the buffer was last emptied (history)
    wait,       \* wait[w]: the waitQueueFlushed call of waiter w
    waits       \* number of calls of waitQueueFlushed so far

queueVars  == <<buffer, accepted>>
looperVars == <<posted, timers, flusher>>
sendVars   == <<binding, sending, batch, delivered, lost>>
faultVars  == <<faults, stranded>>
configVars == <<consumer, toggles>>
waitVars   == <<wait, waits>>
vars == <<queueVars, calls, looperVars, sendVars, faultVars, configVars, waitVars>>

Idle == [at |-> "idle", flush |-> FALSE, size |-> 0]

(* A call of waitQueueFlushed: where it is, the number of events accepted   *)
(* when it began and when it left mLock, whether the buffer was empty then, *)
(* and what it returned.  History: it was notified that the buffer was      *)
(* emptied, and it read the buffer in the middle of an add.                 *)
NoWait == [at |-> "idle", from |-> 0, left |-> 0, clear |-> TRUE, answer |-> "none",
           emptied |-> FALSE, torn |-> FALSE]

Init ==
    /\ consumer \in BOOLEAN /\ toggles = 0
    /\ buffer = <<>> /\ accepted = 0
    /\ calls = [s \in Senders |-> Idle]
    /\ posted = 0 /\ timers = 0 /\ flusher = "idle"
    /\ binding = 0 /\ sending = FALSE /\ batch = <<>>
    /\ delivered = <<>> /\ lost = {}
    /\ faults = 0 /\ stranded = FALSE
    /\ wait = [w \in Waiters |-> NoWait] /\ waits = 0

-----------------------------------------------------------------------------
(* Mutated forms of operations defined below: each is a plausible bug, and  *)
(* PROJECT.json names the property that rules it out.                       *)

(* Only the second event arms the timer. *)
ArmsTimerOnSecond(s) == ~calls[s].flush /\ calls[s].size = 2

(* The batch is put back at the end of the buffer when sending fails. *)
RequeueAtEnd ==
    /\ batch # <<>> /\ faults < MaxFaults
    /\ buffer' = buffer \o batch /\ batch' = <<>> /\ sending' = FALSE
    /\ faults' = faults + 1 /\ stranded' = TRUE
    /\ UNCHANGED <<accepted, calls, looperVars, binding, delivered, lost, configVars,
                   waitVars>>

(* One batch per connection. *)
OneBatchPerConnection ==
    /\ batch # <<>>
    /\ delivered' = delivered \o batch /\ batch' = <<>> /\ sending' = FALSE
    /\ UNCHANGED <<queueVars, calls, looperVars, binding, lost, faultVars,
                   configVars, waitVars>>

(* A batch of one more event than the capacity. *)
BatchOneTooMany == SubSeq(buffer, 1, IF Len(buffer) < Capacity + 1 THEN Len(buffer)
                                     ELSE Capacity + 1)

(* The waiter takes the end of its wait for a flush. *)
WaitReturnsTrue(w) ==
    /\ wait[w].at = "left"
    /\ wait' = [wait EXCEPT ![w] = [@ EXCEPT !.at = "idle", !.answer = "true"]]
    /\ UNCHANGED <<queueVars, calls, looperVars, sendVars, faultVars, configVars, waits>>

-----------------------------------------------------------------------------
(* enqueueEvent, on a binder thread. *)

(* With no consumer configured the call returns at once. *)
EnqueueIgnored(s) == calls[s].at = "idle" /\ ~consumer /\ UNCHANGED vars

EnqueueChecksConsumer(s) ==
    /\ calls[s].at = "idle" /\ consumer /\ accepted < MaxEvents
    /\ \E flush \in BOOLEAN :
           calls' = [calls EXCEPT ![s] = [at |-> "checked", flush |-> flush, size |-> 0]]
    /\ UNCHANGED <<queueVars, looperVars, sendVars, faultVars, configVars, waitVars>>

(* synchronized (mLock): the event is added and the size read. *)
EnqueueAdds(s) ==
    /\ calls[s].at = "checked" /\ accepted < MaxEvents
    /\ accepted' = accepted + 1
    /\ buffer' = Append(buffer, accepted + 1)
    /\ calls' = [calls EXCEPT ![s] = [@ EXCEPT !.at = "added", !.size = Len(buffer) + 1]]
    /\ UNCHANGED <<looperVars, sendVars, faultVars, configVars, waitVars>>

(* flush || bufferFull, and otherwise firstEvent. *)
FlushNow(s)  == calls[s].flush \/ calls[s].size >= Capacity
ArmsTimer(s) == ~FlushNow(s) /\ calls[s].size = 1

(* Outside the lock: post the flush runnable, now or delayed, or not. *)
EnqueuePosts(s) ==
    /\ calls[s].at = "added"
    /\ posted' = IF FlushNow(s) THEN posted + 1 ELSE posted
    /\ timers' = IF ArmsTimer(s) THEN timers + 1 ELSE timers
    /\ calls' = [calls EXCEPT ![s] = Idle]
    /\ UNCHANGED <<queueVars, flusher, sendVars, faultVars, configVars, waitVars>>

-----------------------------------------------------------------------------
(* mFlushRunnable and bindConsumerIfNeeded, on the handler thread. *)

(* A posted runnable starts: the consumer is read once. *)
FlushStarts ==
    /\ flusher = "idle" /\ posted > 0
    /\ posted' = posted - 1
    /\ flusher' = IF consumer THEN "configured" ELSE "idle"
    /\ stranded' = (stranded \/ (~consumer /\ buffer # <<>>))
    /\ UNCHANGED <<queueVars, calls, timers, sendVars, faults, configVars, waitVars>>

TimerFires ==
    /\ flusher = "idle" /\ timers > 0
    /\ timers' = timers - 1
    /\ flusher' = IF consumer THEN "configured" ELSE "idle"
    /\ stranded' = (stranded \/ (~consumer /\ buffer # <<>>))
    /\ UNCHANGED <<queueVars, calls, posted, sendVars, faults, configVars, waitVars>>

(* Nothing to send. *)
FlushFindsNothing ==
    /\ flusher = "configured" /\ buffer = <<>>
    /\ flusher' = "idle"
    /\ UNCHANGED <<queueVars, calls, posted, timers, sendVars, faultVars, configVars,
                   waitVars>>

(* bindServiceAsUser with a new EventSenderConnection. *)
FlushBinds ==
    /\ flusher = "configured" /\ buffer # <<>>
    /\ flusher' = "idle"
    /\ binding' = binding + 1
    /\ UNCHANGED <<queueVars, calls, posted, timers, sending, batch, delivered, lost,
                   faultVars, configVars, waitVars>>

(* bindServiceAsUser returns false: logged, the events stay. *)
FlushBindFails ==
    /\ flusher = "configured" /\ buffer # <<>> /\ faults < MaxFaults
    /\ flusher' = "idle"
    /\ faults' = faults + 1 /\ stranded' = TRUE
    /\ UNCHANGED <<queueVars, calls, posted, timers, sendVars, configVars, waitVars>>

-----------------------------------------------------------------------------
(* EventSenderConnection, on the main thread. *)

OnServiceConnected ==
    /\ binding > 0 /\ ~sending
    /\ binding' = binding - 1
    /\ sending' = TRUE
    /\ UNCHANGED <<queueVars, calls, looperVars, batch, delivered, lost, faultVars,
                   configVars, waitVars>>

(* onNullBinding unbinds: the events stay. *)
OnNullBinding ==
    /\ binding > 0 /\ ~sending /\ faults < MaxFaults
    /\ binding' = binding - 1
    /\ faults' = faults + 1 /\ stranded' = TRUE
    /\ UNCHANGED <<queueVars, calls, looperVars, sending, batch, delivered, lost,
                   configVars, waitVars>>

(* getNextBatch polls up to EVENT_BUFFER_CAPACITY events, and wakes the     *)
(* waiters when that empties the buffer.                                    *)
NextBatch == SubSeq(buffer, 1, IF Len(buffer) < Capacity THEN Len(buffer) ELSE Capacity)

GetNextBatch ==
    /\ sending /\ batch = <<>> /\ buffer # <<>>
    /\ batch' = NextBatch
    /\ buffer' = SubSeq(buffer, Len(NextBatch) + 1, Len(buffer))
    /\ wait' = [w \in Waiters |-> IF wait[w].at = "waiting" /\ buffer' = <<>>
                                  THEN [wait[w] EXCEPT !.at = "woken", !.emptied = TRUE]
                                  ELSE wait[w]]
    /\ UNCHANGED <<accepted, calls, looperVars, binding, sending, delivered, lost,
                   faultVars, configVars, waits>>

(* The empty batch ends the loop; the connection is unbound. *)
SendingDone ==
    /\ sending /\ batch = <<>> /\ buffer = <<>>
    /\ sending' = FALSE
    /\ stranded' = FALSE
    /\ UNCHANGED <<queueVars, calls, looperVars, binding, batch, delivered, lost,
                   faults, configVars, waitVars>>

OnEvent ==
    /\ batch # <<>>
    /\ delivered' = delivered \o batch
    /\ batch' = <<>>
    /\ UNCHANGED <<queueVars, calls, looperVars, binding, sending, lost, faultVars,
                   configVars, waitVars>>

(* onEvent throws: the batch is gone, the rest stays, the connection is     *)
(* unbound.                                                                 *)
OnEventThrows ==
    /\ batch # <<>> /\ faults < MaxFaults
    /\ lost' = lost \cup ToSet(batch)
    /\ batch' = <<>> /\ sending' = FALSE
    /\ faults' = faults + 1 /\ stranded' = TRUE
    /\ UNCHANGED <<queueVars, calls, looperVars, binding, delivered, configVars, waitVars>>

-----------------------------------------------------------------------------
(* enableTestMode and disableTestMode set and clear the consumer. *)
EnableTestMode ==
    /\ toggles < MaxToggles /\ ~consumer
    /\ consumer' = TRUE /\ toggles' = toggles + 1
    /\ UNCHANGED <<queueVars, calls, looperVars, sendVars, faultVars, waitVars>>

DisableTestMode ==
    /\ toggles < MaxToggles /\ consumer
    /\ consumer' = FALSE /\ toggles' = toggles + 1
    /\ UNCHANGED <<queueVars, calls, looperVars, sendVars, faultVars, waitVars>>

(* waitQueueFlushed, on a binder thread, under mLock: an empty buffer is    *)
(* the answer; otherwise it waits once, for a notification or the timeout.  *)
WaitStarts(w) ==
    /\ wait[w].at = "idle" /\ waits < MaxWaits
    /\ waits' = waits + 1
    /\ LET call == [NoWait EXCEPT !.from = accepted, !.left = accepted]
       IN  wait' = [wait EXCEPT ![w] = IF buffer = <<>> THEN [call EXCEPT !.answer = "true"]
                                       ELSE [call EXCEPT !.at = "waiting"]]
    /\ UNCHANGED <<queueVars, calls, looperVars, sendVars, faultVars, configVars>>

WaitTimesOut(w) ==
    /\ wait[w].at = "waiting"
    /\ wait' = [wait EXCEPT ![w] = [@ EXCEPT !.at = "woken"]]
    /\ UNCHANGED <<queueVars, calls, looperVars, sendVars, faultVars, configVars, waits>>

(* mLock is taken again and left. *)
WaitLeavesLock(w) ==
    /\ wait[w].at = "woken"
    /\ wait' = [wait EXCEPT ![w] = [@ EXCEPT !.at = "left", !.left = accepted,
                                             !.clear = (buffer = <<>>)]]
    /\ UNCHANGED <<queueVars, calls, looperVars, sendVars, faultVars, configVars, waits>>

(* mEventBuffer.isEmpty() compares two indices that others write under      *)
(* mLock; each read may be of any moment since mLock was left.  It can be   *)
(* true if what was in the buffer then is gone, false unless the buffer was *)
(* empty then and nothing came.                                             *)
ReadsEmpty(w)    == \A i \in DOMAIN buffer : buffer[i] > wait[w].left
ReadsNonEmpty(w) == ~(wait[w].clear /\ accepted = wait[w].left)

(* An add to a full array makes the indices equal before the array grows;   *)
(* this takes Capacity events in the buffer at least.                       *)
ReadsTorn == Len(buffer) >= Capacity /\ \E s \in Senders : calls[s].at = "checked"

WaitReturns(w) ==
    /\ wait[w].at = "left"
    /\ \E answer \in {"true", "false"}, torn \in BOOLEAN :
           /\ torn => ReadsTorn /\ answer = "true"
           /\ ~torn => IF answer = "true" THEN ReadsEmpty(w) ELSE ReadsNonEmpty(w)
           /\ wait' = [wait EXCEPT ![w] = [@ EXCEPT !.at = "idle", !.answer = answer, !.torn = torn]]
    /\ UNCHANGED <<queueVars, calls, looperVars, sendVars, faultVars, configVars, waits>>

-----------------------------------------------------------------------------
Enqueue(s)  == EnqueueIgnored(s) \/ EnqueueChecksConsumer(s) \/ EnqueueAdds(s)
               \/ EnqueuePosts(s)
HandlerStep == FlushFindsNothing \/ FlushBinds \/ FlushBindFails
MainStep    == OnServiceConnected \/ OnNullBinding \/ GetNextBatch \/ SendingDone
               \/ OnEvent \/ OnEventThrows
Wait(w)     == WaitStarts(w) \/ WaitTimesOut(w) \/ WaitLeavesLock(w) \/ WaitReturns(w)

(* All the events were sent and nothing is pending. *)
Quiescent ==
    /\ accepted = MaxEvents /\ posted = 0 /\ timers = 0 /\ flusher = "idle"
    /\ binding = 0 /\ ~sending
    /\ UNCHANGED vars

Next ==
    \/ \E s \in Senders : Enqueue(s)
    \/ FlushStarts \/ TimerFires \/ HandlerStep
    \/ MainStep
    \/ EnableTestMode \/ DisableTestMode
    \/ \E w \in Waiters : Wait(w)
    \/ Quiescent

Spec == Init /\ [][Next]_vars

(* The threads are scheduled: a call that has entered the buffer code runs  *)
(* on, the looper runs what is posted, the system calls the connection back *)
(* and the main thread goes through its callbacks.  Nothing is assumed of   *)
(* new calls, of waits, of the consumer or of the faults.                   *)
Fairness ==
    /\ \A s \in Senders : WF_vars(EnqueuePosts(s))
    /\ WF_vars(FlushStarts) /\ WF_vars(HandlerStep) /\ WF_vars(MainStep)

FairSpec == Spec /\ Fairness

-----------------------------------------------------------------------------
(* Properties. *)

(* Every variable has its type, and no batch exceeds the capacity. *)
TypeOK ==
    /\ consumer \in BOOLEAN /\ sending \in BOOLEAN /\ stranded \in BOOLEAN
    /\ toggles \in 0..MaxToggles /\ faults \in 0..MaxFaults
    /\ accepted \in 0..MaxEvents /\ waits \in 0..MaxWaits
    /\ buffer \in Seq(1..accepted) /\ delivered \in Seq(1..accepted)
    /\ batch \in Seq(1..accepted) /\ Len(batch) <= Capacity
    /\ lost \in SUBSET (1..accepted)
    /\ calls \in [Senders -> [at : {"idle", "checked", "added"}, flush : BOOLEAN,
                              size : 0..MaxEvents]]
    /\ posted \in Nat /\ timers \in Nat /\ binding \in Nat
    /\ flusher \in {"idle", "configured"}
    /\ wait \in [Waiters -> [at : {"idle", "waiting", "woken", "left"}, from : 0..MaxEvents,
                             left : 0..MaxEvents, clear : BOOLEAN,
                             answer : {"none", "true", "false"}, emptied : BOOLEAN,
                             torn : BOOLEAN]]

(* Nothing is lost but the batch of an onEvent that threw, nothing is sent  *)
(* twice, and the consumer receives events in the order they were queued,   *)
(* across batches and connections.                                          *)
SentOnceInOrder ==
    LET sent == delivered \o batch \o buffer
    IN  /\ \A m, n \in DOMAIN sent : m < n => sent[m] < sent[n]
        /\ ToSet(sent) = (1..accepted) \ lost

(* Someone is on the way to empty the buffer. *)
FlushPending ==
    \/ posted > 0 \/ timers > 0 \/ flusher = "configured"
    \/ binding > 0 \/ sending
    \/ \E s \in Senders : calls[s].at = "added" /\ (FlushNow(s) \/ ArmsTimer(s))

(* Buffered events are never forgotten: unless a flush has given up since   *)
(* the buffer was last emptied, a flush is under way or scheduled.          *)
BufferedEventsCovered == buffer # <<>> /\ ~stranded => FlushPending

(* The faults are over and the consumer stays configured. *)
Calm == consumer /\ toggles = MaxToggles /\ faults = MaxFaults

(* "this event (and all previously queued events) should be sent            *)
(* immediately": once a flush is posted, everything in the buffer, events   *)
(* that earlier failures left behind included, reaches the consumer,        *)
(* without any timer.                                                       *)
FlushSendsEverything ==
    \A e \in 1..MaxEvents :
        Calm /\ posted > 0 /\ e \in ToSet(buffer) ~> e \in ToSet(delivered)

(* With a timer that fires some day, every event reaches the consumer after *)
(* the last fault, unless a flush has given up since the buffer was last    *)
(* emptied: the first event's timer covers those that join it.              *)
EveryEventDelivered ==
    WF_vars(TimerFires) =>
        \A e \in 1..MaxEvents :
            Calm /\ ~stranded /\ e \in ToSet(buffer) ~> e \in ToSet(delivered)

(* waitQueueFlushed reads the buffer outside mLock, and its answers mean    *)
(* something all the same.  True: what was in the buffer when it left mLock *)
(* is gone, unless the read met an array being grown.  Notified: what was   *)
(* there when the call began is gone, whatever the answer, and false is due *)
(* to an event queued since.                                                *)
QueueFlushedAnswer ==
    \A w \in Waiters :
        /\ wait[w].at = "idle" /\ wait[w].answer = "true" /\ ~wait[w].torn
           => \A i \in DOMAIN buffer : buffer[i] > wait[w].left
        /\ wait[w].emptied => \A i \in DOMAIN buffer : buffer[i] > wait[w].from
        /\ wait[w].emptied /\ wait[w].answer = "false" => accepted > wait[w].from

=============================================================================
