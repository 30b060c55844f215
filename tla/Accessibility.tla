--------------------------- MODULE Accessibility ---------------------------
(***************************************************************************)
(* Runtime permission grants and the accessibility calls that led to them. *)
(* Two BPF programs write to one ring buffer and stamp their records after *)
(* reserving them: the order of the records need not be that of their      *)
(* timestamps.  The handler collects them and, when the task ends, sorts   *)
(* them and writes one atom per grant with the calls of the same uid that  *)
(* preceded it.                                                            *)
(***************************************************************************)
EXTENDS PollLoop

CONSTANTS
    Uids,         \* uids of apps (-1, an unknown package, may be one of them)
    Window        \* A11Y_EVENT_WINDOW

ASSUME AccessibilityAssumption == Window \in Nat \ {0} /\ IsFiniteSet(Uids)

VARIABLES
    events    \* self.events of all uids: collected, and sent with enqueueEvent

accessibilityVars == <<events>>

Kinds == {"grant", "call"}

AccessibilityInit == events = <<>>

-----------------------------------------------------------------------------
(* Mutated forms of operations defined below: each is a plausible bug, and  *)
(* PROJECT.json names the property that rules it out.                       *)

(* The window is one short. *)
InWindowShort(g, e) == g.ts + 1 < e.ts + Window

(* Events are taken in the order of arrival, the last one first. *)
NewestArrival(i, j) == i > j

(* The grant that is open at the end is forgotten. *)
WithoutTheLast(acc) == acc.done

-----------------------------------------------------------------------------
(* The BPF programs. *)

(* grant_runtime_permission or dispatch_gesture hits and reserves a record. *)
ReserveEvent(k, u) ==
    Reserve([kind |-> k, uid |-> u, ts |-> 0]) /\ UNCHANGED accessibilityVars

(* The record is stamped and submitted. *)
SubmitEvent(i) ==
    /\ i \in DOMAIN ring
    /\ SubmitAs(i, [ring[i].data EXCEPT !.ts = clock])
    /\ UNCHANGED accessibilityVars

-----------------------------------------------------------------------------
(* on_item. *)

(* The event of a record is stored under its uid. *)
EventOf(r) == [id |-> r.id, kind |-> r.data.kind, uid |-> r.data.uid, ts |-> r.data.ts]

CollectEvent(kind) ==
    /\ phase = "handling" /\ Head(batch).data.kind = kind
    /\ Collect(<<>>)
    /\ events' = Append(events, EventOf(Head(batch)))

(* Both kinds are sent to the bridge service first. *)
HandlePermissionGrantEvent == CollectEvent("grant")
HandleA11yEvent            == CollectEvent("call")

(* A grant of another permission, or to a package without an enabled        *)
(* accessibility service, is ignored.                                       *)
OnItemIgnored ==
    /\ phase = "handling" /\ Head(batch).data.kind = "grant"
    /\ Collect(<<>>)
    /\ UNCHANGED accessibilityVars

(* The record carries an error or a malformed name, or the bridge service   *)
(* fails.                                                                   *)
OnItemFails ==
    /\ phase = "handling"
    /\ Refuse(<<>>, "TaskExecutionFailed", 0)
    /\ UNCHANGED accessibilityVars

-----------------------------------------------------------------------------
(* on_finished. *)

(* sort_by is stable and descending: equal timestamps stay in order. *)
Before(i, j) == events[i].ts > events[j].ts \/ (events[i].ts = events[j].ts /\ i < j)

InOrder(order) == \A m, n \in DOMAIN order : m < n => Before(order[m], order[n])

Sorted(u) ==
    LET order == CHOOSE o \in SetToSeqs({i \in DOMAIN events : events[i].uid = u}) : InOrder(o)
    IN  [n \in DOMAIN order |-> events[order[n]]]

(* permission_grant_timestamp.saturating_sub(timestamp) < A11Y_EVENT_WINDOW *)
InWindow(g, e) == g.ts < e.ts + Window

(* One round of the loop of associate_events: open holds the most recent    *)
(* grant met, if any, done the ones before it.                              *)
Associate(acc, e) ==
    IF e.kind = "grant"
    THEN [done |-> acc.done \o acc.open,
          open |-> <<[id |-> e.id, uid |-> e.uid, ts |-> e.ts, calls |-> <<>>]>>]
    ELSE IF acc.open # <<>> /\ InWindow(acc.open[1], e)
         THEN [acc EXCEPT !.open[1].calls = Append(@, e)]
         ELSE acc

AllGrants(acc) == acc.done \o acc.open

AssociateEvents(u) ==
    AllGrants(FoldLeft(Associate, [done |-> <<>>, open |-> <<>>], Sorted(u)))

(* The grants of all uids, in the order of a hash map. *)
GrantAtoms(order) ==
    LET grants == FlattenSeq([n \in DOMAIN order |-> AssociateEvents(order[n])])
    IN  [n \in DOMAIN grants |-> [id |-> grants[n].id, what |-> "grant", fields |-> grants[n]]]

(* A write or a conversion may fail: the grants left are not written. *)
OnAccessibilityFinished ==
    /\ \E order \in SetToSeqs(Uids) :
           \/ FinishOk(GrantAtoms(order))
           \/ \E outs \in CutShort(GrantAtoms(order), FALSE) : FinishFails(outs)
    /\ UNCHANGED accessibilityVars

AccessibilityNext ==
    \/ LoopStep /\ UNCHANGED accessibilityVars
    \/ \E k \in Kinds, u \in Uids : ReserveEvent(k, u)
    \/ \E i \in 1..RingCapacity : SubmitEvent(i)
    \/ HandlePermissionGrantEvent \/ HandleA11yEvent \/ OnItemIgnored \/ OnItemFails
    \/ OnAccessibilityFinished

-----------------------------------------------------------------------------
(* Properties. *)

AccessibilityTypeOK ==
    \A e \in ToSet(events) : e.kind \in Kinds /\ e.uid \in Uids /\ e.ts \in 0..MaxTime

(* The atoms written. *)
Reported == {o.fields : o \in {p \in ToSet(out) : p.what = "grant"}}

Finished == mapPath = "Accessibility_output_buf" /\ verdict = "ok"

CollectedGrants == {e \in ToSet(events) : e.kind = "grant"}
CollectedCalls  == {e \in ToSet(events) : e.kind = "call"}

(* "This is to ensure that the preceding a11y events are associated with    *)
(* the correct permission grant": a call reported with a grant was made by  *)
(* the same uid, within the window before it, and no other grant to that    *)
(* uid lies between the two, in whatever order the records arrived.         *)
CallsBelongToTheirGrant ==
    \A a \in Reported : \A c \in ToSet(a.calls) :
        /\ c.kind = "call" /\ c.uid = a.uid
        /\ c.ts <= a.ts /\ a.ts - c.ts < Window
        /\ ~\E g \in CollectedGrants : g.uid = c.uid /\ c.ts < g.ts /\ g.ts < a.ts

(* "Log all runtime permission grants": a handler that finishes has written *)
(* exactly one atom for every grant it collected.                           *)
EveryGrantReported ==
    /\ \A m, n \in DOMAIN out : out[m].what = "grant" /\ out[n].what = "grant"
                                    /\ out[m].id = out[n].id => m = n
    /\ Finished =>
           {a.id : a \in Reported} = {g.id : g \in CollectedGrants}

(* The grants of the uid that come after call c, and the first of them.     *)
LaterGrants(c) == {g \in CollectedGrants : g.uid = c.uid /\ g.ts > c.ts}
FirstLater(c)  == {g \in LaterGrants(c) : \A h \in LaterGrants(c) : g.ts <= h.ts}

(* A collected call is reported with the first grant after it, once, when   *)
(* that grant is within the window (calls at the very time of a grant may   *)
(* be counted to it or not).                                                *)
CallsAreReportedOnce ==
    Finished =>
        \A c \in CollectedCalls :
            (/\ \E g \in FirstLater(c) : g.ts - c.ts < Window
             /\ \A g \in CollectedGrants : g.uid = c.uid => g.ts # c.ts) =>
            /\ \E a \in Reported : c \in ToSet(a.calls)
                                       /\ \E g \in FirstLater(c) : a.id = g.id
            /\ \A a, b \in Reported :
                   c \in ToSet(a.calls) /\ c \in ToSet(b.calls) => a = b

=============================================================================
