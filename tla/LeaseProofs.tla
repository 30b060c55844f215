---------------------------- MODULE LeaseProofs ----------------------------
(***************************************************************************)
(* TaskManager implements MapLease: every step of the daemon, a crash      *)
(* included, grants, denies or returns maps as the lease allows, or leaves *)
(* the lease alone.                                                        *)
(***************************************************************************)
EXTENDS TaskManagerProofs

LEMMA InitLease == Init => Lease!Init
<1> SUFFICES ASSUME Init PROVE Lease!Init
  OBVIOUS
<1>1. TypeOK
  BY InitTypeOK
<1>2. \A t \in Tasks : MapsOf(t) \in SUBSET Maps
  BY <1>1, ConfigFacts
<1>3. \A t \in Tasks : Verdict(t) = "pending"
  BY DEF Init, Verdict, Executing, Terminal
<1> QED
  BY <1>2, <1>3 DEF Lease!Init

-----------------------------------------------------------------------------
(* What each kind of lease step needs of the daemon's step. *)

(* No verdict changes. *)
LEMMA LeaseStutter ==
  ASSUME cfg' = cfg, \A u \in Tasks : Verdict(u)' = Verdict(u)
  PROVE  UNCHANGED Lease!vars
BY ConfigStable DEF Lease!vars

(* The tasks of S leave. *)
LEMMA LeaseLeave ==
  ASSUME cfg' = cfg, NEW S \in SUBSET Tasks,
         \A u \in S : Verdict(u) \in {"pending", "granted"} /\ Verdict(u)' = "over",
         \A u \in Tasks \ S : Verdict(u)' = Verdict(u)
  PROVE  Lease!Next
<1>1. Lease!Leave(S)
  BY ConfigStable DEF Lease!Leave
<1> QED
  BY <1>1 DEF Lease!Next

(* The verdict of one task changes. *)
LEMMA VerdictMove ==
  ASSUME TypeOK, NEW t \in Tasks, NEW l, Goto(t, l)
  PROVE  \A u \in Tasks \ {t} : Verdict(u)' = Verdict(u)
BY DEF TypeOK, Goto, Verdict

LEMMA LeaseGrant ==
  ASSUME TypeOK, MapClaims, NEW t \in Tasks, UpdatePolledMaps(t)
  PROVE  Lease!Next
<1>1. pc[t] = "resolved" /\ cfg' = cfg /\ Goto(t, "setup")
  BY DEF UpdatePolledMaps, clientVars
<1>2. Verdict(t) = "pending" /\ Verdict(t)' = "granted"
  BY <1>1 DEF Verdict, Executing, Terminal, Goto, TypeOK
<1>3. MapsOf(t) \cap polled = {}
  BY DEF UpdatePolledMaps, MapClaims
<1>4. \A u \in Tasks : Verdict(u) = "granted" => MapsOf(t) \cap MapsOf(u) = {}
  BY <1>3 DEF MapClaims, Verdict, Running
<1>5. \A u \in Tasks \ {t} : Verdict(u)' = Verdict(u)
  BY <1>1, VerdictMove
<1>6. \A u \in Tasks : MapsOf(u)' = MapsOf(u)
  BY <1>1, ConfigStable
<1>7. Lease!Grant(t)
  BY <1>2, <1>4, <1>5, <1>6 DEF Lease!Grant, Lease!Overlap
<1> QED
  BY <1>7 DEF Lease!Next

(* A conflict is with a task that really holds one of the maps. *)
LEMMA LeaseDeny ==
  ASSUME TypeOK, MapClaims, NEW t \in Tasks, TaskConflict(t)
  PROVE  Lease!Next
<1>1. pc[t] = "resolved" /\ cfg' = cfg /\ Goto(t, "conflict")
  BY DEF TaskConflict, clientVars
<1>2. Verdict(t) = "pending" /\ Verdict(t)' = "denied"
  BY <1>1 DEF Verdict, Executing, Terminal, Goto, TypeOK
<1>3. \E u \in Tasks : Running(u) /\ MapsOf(t) \cap MapsOf(u) # {}
  BY DEF TaskConflict, MapClaims
<1>4. \E u \in Tasks : Verdict(u) = "granted" /\ MapsOf(t) \cap MapsOf(u) # {}
  BY <1>3 DEF Running, Verdict
<1>5. \A u \in Tasks \ {t} : Verdict(u)' = Verdict(u)
  BY <1>1, VerdictMove
<1>6. \A u \in Tasks : MapsOf(u)' = MapsOf(u)
  BY <1>1, ConfigStable
<1>7. Lease!Deny(t)
  BY <1>2, <1>4, <1>5, <1>6 DEF Lease!Deny, Lease!Overlap
<1> QED
  BY <1>7 DEF Lease!Next

(* One task leaves: it finishes, gives up or panics. *)
LEMMA LeaveOne ==
  ASSUME TypeOK, NEW t \in Tasks, NEW l, Goto(t, l), cfg' = cfg,
         pc[t] \notin Terminal, l \in Terminal \ {"conflict"}
  PROVE  Lease!Next
<1>1. Verdict(t) \in {"pending", "granted"}
  BY DEF Verdict, Terminal
<1>2. pc'[t] = l
  BY DEF Goto, TypeOK
<1>3. Verdict(t)' = "over"
  <2>1. l \notin Executing
    BY DEF Executing, Terminal
  <2> QED
    BY <1>2, <2>1 DEF Verdict
<1>4. \A u \in Tasks \ {t} : Verdict(u)' = Verdict(u)
  BY VerdictMove
<1> DEFINE S == {t}
<1>5. /\ S \in SUBSET Tasks
      /\ \A u \in S : Verdict(u) \in {"pending", "granted"} /\ Verdict(u)' = "over"
      /\ \A u \in Tasks \ S : Verdict(u)' = Verdict(u)
  BY <1>1, <1>3, <1>4
<1> HIDE DEF S
<1> QED
  BY <1>5, LeaseLeave

(* One task moves on within its verdict. *)
LEMMA MoveStutter ==
  ASSUME TypeOK, NEW t \in Tasks, NEW l, Goto(t, l), cfg' = cfg,
         pc[t] \notin Terminal, l \notin Terminal, l \in Executing <=> Running(t)
  PROVE  UNCHANGED Lease!vars
<1>1. Verdict(t)' = Verdict(t)
  BY DEF Verdict, Terminal, Goto, TypeOK, Running
<1>2. \A u \in Tasks \ {t} : Verdict(u)' = Verdict(u)
  BY VerdictMove
<1> QED
  BY <1>1, <1>2, LeaseStutter

LEMMA StayStutter == ASSUME UNCHANGED <<cfg, pc>> PROVE UNCHANGED Lease!vars
BY LeaseStutter DEF Verdict

(* The process goes away: every call in flight leaves. *)
LEMMA GoneLeaves ==
  ASSUME TypeOK, NEW newPc, ProcessGone(newPc),
         \A u \in Tasks : IF pc[u] \in Live THEN newPc[u] \in {"killed", "panicked"}
                          ELSE IF pc[u] = "bound" THEN newPc[u] = "dead"
                          ELSE newPc[u] = pc[u]
  PROVE  Lease!Next
<1> DEFINE S == {u \in Tasks : pc[u] \in Live}
<1>1. cfg' = cfg /\ pc' = newPc
  BY DEF ProcessGone
<1>2. \A u \in S : Verdict(u) \in {"pending", "granted"} /\ Verdict(u)' = "over"
  BY <1>1 DEF Verdict, Live, Executing, Terminal
<1>3. \A u \in Tasks \ S : Verdict(u)' = Verdict(u)
  BY <1>1 DEF Verdict, Live, Executing, Terminal
<1> QED
  BY <1>1, <1>2, <1>3, LeaseLeave

LEMMA PanicLeaves ==
  ASSUME TypeOK, NEW t \in Tasks, Panic(t), pc[t] = "cleanup"
  PROVE  Lease!Next
<1> DEFINE newPc == [KilledPc EXCEPT ![t] = "panicked"]
<1>1. pc[t] \in Live
  BY DEF Live, Executing
<1>2. \A u \in Tasks : newPc[u] = IF u = t THEN "panicked" ELSE KilledPc[u]
  BY DEF KilledPc
<1>3. \A u \in Tasks : KilledPc[u] = IF pc[u] \in Live THEN "killed"
                                     ELSE IF pc[u] = "bound" THEN "dead" ELSE pc[u]
  BY DEF KilledPc
<1>4. ProcessGone(newPc)
  BY DEF Panic
<1> HIDE DEF newPc
<1> QED
  BY <1>1, <1>2, <1>3, <1>4, GoneLeaves

-----------------------------------------------------------------------------

LEMMA ThreadLease ==
  ASSUME TypeOK, MapClaims, NEW t \in Tasks, ThreadStep(t)
  PROVE  Lease!Next \/ UNCHANGED Lease!vars
<1> USE DEF clientVars
<1>1. CASE UpdatePolledMaps(t) BY <1>1, LeaseGrant
<1>2. CASE TaskConflict(t)     BY <1>2, LeaseDeny
<1>3. CASE CleanupPanics(t)    BY <1>3, PanicLeaves DEF CleanupPanics
<1>4. CASE ResolveConfigFails(t) \/ CleanupPolledMaps(t)
  BY <1>4, LeaveOne DEF ResolveConfigFails, CleanupPolledMaps, Terminal
<1>5. CASE UNCHANGED <<cfg, pc>>
  BY <1>5, StayStutter
<1>6. CASE \/ ResolveConfig(t) \/ OpenFilterMapFails(t) \/ WriteFiltersFails(t)
           \/ SetupDone(t) \/ DiscardDone(t)
  BY <1>6, MoveStutter DEF ResolveConfig, OpenFilterMapFails, WriteFiltersFails,
                           SetupDone, DiscardDone, Terminal, Executing, Running
<1>7. CASE \/ DiscardFails(t) \/ AttachFails(t) \/ AttachConversionFails(t)
           \/ SpawnPollers(t) \/ JoinPollers(t) \/ FinishExecute(t)
           \/ FinishExecuteDrainFails(t)
  BY <1>7, MoveStutter DEF DiscardFails, AttachFails, AttachConversionFails, ReturnsError,
                           SpawnPollers, JoinPollers, FinishExecute,
                           FinishExecuteDrainFails, Terminal, Executing, Running
<1> QED
  BY <1>1, <1>2, <1>3, <1>4, <1>5, <1>6, <1>7
     DEF ThreadStep, SetupSkipsProbe, OpenFilterMap, WriteFilters, DiscardMap, AttachProbe

LEMMA ClientLease ==
  ASSUME TypeOK, NEW t \in Tasks, ClientStep(t)
  PROVE  Lease!Next \/ UNCHANGED Lease!vars
<1> USE DEF clientVars, Terminal
<1>1. CASE StartFails(t)     BY <1>1, LeaveOne DEF StartFails
<1>2. CASE Bind(t)           BY <1>2, MoveStutter DEF Bind, Executing, Running
<1>3. CASE StartTasks(t)     BY <1>3, MoveStutter DEF StartTasks, Executing, Running
<1>4. CASE ClientReleases(t) BY <1>4, StayStutter DEF ClientReleases
<1> QED
  BY <1>1, <1>2, <1>3, <1>4 DEF ClientStep

LEMMA NextLease == TypeOK /\ MapClaims /\ [Next]_vars => [Lease!Next]_(Lease!vars)
<1> SUFFICES ASSUME TypeOK, MapClaims, [Next]_vars
             PROVE  Lease!Next \/ UNCHANGED Lease!vars
  OBVIOUS
<1> USE DEF clientVars
<1>1. CASE \E t \in Tasks : ClientStep(t)
  BY <1>1, ClientLease
<1>2. CASE \E t \in Tasks : ThreadStep(t)
  BY <1>2, ThreadLease
<1>3. CASE \E t \in Tasks, m \in Maps : PollReads(t, m) \/ PollEnds(t, m)
  BY <1>3, StayStutter DEF PollReads, PollEnds, PollFinishes, PollReadFails, PollFails
<1>4. CASE \E t \in Tasks : \E i \in 1..NumProbes(t) : ProbeFires(t, i)
  BY <1>4, StayStutter DEF ProbeFires
<1>5. CASE ServiceStop \/ Crash
  <2>1. ProcessGone(KilledPc)
    BY <1>5 DEF ServiceStop, Crash
  <2> QED
    BY <2>1, GoneLeaves DEF KilledPc
<1>6. CASE UNCHANGED vars
  BY <1>6, StayStutter DEF vars
<1> QED
  BY <1>1, <1>2, <1>3, <1>4, <1>5, <1>6 DEF Next, AllDone

(* GlobalState implements the lease for every set of tasks and configs,     *)
(* across panics and crashes: a task gets all its maps or none, and is only *)
(* turned down for a map another running task has.                          *)
THEOREM ImplementsLease == Spec => LeaseSpec
<1>1. Lease!Init /\ [][Lease!Next]_(Lease!vars) => LeaseSpec
  BY DEF LeaseSpec, Lease!Spec
<1> QED
  BY <1>1, InitLease, NextLease, TypeCorrect, ClaimsAccounted, PTL DEF Spec

=============================================================================
