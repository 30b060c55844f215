------------------------- MODULE TaskResourceProofs -------------------------
(***************************************************************************)
(* What a task holds while it executes - probes, records, filters - and    *)
(* what it reports, proved for every set of tasks, maps and configs.       *)
(*                                                                         *)
(* The invariants here are conjunctions over tasks.  A thread's step       *)
(* changes the progress of its own task only (ThreadStepLocal), so each    *)
(* proof treats the task that moves, and the process that goes away.       *)
(***************************************************************************)
EXTENDS TaskManagerProofs

(* The progress of task u is untouched. *)
SameTask(u) ==
    /\ pc'[u] = pc[u] /\ written'[u] = written[u] /\ discarded'[u] = discarded[u]
    /\ attached'[u] = attached[u] /\ poller'[u] = poller[u] /\ outcome'[u] = outcome[u]
    /\ failures'[u] = failures[u] /\ reports'[u] = reports[u]

(* The steps of a task thread apart from panics, in two halves. *)
Lifecycle(t) ==
    \/ ResolveConfig(t) \/ ResolveConfigFails(t)
    \/ UpdatePolledMaps(t) \/ TaskConflict(t) \/ CleanupPolledMaps(t)
    \/ SetupSkipsProbe(t) \/ OpenFilterMap(t) \/ OpenFilterMapFails(t)
    \/ WriteFilters(t) \/ WriteFiltersFails(t) \/ SetupDone(t)

Execute(t) ==
    \/ \E m \in Maps : DiscardMap(t, m)
    \/ DiscardDone(t) \/ DiscardFails(t)
    \/ AttachProbe(t) \/ AttachFails(t) \/ AttachConversionFails(t)
    \/ SpawnPollers(t) \/ JoinPollers(t)
    \/ FinishExecute(t) \/ FinishExecuteDrainFails(t)

LEMMA ThreadStepParts ==
  ASSUME NEW t \in Tasks, ThreadStep(t)
  PROVE  Lifecycle(t) \/ Execute(t)
         \/ (Panic(t) /\ pc[t] = "cleanup")
BY DEF ThreadStep, Lifecycle, Execute, CleanupPanics

(* A thread changes the progress of its own task only, and no config. *)
LEMMA LifecycleLocal ==
  ASSUME TypeOK, NEW t \in Tasks, Lifecycle(t)
  PROVE  cfg' = cfg /\ \A u \in Tasks \ {t} : SameTask(u)
<1> USE DEF TypeOK, SameTask, Goto, Fail, procVars, clientVars, execVars, errVars
<1>1. CASE ResolveConfig(t)      BY <1>1 DEF ResolveConfig
<1>2. CASE ResolveConfigFails(t) BY <1>2 DEF ResolveConfigFails
<1>3. CASE UpdatePolledMaps(t)   BY <1>3 DEF UpdatePolledMaps
<1>4. CASE TaskConflict(t)       BY <1>4 DEF TaskConflict
<1>5. CASE CleanupPolledMaps(t)  BY <1>5 DEF CleanupPolledMaps
<1>6. CASE SetupSkipsProbe(t)    BY <1>6 DEF SetupSkipsProbe
<1>7. CASE OpenFilterMap(t)      BY <1>7 DEF OpenFilterMap
<1>8. CASE OpenFilterMapFails(t) BY <1>8 DEF OpenFilterMapFails
<1>9. CASE WriteFilters(t)       BY <1>9 DEF WriteFilters
<1>10. CASE WriteFiltersFails(t) BY <1>10 DEF WriteFiltersFails
<1>11. CASE SetupDone(t)         BY <1>11 DEF SetupDone
<1> QED
  BY <1>1, <1>2, <1>3, <1>4, <1>5, <1>6, <1>7, <1>8, <1>9, <1>10, <1>11 DEF Lifecycle

LEMMA ExecuteLocal ==
  ASSUME TypeOK, NEW t \in Tasks, Execute(t)
  PROVE  cfg' = cfg /\ \A u \in Tasks \ {t} : SameTask(u)
<1> USE DEF TypeOK, SameTask, Goto, Fail, ReturnsError,
            procVars, clientVars, execVars, errVars
<1>1. CASE \E m \in Maps : DiscardMap(t, m) BY <1>1 DEF DiscardMap
<1>2. CASE DiscardDone(t)           BY <1>2 DEF DiscardDone
<1>3. CASE DiscardFails(t)          BY <1>3 DEF DiscardFails
<1>4. CASE AttachProbe(t)           BY <1>4 DEF AttachProbe
<1>5. CASE AttachFails(t)           BY <1>5 DEF AttachFails
<1>6. CASE AttachConversionFails(t) BY <1>6 DEF AttachConversionFails
<1>7. CASE SpawnPollers(t)          BY <1>7 DEF SpawnPollers
<1>8. CASE JoinPollers(t)           BY <1>8 DEF JoinPollers
<1>9. CASE FinishExecute(t)         BY <1>9 DEF FinishExecute
<1>10. CASE FinishExecuteDrainFails(t) BY <1>10 DEF FinishExecuteDrainFails
<1> QED
  BY <1>1, <1>2, <1>3, <1>4, <1>5, <1>6, <1>7, <1>8, <1>9, <1>10 DEF Execute

(* A poll thread changes its own state and the counters of its task. *)
LEMMA PollLocal ==
  ASSUME TypeOK, NEW t \in Tasks, NEW m \in Maps, PollReads(t, m) \/ PollEnds(t, m)
  PROVE  /\ UNCHANGED <<cfg, pc, written, discarded, attached, outcome, filterVars>>
         /\ \A u \in Tasks \ {t} : SameTask(u)
<1> USE DEF TypeOK, SameTask, Fail, procVars, clientVars, execVars, errVars
<1>1. CASE PollReads(t, m)     BY <1>1 DEF PollReads
<1>2. CASE PollFinishes(t, m)  BY <1>2 DEF PollFinishes
<1>3. CASE PollReadFails(t, m) BY <1>3 DEF PollReadFails
<1>4. CASE PollFails(t, m, 0) \/ PollFails(t, m, 1) BY <1>4 DEF PollFails
<1> QED
  BY <1>1, <1>2, <1>3, <1>4 DEF PollEnds

(* A client changes where its own call stands. *)
LEMMA ClientLocal ==
  ASSUME TypeOK, NEW t \in Tasks, ClientStep(t)
  PROVE  /\ UNCHANGED <<cfg, written, discarded, attached, poller, outcome, filterVars,
                        ringVars>>
         /\ \A u \in Tasks \ {t} : SameTask(u)
<1> USE DEF TypeOK, SameTask, Goto, Fail, procVars, clientVars, execVars, errVars
<1>1. CASE Bind(t)           BY <1>1 DEF Bind
<1>2. CASE StartFails(t)     BY <1>2 DEF StartFails
<1>3. CASE StartTasks(t)     BY <1>3 DEF StartTasks
<1>4. CASE ClientReleases(t) BY <1>4 DEF ClientReleases
<1> QED
  BY <1>1, <1>2, <1>3, <1>4 DEF ClientStep

(* The process goes away, with a thread that panics or without. *)
Gone(newPc) ==
    /\ ProcessGone(newPc)
    /\ \A u \in Tasks :
           IF pc[u] \in Live THEN newPc[u] \in {"killed", "panicked"}
           ELSE IF pc[u] = "bound" THEN newPc[u] = "dead" ELSE newPc[u] = pc[u]

LEMMA StopIsGone == ASSUME ServiceStop \/ Crash PROVE \E newPc : Gone(newPc)
<1>1. ProcessGone(KilledPc)
  BY DEF ServiceStop, Crash
<1>2. Gone(KilledPc)
  BY <1>1 DEF Gone, KilledPc
<1> QED
  BY <1>2

(* A thread that panics takes the process with it. *)
LEMMA PanicIsGone ==
  ASSUME TypeOK, NEW t \in Tasks, Panic(t), pc[t] = "cleanup"
  PROVE  \E newPc : Gone(newPc)
<1> DEFINE newPc == [KilledPc EXCEPT ![t] = "panicked"]
<1>1. ProcessGone(newPc)
  BY DEF Panic
<1>2. \A u \in Tasks : newPc[u] = IF u = t THEN "panicked" ELSE KilledPc[u]
  BY DEF KilledPc
<1>3. \A u \in Tasks : KilledPc[u] = IF pc[u] \in Live THEN "killed"
                                     ELSE IF pc[u] = "bound" THEN "dead" ELSE pc[u]
  BY DEF KilledPc
<1>4. pc[t] \in Live
  BY DEF Live, Executing
<1> HIDE DEF newPc
<1>5. Gone(newPc)
  BY <1>1, <1>2, <1>3, <1>4 DEF Gone
<1> QED
  BY <1>5

-----------------------------------------------------------------------------
(* How far a task has come.  Nothing is written or discarded before its     *)
(* step; every map is discarded, and every filter written, before a probe   *)
(* is attached; fds are open only in the steps "attach" and "poll".         *)
Early == {"idle", "bound", "dead", "resolving", "resolved"}

Stage(t) ==
    /\ pc[t] \in Early => written[t] = 0
    /\ pc[t] \in Early \cup {"setup"} => discarded[t] = {}
    /\ discarded[t] \subseteq MapsOf(t)
    /\ pc[t] \in {"discard", "attach", "poll"} => written[t] = NumProbes(t)
    /\ pc[t] \in {"attach", "poll"} => discarded[t] = MapsOf(t)
    /\ attached[t] > 0 => pc[t] \in {"attach", "poll"}

Stages == \A t \in Tasks : Stage(t)

LEMMA InitStages == Init => Stages
BY DEF Init, Stages, Stage

(* Another task's step. *)
LEMMA StageFrame ==
  ASSUME NEW u \in Tasks, Stage(u), cfg' = cfg, SameTask(u)
  PROVE  Stage(u)'
BY ConfigStable DEF Stage, SameTask

(* Moves that keep a task's stage: before, into and out of its execution.   *)
StageMove(from, to) ==
    \/ from \in Early /\ to \in Early \cup {"setup"}
    \/ from \notin {"attach", "poll"} /\ to \in {"cleanup"} \cup Terminal

(* A task moves on, with nothing but its pc changed. *)
LEMMA StageMoves ==
  ASSUME TypeOK, NEW t \in Tasks, NEW l, Stage(t), Goto(t, l), cfg' = cfg,
         UNCHANGED <<written, discarded, attached>>, StageMove(pc[t], l)
  PROVE  Stage(t)'
<1>1. pc'[t] = l /\ attached[t] \in Nat
  BY DEF TypeOK, Goto
<1>2. MapsOf(t)' = MapsOf(t) /\ NumProbes(t)' = NumProbes(t)
  BY ConfigStable
<1>3. attached[t] = 0
  BY <1>1 DEF Stage, StageMove, Early
<1> QED
  BY <1>1, <1>2, <1>3 DEF Stage, StageMove, Early, Terminal

LEMMA LifecycleStage ==
  ASSUME TypeOK, NEW t \in Tasks, Stage(t), Lifecycle(t)
  PROVE  Stage(t)'
<1> USE DEF procVars, clientVars, execVars, Early, Terminal, StageMove
<1>1. cfg' = cfg
  BY LifecycleLocal
<1>2. MapsOf(t)' = MapsOf(t) /\ NumProbes(t)' = NumProbes(t)
  BY <1>1, ConfigStable
<1>3. CASE ResolveConfig(t)      BY <1>1, <1>3, StageMoves DEF ResolveConfig
<1>4. CASE ResolveConfigFails(t) BY <1>1, <1>4, StageMoves DEF ResolveConfigFails
<1>5. CASE UpdatePolledMaps(t)   BY <1>1, <1>5, StageMoves DEF UpdatePolledMaps
<1>6. CASE TaskConflict(t)       BY <1>1, <1>6, StageMoves DEF TaskConflict
<1>7. CASE CleanupPolledMaps(t)  BY <1>1, <1>7, StageMoves DEF CleanupPolledMaps
<1>8. CASE OpenFilterMapFails(t) BY <1>1, <1>8, StageMoves DEF OpenFilterMapFails
<1>9. CASE WriteFiltersFails(t)  BY <1>1, <1>9, StageMoves DEF WriteFiltersFails
<1>10. CASE OpenFilterMap(t)     BY <1>2, <1>10 DEF OpenFilterMap, Stage
<1>11. CASE SetupSkipsProbe(t) \/ WriteFilters(t)
  BY <1>2, <1>11 DEF SetupSkipsProbe, WriteFilters, Stage
<1>12. CASE SetupDone(t)
  BY <1>2, <1>12 DEF SetupDone, Stage, Goto, TypeOK
<1> QED
  BY <1>3, <1>4, <1>5, <1>6, <1>7, <1>8, <1>9, <1>10, <1>11, <1>12 DEF Lifecycle

LEMMA ExecuteStage ==
  ASSUME TypeOK, NEW t \in Tasks, Stage(t), Execute(t)
  PROVE  Stage(t)'
<1> USE DEF procVars, clientVars, execVars, Early, Terminal, StageMove, TypeOK
<1>1. cfg' = cfg
  BY ExecuteLocal
<1>2. MapsOf(t)' = MapsOf(t) /\ NumProbes(t)' = NumProbes(t)
  BY <1>1, ConfigStable
<1>3. CASE \E m \in Maps : DiscardMap(t, m)
  BY <1>2, <1>3 DEF DiscardMap, Stage
<1>4. CASE DiscardDone(t)
  BY <1>2, <1>4 DEF DiscardDone, Stage, Goto
<1>5. CASE DiscardFails(t) \/ AttachFails(t) \/ AttachConversionFails(t)
  <2>1. attached'[t] = 0 /\ pc'[t] = "finish" /\ UNCHANGED <<written, discarded>>
    BY <1>5 DEF DiscardFails, AttachFails, AttachConversionFails, ReturnsError, Goto
  <2> QED
    BY <1>2, <2>1 DEF Stage
<1>6. CASE AttachProbe(t)
  BY <1>2, <1>6 DEF AttachProbe, Stage
<1>7. CASE SpawnPollers(t)
  BY <1>2, <1>7 DEF SpawnPollers, Stage, Goto
<1>8. CASE JoinPollers(t)
  <2>1. attached'[t] = 0 /\ pc'[t] = "finish" /\ UNCHANGED <<written, discarded>>
    BY <1>8 DEF JoinPollers, Goto
  <2> QED
    BY <1>2, <2>1 DEF Stage
<1>9. CASE FinishExecute(t) \/ FinishExecuteDrainFails(t)
  BY <1>1, <1>9, StageMoves DEF FinishExecute, FinishExecuteDrainFails
<1> QED
  BY <1>3, <1>4, <1>5, <1>6, <1>7, <1>8, <1>9 DEF Execute

LEMMA GoneStage ==
  ASSUME TypeOK, NEW newPc, Gone(newPc), NEW u \in Tasks, Stage(u)
  PROVE  Stage(u)'
<1>1. /\ pc' = newPc /\ attached'[u] = 0 /\ UNCHANGED <<cfg, written, discarded>>
  BY DEF Gone, ProcessGone
<1>2. MapsOf(u)' = MapsOf(u) /\ NumProbes(u)' = NumProbes(u)
  BY <1>1, ConfigStable
<1>3. newPc[u] \in {"killed", "panicked", "dead"} \/ newPc[u] = pc[u]
  BY DEF Gone
<1>4. newPc[u] = "dead" => pc[u] \in {"bound", "dead"}
  BY DEF Gone, Live, Executing
<1> QED
  BY <1>1, <1>2, <1>3, <1>4 DEF Stage, Early

LEMMA NextStages == TypeOK /\ Stages /\ [Next]_vars => Stages'
<1> SUFFICES ASSUME TypeOK, Stages, [Next]_vars, NEW u \in Tasks PROVE Stage(u)'
  BY DEF Stages
<1>1. Stage(u)
  BY DEF Stages
<1>2. ASSUME NEW newPc, Gone(newPc) PROVE Stage(u)'
  BY <1>1, <1>2, GoneStage
<1>3. ASSUME NEW t \in Tasks, ClientStep(t) PROVE Stage(u)'
  <2>1. CASE u # t
    BY <1>1, <1>3, <2>1, ClientLocal, StageFrame
  <2>2. CASE u = t
    <3>1. cfg' = cfg /\ UNCHANGED <<written, discarded, attached>>
      BY <1>3, ClientLocal
    <3>2. CASE ClientReleases(t)
      <4>1. UNCHANGED pc
        BY <3>2 DEF ClientReleases
      <4> QED
        BY <1>1, <2>2, <3>1, <4>1, ConfigStable DEF Stage
    <3>3. CASE Bind(t) \/ StartFails(t) \/ StartTasks(t)
      BY <1>1, <2>2, <3>1, <3>3, StageMoves
         DEF Bind, StartFails, StartTasks, StageMove, Early, Terminal
    <3> QED
      BY <1>3, <3>2, <3>3 DEF ClientStep
  <2> QED
    BY <2>1, <2>2
<1>4. ASSUME NEW t \in Tasks, Lifecycle(t) \/ Execute(t) PROVE Stage(u)'
  <2>1. CASE u # t
    BY <1>1, <1>4, <2>1, LifecycleLocal, ExecuteLocal, StageFrame
  <2>2. CASE u = t
    BY <1>1, <1>4, <2>2, LifecycleStage, ExecuteStage
  <2> QED
    BY <2>1, <2>2
<1>5. ASSUME NEW t \in Tasks, Panic(t), pc[t] = "cleanup" PROVE Stage(u)'
  BY <1>2, <1>5, PanicIsGone
<1>6. ASSUME NEW t \in Tasks, ThreadStep(t) PROVE Stage(u)'
  BY <1>4, <1>5, <1>6, ThreadStepParts
<1>7. CASE UNCHANGED <<cfg, pc, written, discarded, attached>>
  BY <1>1, <1>7, ConfigStable DEF Stage
<1>8. CASE \E t \in Tasks, m \in Maps : PollReads(t, m) \/ PollEnds(t, m)
  BY <1>7, <1>8, PollLocal
<1>9. CASE \E t \in Tasks : \E i \in 1..NumProbes(t) : ProbeFires(t, i)
  BY <1>7, <1>9 DEF ProbeFires, clientVars, execVars
<1>10. CASE ServiceStop \/ Crash
  BY <1>2, <1>10, StopIsGone
<1>11. CASE UNCHANGED vars
  BY <1>7, <1>11 DEF vars, clientVars, execVars
<1> QED
  BY <1>3, <1>6, <1>8, <1>9, <1>10, <1>11 DEF Next, AllDone

LEMMA AlwaysStages == Spec => []Stages
BY TypeCorrect, InitStages, NextStages, PTL DEF Spec

(* Fds are only open in the attach and poll phases of a task that still     *)
(* claims its maps: they are closed before the filters are drained and      *)
(* before cleanup_polled_bpf_maps gives the maps to somebody else.          *)
THEOREM ProbesClaimed == Spec => []LiveProbesAreClaimed
<1>1. MapClaims /\ Stages => LiveProbesAreClaimed
  BY DEF MapClaims, Stages, Stage, LiveProbesAreClaimed, Running, Executing
<1> QED
  BY <1>1, ClaimsAccounted, AlwaysStages, PTL

-----------------------------------------------------------------------------
(* Records.  From the moment a task has discarded a map until it leaves the *)
(* poll loops, the map's ring buffer holds records of its own probes only:  *)
(* no other task that claims the map is there to write to it.               *)
Collecting == {"discard", "attach", "poll"}

Clean(t) == /\ pc[t] \in Collecting => \A m \in discarded[t] : ring[m] \subseteq {t}
            /\ seen[t] \subseteq {t}

OwnRecords == \A t \in Tasks : Clean(t)

LEMMA InitOwnRecords == Init => OwnRecords
BY DEF Init, OwnRecords, Clean

(* No record is written or read; the task stays, or starts to discard. *)
LEMMA CleanFrame ==
  ASSUME NEW u \in Tasks, Stage(u), Clean(u), UNCHANGED ringVars,
         pc'[u] \in Collecting => pc[u] \in Collecting \cup {"setup"},
         discarded'[u] = discarded[u]
  PROVE  Clean(u)'
<1>1. pc[u] = "setup" => discarded[u] = {}
  BY DEF Stage
<1> QED
  BY <1>1 DEF Clean, ringVars, Collecting

LEMMA LifecycleClean ==
  ASSUME TypeOK, Stages, OwnRecords, NEW t \in Tasks, Lifecycle(t), NEW u \in Tasks
  PROVE  Clean(u)'
<1>1. Stage(u) /\ Clean(u)
  BY DEF Stages, OwnRecords
<1>2. UNCHANGED <<discarded, ringVars>>
  BY DEF Lifecycle, ResolveConfig, ResolveConfigFails, UpdatePolledMaps, TaskConflict,
         CleanupPolledMaps, SetupSkipsProbe, OpenFilterMap, OpenFilterMapFails,
         WriteFilters, WriteFiltersFails, SetupDone, execVars
<1>3. CASE u # t
  BY <1>1, <1>2, <1>3, LifecycleLocal, CleanFrame DEF SameTask
<1>4. CASE u = t
  <2>1. pc'[t] \in Collecting => pc[t] \in Collecting \cup {"setup"}
    BY DEF Lifecycle, ResolveConfig, ResolveConfigFails, UpdatePolledMaps, TaskConflict,
           CleanupPolledMaps, SetupSkipsProbe, OpenFilterMap, OpenFilterMapFails,
           WriteFilters, WriteFiltersFails, SetupDone, Goto, TypeOK, Collecting
  <2> QED
    BY <1>1, <1>2, <1>4, <2>1, CleanFrame
<1> QED
  BY <1>3, <1>4

LEMMA DiscardClean ==
  ASSUME TypeOK, OwnRecords, NEW t \in Tasks, NEW m \in Maps, DiscardMap(t, m),
         NEW u \in Tasks
  PROVE  Clean(u)'
<1>1. /\ ring' = [ring EXCEPT ![m] = {}] /\ UNCHANGED <<pc, seen>>
      /\ discarded' = [discarded EXCEPT ![t] = @ \cup {m}]
  BY DEF DiscardMap
<1>2. ring'[m] = {} /\ \A k \in Maps : ring'[k] \subseteq ring[k]
  BY <1>1 DEF TypeOK
<1>3. discarded'[u] \subseteq discarded[u] \cup {m} /\ discarded[u] \subseteq Maps
  BY <1>1 DEF TypeOK
<1>4. Clean(u)
  BY DEF OwnRecords
<1> QED
  BY <1>1, <1>2, <1>3, <1>4 DEF Clean

LEMMA ExecuteClean ==
  ASSUME TypeOK, Stages, OwnRecords, NEW t \in Tasks, Execute(t), NEW u \in Tasks
  PROVE  Clean(u)'
<1>1. Stage(u) /\ Clean(u)
  BY DEF Stages, OwnRecords
<1>2. CASE \E m \in Maps : DiscardMap(t, m)
  BY <1>2, DiscardClean
<1>3. CASE ~\E m \in Maps : DiscardMap(t, m)
  <2>1. UNCHANGED <<discarded, ringVars>>
    BY <1>3 DEF Execute, DiscardDone, DiscardFails, AttachProbe, AttachFails,
                AttachConversionFails, SpawnPollers, JoinPollers, FinishExecute,
                FinishExecuteDrainFails, execVars
  <2>2. pc[t] \in Collecting \cup {"finish"} /\ (pc[t] = "finish" => pc'[t] = "cleanup")
    BY <1>3 DEF Execute, DiscardDone, DiscardFails, AttachProbe, AttachFails,
                AttachConversionFails, SpawnPollers, JoinPollers, FinishExecute,
                FinishExecuteDrainFails, Collecting, Goto, TypeOK
  <2>3. CASE u # t
    BY <1>1, <2>1, <2>3, ExecuteLocal, CleanFrame DEF SameTask
  <2>4. CASE u = t
    <3>1. pc'[t] \in Collecting => pc[t] \in Collecting \cup {"setup"}
      BY <2>2 DEF Collecting
    <3> QED
      BY <1>1, <2>1, <2>4, <3>1, CleanFrame
  <2> QED
    BY <2>3, <2>4
<1> QED
  BY <1>2, <1>3

(* A probe writes to a map its own task claims: to nobody else's. *)
LEMMA FireClean ==
  ASSUME WellFormedConfigs, TypeOK, MapClaims, Stages, OwnRecords,
         NEW t \in Tasks, NEW i \in 1..NumProbes(t), ProbeFires(t, i), NEW u \in Tasks
  PROVE  Clean(u)'
<1> DEFINE out == ProbesOf(t)[i].out
<1>1. out \in Maps
  BY ConfigFacts
<1>2. out \in MapsOf(t)
  BY DEF WellFormedConfigs, TypeOK, ProbesOf, MapsOf, NumProbes
<1> HIDE DEF out
<1>3. /\ ring' = [ring EXCEPT ![out] = @ \cup {t}] /\ UNCHANGED <<pc, seen, discarded>>
  BY DEF ProbeFires, execVars, out
<1>4. \A k \in Maps : ring'[k] = IF k = out THEN ring[k] \cup {t} ELSE ring[k]
  BY <1>1, <1>3 DEF TypeOK
<1>5. attached[t] > 0
  BY DEF ProbeFires, TypeOK
<1>6. Running(t)
  BY <1>5 DEF Stages, Stage, Running, Executing
<1>7. u # t /\ pc[u] \in Collecting => out \notin discarded[u]
  <2> SUFFICES ASSUME u # t, pc[u] \in Collecting PROVE out \notin discarded[u]
    OBVIOUS
  <2>1. Running(u)
    BY DEF Running, Executing, Collecting
  <2>2. MapsOf(t) \cap MapsOf(u) = {}
    BY <1>6, <2>1 DEF MapClaims
  <2>3. discarded[u] \subseteq MapsOf(u)
    BY DEF Stages, Stage
  <2> QED
    BY <1>2, <2>2, <2>3
<1>8. Clean(u) /\ discarded[u] \subseteq Maps
  BY DEF OwnRecords, TypeOK
<1> QED
  BY <1>3, <1>4, <1>7, <1>8 DEF Clean

(* A poll thread hands its task what is in a ring buffer the task owns. *)
LEMMA PollClean ==
  ASSUME TypeOK, MapClaims, Stages, OwnRecords, NEW t \in Tasks, NEW m \in Maps,
         PollReads(t, m) \/ PollEnds(t, m), NEW u \in Tasks
  PROVE  Clean(u)'
<1>1. Stage(u) /\ Clean(u) /\ Stage(t) /\ Clean(t)
  BY DEF Stages, OwnRecords
<1>2. UNCHANGED <<pc, discarded>>
  BY PollLocal
<1>3. CASE UNCHANGED ringVars
  BY <1>1, <1>2, <1>3 DEF Clean, ringVars
<1>4. CASE PollReads(t, m) \/ PollReadFails(t, m)
  <2>1. /\ poller[t][m] = "polling"
        /\ seen' = [seen EXCEPT ![t] = @ \cup ring[m]] /\ ring' = [ring EXCEPT ![m] = {}]
    BY <1>4 DEF PollReads, PollReadFails
  <2>2. pc[t] = "poll" /\ m \in MapsOf(t)
    BY <2>1 DEF MapClaims
  <2>3. ring[m] \subseteq {t}
    BY <1>1, <2>2 DEF Stage, Clean, Collecting
  <2>4. seen'[u] \subseteq {u}
    BY <1>1, <2>1, <2>3 DEF Clean, TypeOK
  <2>5. \A k \in Maps : ring'[k] \subseteq ring[k]
    BY <2>1 DEF TypeOK
  <2>6. discarded[u] \subseteq Maps
    BY DEF TypeOK
  <2> QED
    BY <1>1, <1>2, <2>4, <2>5, <2>6 DEF Clean
<1> QED
  BY <1>3, <1>4 DEF PollEnds, PollFinishes, PollFails

LEMMA GoneClean ==
  ASSUME NEW newPc, Gone(newPc), NEW u \in Tasks, Clean(u)
  PROVE  Clean(u)'
<1>1. pc' = newPc /\ UNCHANGED ringVars
  BY DEF Gone, ProcessGone
<1>2. newPc[u] \notin Collecting
  BY DEF Gone, Collecting, Live, Executing
<1> QED
  BY <1>1, <1>2 DEF Clean, ringVars

LEMMA NextOwnRecords ==
  ASSUME WellFormedConfigs
  PROVE  TypeOK /\ MapClaims /\ Stages /\ OwnRecords /\ [Next]_vars => OwnRecords'
<1> SUFFICES ASSUME TypeOK, MapClaims, Stages, OwnRecords, [Next]_vars, NEW u \in Tasks
             PROVE  Clean(u)'
  BY DEF OwnRecords
<1>1. Stage(u) /\ Clean(u)
  BY DEF Stages, OwnRecords
<1>2. ASSUME NEW newPc, Gone(newPc) PROVE Clean(u)'
  BY <1>1, <1>2, GoneClean
<1>3. ASSUME NEW t \in Tasks, ClientStep(t) PROVE Clean(u)'
  <2>1. UNCHANGED <<discarded, ringVars>>
    BY <1>3, ClientLocal
  <2>2. CASE u # t
    BY <1>1, <1>3, <2>1, <2>2, ClientLocal, CleanFrame DEF SameTask
  <2>3. CASE u = t
    <3>1. pc'[u] \in Collecting => pc[u] \in Collecting \cup {"setup"}
      BY <1>3, <2>3 DEF ClientStep, Bind, StartFails, StartTasks, ClientReleases, Goto,
                        TypeOK, Collecting
    <3> QED
      BY <1>1, <2>1, <3>1, CleanFrame
  <2> QED
    BY <2>2, <2>3
<1>4. ASSUME NEW t \in Tasks, Panic(t), pc[t] = "cleanup" PROVE Clean(u)'
  BY <1>2, <1>4, PanicIsGone
<1>5. ASSUME NEW t \in Tasks, ThreadStep(t) PROVE Clean(u)'
  BY <1>4, <1>5, ThreadStepParts, LifecycleClean, ExecuteClean
<1>6. CASE \E t \in Tasks, m \in Maps : PollReads(t, m) \/ PollEnds(t, m)
  BY <1>6, PollClean
<1>7. CASE \E t \in Tasks : \E i \in 1..NumProbes(t) : ProbeFires(t, i)
  BY <1>7, FireClean
<1>8. CASE ServiceStop \/ Crash
  BY <1>2, <1>8, StopIsGone
<1>9. CASE UNCHANGED vars
  BY <1>1, <1>9 DEF Clean, vars, execVars, ringVars
<1> QED
  BY <1>3, <1>5, <1>6, <1>7, <1>8, <1>9 DEF Next, AllDone

(* "Discard maps before attaching probes to ensure a clean slate": when     *)
(* every probe writes to a map its config polls, no handler is ever given a *)
(* record of another task's probe, whatever tasks run, crash or fail.       *)
THEOREM CleanSlate == Spec => []NoForeignRecords
<1>1. CASE WellFormedConfigs
  <2>1. TypeOK /\ MapClaims /\ Stages /\ OwnRecords /\ [Next]_vars => OwnRecords'
    BY <1>1, NextOwnRecords
  <2>2. OwnRecords => NoForeignRecords
    BY DEF OwnRecords, Clean, NoForeignRecords
  <2> QED
    BY <2>1, <2>2, InitOwnRecords, TypeCorrect, ClaimsAccounted, AlwaysStages, PTL DEF Spec
<1>2. CASE ~WellFormedConfigs
  <2>1. TypeOK => NoForeignRecords
    BY <1>2 DEF NoForeignRecords
  <2> QED
    BY <2>1, TypeCorrect, PTL
<1> QED
  BY <1>1, <1>2

-----------------------------------------------------------------------------
(* The binder interface filter map. *)

Holding == {"setup", "discard", "attach", "poll", "finish"}

(* A task holds the exclusive handle in the steps of execute only, and one  *)
(* that has not opened it has met no filters.                               *)
FilterHolder(t) ==
    /\ t \in flock => pc[t] \in Holding
    /\ pc[t] \in Holding /\ t \notin flock => WrittenKeys(t) = {}

(* FilterMapAccounted, for one holder or none. *)
Accounted ==
    /\ \A t, u \in flock : t = u
    /\ flock = {} => filters = residue
    /\ \A t \in flock : filters = residue \cup WrittenKeys(t)

FilterInv == Accounted /\ \A t \in Tasks : FilterHolder(t)

LEMMA AccountedParts == TypeOK /\ FilterInv => FilterMapAccounted
<1> SUFFICES ASSUME TypeOK, FilterInv PROVE FilterMapAccounted
  OBVIOUS
<1> Accounted
  BY DEF FilterInv
<1>1. \A t \in flock : pc[t] \in Holding
  BY DEF TypeOK, FilterInv, FilterHolder
<1> USE <1>1 DEF Holding
<1>2. CASE flock = {}
  BY <1>2 DEF Accounted, FilterMapAccounted
<1>3. CASE flock # {}
  <2>1. PICK t : t \in flock
    BY <1>3
  <2>2. flock = {t}
    BY <2>1 DEF Accounted
  <2>3. UNION {WrittenKeys(u) : u \in flock} = WrittenKeys(t)
    BY <2>2
  <2> QED
    BY <2>1, <2>2, <2>3 DEF Accounted, FilterMapAccounted
<1> QED
  BY <1>2, <1>3

(* The keys written grow by the filters of the probe handled. *)
LEMMA KeysFrame ==
  ASSUME NEW t \in Tasks, cfg' = cfg, written'[t] = written[t]
  PROVE  WrittenKeys(t)' = WrittenKeys(t)
BY ConfigStable DEF WrittenKeys

LEMMA KeysGrow ==
  ASSUME TypeOK, NEW t \in Tasks, cfg' = cfg, written' = [written EXCEPT ![t] = @ + 1]
  PROVE  WrittenKeys(t)' = WrittenKeys(t) \cup NextFilters(t)
<1>1. written[t] \in Nat /\ written'[t] = written[t] + 1
  BY DEF TypeOK
<1>2. 1..(written[t] + 1) = 1..written[t] \cup {written[t] + 1}
  BY <1>1
<1>3. ProbesOf(t)' = ProbesOf(t)
  BY ConfigStable
<1>4. WrittenKeys(t)' = UNION {ProbesOf(t)[i].filters : i \in 1..(written[t] + 1)}
  BY <1>1, <1>3 DEF WrittenKeys
<1> QED
  BY <1>2, <1>4 DEF WrittenKeys, NextFilters

LEMMA NoKeysYet == ASSUME NEW t \in Tasks, written[t] = 0 PROVE WrittenKeys(t) = {}
BY DEF WrittenKeys

LEMMA InitFilterInv == Init => FilterInv
<1> SUFFICES ASSUME Init PROVE FilterInv
  OBVIOUS
<1>1. Accounted
  BY DEF Init, Accounted
<1>2. \A t \in Tasks : FilterHolder(t)
  BY DEF Init, FilterHolder, Holding
<1> QED
  BY <1>1, <1>2 DEF FilterInv

(* The map, and what has been written to it, stay. *)
LEMMA AccountedFrame ==
  ASSUME Accounted, flock \subseteq Tasks, UNCHANGED <<cfg, flock, filters, residue>>,
         \A u \in flock : written'[u] = written[u]
  PROVE  Accounted'
<1>1. \A u \in flock : WrittenKeys(u)' = WrittenKeys(u)
  BY KeysFrame
<1> QED
  BY <1>1 DEF Accounted

(* A task moves within its side of execute. *)
LEMMA HolderFrame ==
  ASSUME NEW u \in Tasks, FilterHolder(u), cfg' = cfg, written'[u] = written[u],
         u \in flock' <=> u \in flock, pc'[u] \in Holding <=> pc[u] \in Holding
  PROVE  FilterHolder(u)'
<1>1. WrittenKeys(u)' = WrittenKeys(u)
  BY KeysFrame
<1> QED
  BY <1>1 DEF FilterHolder

(* The handle is closed, with filters and residue equal. *)
LEMMA CloseFilters ==
  ASSUME TypeOK, FilterInv, NEW t \in Tasks, t \in flock, flock' = flock \ {t},
         filters' = residue', cfg' = cfg, written' = written,
         Goto(t, "cleanup"), pc[t] \in Holding
  PROVE  FilterInv'
<1>1. flock' = {}
  BY DEF FilterInv, Accounted
<1>2. Accounted'
  BY <1>1 DEF Accounted
<1>3. ASSUME NEW u \in Tasks PROVE FilterHolder(u)'
  <2>1. CASE u = t
    BY <1>1, <2>1 DEF FilterHolder, Goto, TypeOK, Holding
  <2>2. CASE u # t
    <3>1. FilterHolder(u) /\ u \notin flock
      BY <2>2 DEF FilterInv, Accounted
    <3>2. pc'[u] = pc[u]
      BY <2>2 DEF Goto, TypeOK
    <3> QED
      BY <1>1, <3>1, <3>2, HolderFrame
  <2> QED
    BY <2>1, <2>2
<1> QED
  BY <1>2, <1>3 DEF FilterInv

(* The map is left alone, and every task stays on its side of execute. *)
LEMMA StayFilters ==
  ASSUME TypeOK, FilterInv, UNCHANGED <<cfg, written, flock, filters, residue>>,
         \A u \in Tasks : pc'[u] \in Holding <=> pc[u] \in Holding
  PROVE  FilterInv'
<1>1. Accounted'
  BY AccountedFrame DEF FilterInv, TypeOK
<1>2. \A u \in Tasks : FilterHolder(u)'
  BY HolderFrame DEF FilterInv
<1> QED
  BY <1>1, <1>2 DEF FilterInv

(* A task that does not hold the handle enters or leaves execute.           *)
LEMMA MoveFilters ==
  ASSUME TypeOK, FilterInv, NEW t \in Tasks, NEW l, Goto(t, l), t \notin flock,
         UNCHANGED <<cfg, written, flock, filters, residue>>,
         l \notin Holding \/ written[t] = 0
  PROVE  FilterInv'
<1>1. Accounted'
  BY AccountedFrame DEF FilterInv, TypeOK
<1>2. ASSUME NEW u \in Tasks PROVE FilterHolder(u)'
  <2>1. WrittenKeys(u)' = WrittenKeys(u)
    BY KeysFrame
  <2>2. CASE u = t
    BY <2>1, <2>2, NoKeysYet DEF FilterHolder, Goto, TypeOK
  <2>3. CASE u # t
    <3>1. FilterHolder(u) /\ pc'[u] = pc[u]
      BY <2>3 DEF FilterInv, Goto, TypeOK
    <3> QED
      BY <3>1, HolderFrame
  <2> QED
    BY <2>2, <2>3
<1> QED
  BY <1>1, <1>2 DEF FilterInv

(* The filters of one more probe are handled. *)
LEMMA WriteFilterInv ==
  ASSUME TypeOK, FilterInv, NEW t \in Tasks, SetupSkipsProbe(t) \/ WriteFilters(t)
  PROVE  FilterInv'
<1>1. /\ cfg' = cfg /\ written' = [written EXCEPT ![t] = @ + 1]
      /\ UNCHANGED <<pc, flock, residue>> /\ filters' = filters \cup NextFilters(t)
      /\ NextFilters(t) # {} => t \in flock
  BY DEF SetupSkipsProbe, WriteFilters, clientVars, filterVars
<1>2. WrittenKeys(t)' = WrittenKeys(t) \cup NextFilters(t)
  BY <1>1, KeysGrow
<1>3. \A u \in Tasks \ {t} : WrittenKeys(u)' = WrittenKeys(u)
  BY <1>1, KeysFrame DEF TypeOK
<1>4. Accounted'
  <2>1. CASE t \in flock
    <3>1. flock = {t}
      BY <2>1 DEF FilterInv, Accounted
    <3> QED
      BY <1>1, <1>2, <3>1 DEF FilterInv, Accounted
  <2>2. CASE t \notin flock
    BY <1>1, <1>2, <1>3, <2>2 DEF FilterInv, Accounted, TypeOK
  <2> QED
    BY <2>1, <2>2
<1>5. \A u \in Tasks : FilterHolder(u)'
  BY <1>1, <1>2, <1>3 DEF FilterInv, FilterHolder
<1> QED
  BY <1>4, <1>5 DEF FilterInv

LEMMA OpenFilterInv ==
  ASSUME TypeOK, FilterInv, NEW t \in Tasks, OpenFilterMap(t)
  PROVE  FilterInv'
<1>1. /\ cfg' = cfg /\ UNCHANGED <<pc, written, filters, residue>>
      /\ pc[t] = "setup" /\ flock = {} /\ flock' = {t}
  BY DEF OpenFilterMap, clientVars, execVars
<1>2. \A u \in Tasks : WrittenKeys(u)' = WrittenKeys(u)
  BY <1>1, KeysFrame
<1>3. WrittenKeys(t) = {}
  BY <1>1 DEF FilterInv, FilterHolder, Holding
<1>4. Accounted'
  BY <1>1, <1>2, <1>3 DEF FilterInv, Accounted
<1>5. \A u \in Tasks : FilterHolder(u)'
  BY <1>1, <1>2 DEF FilterInv, FilterHolder, Holding
<1> QED
  BY <1>4, <1>5 DEF FilterInv

LEMMA LifecycleFilters ==
  ASSUME TypeOK, Stages, FilterInv, NEW t \in Tasks, Lifecycle(t)
  PROVE  FilterInv'
<1> USE DEF procVars, clientVars, execVars, filterVars
<1>1. FilterHolder(t) /\ Stage(t)
  BY DEF FilterInv, Stages
<1>2. CASE ResolveConfig(t) \/ ResolveConfigFails(t) \/ UpdatePolledMaps(t)
           \/ TaskConflict(t) \/ CleanupPolledMaps(t) \/ OpenFilterMapFails(t)
  <2>1. t \notin flock
    BY <1>1, <1>2 DEF ResolveConfig, ResolveConfigFails, UpdatePolledMaps, TaskConflict,
                      CleanupPolledMaps, OpenFilterMapFails, FilterHolder, Holding
  <2>2. UNCHANGED <<cfg, written, flock, filters, residue>>
    BY <1>2 DEF ResolveConfig, ResolveConfigFails, UpdatePolledMaps, TaskConflict,
                CleanupPolledMaps, OpenFilterMapFails
  <2>3. PICK l : Goto(t, l) /\ (l \notin Holding \/ written[t] = 0)
    BY <1>1, <1>2 DEF ResolveConfig, ResolveConfigFails, UpdatePolledMaps, TaskConflict,
                      CleanupPolledMaps, OpenFilterMapFails, Holding, Stage, Early
  <2> QED
    BY <2>1, <2>2, <2>3, MoveFilters
<1>3. CASE SetupSkipsProbe(t) \/ WriteFilters(t)
  BY <1>3, WriteFilterInv
<1>4. CASE OpenFilterMap(t)
  BY <1>4, OpenFilterInv
<1>5. CASE WriteFiltersFails(t)
  BY <1>5, CloseFilters DEF WriteFiltersFails, Drain, Holding
<1>6. CASE SetupDone(t)
  <2>1. \A u \in Tasks : pc'[u] \in Holding <=> pc[u] \in Holding
    BY <1>6 DEF SetupDone, Goto, TypeOK, Holding
  <2> QED
    BY <1>6, <2>1, StayFilters DEF SetupDone
<1> QED
  BY <1>2, <1>3, <1>4, <1>5, <1>6 DEF Lifecycle

LEMMA ExecuteFilters ==
  ASSUME TypeOK, FilterInv, NEW t \in Tasks, Execute(t)
  PROVE  FilterInv'
<1> USE DEF procVars, clientVars, execVars, filterVars
<1>1. CASE FinishExecute(t) /\ t \notin flock
  BY <1>1, MoveFilters DEF FinishExecute, Holding
<1>2. CASE FinishExecute(t) /\ t \in flock
  BY <1>2, CloseFilters DEF FinishExecute, Drain, Holding
<1>3. CASE FinishExecuteDrainFails(t)
  BY <1>3, CloseFilters DEF FinishExecuteDrainFails, Drain, Holding
<1>4. CASE /\ ~FinishExecute(t) /\ ~FinishExecuteDrainFails(t)
  <2>1. UNCHANGED <<cfg, written, flock, filters, residue>>
    BY <1>4 DEF Execute, DiscardMap, DiscardDone, DiscardFails, AttachProbe, AttachFails,
                AttachConversionFails, SpawnPollers, JoinPollers
  <2>2. pc[t] \in Holding /\ pc'[t] \in Holding
    BY <1>4 DEF Execute, DiscardMap, DiscardDone, DiscardFails, AttachProbe, AttachFails,
                AttachConversionFails, SpawnPollers, JoinPollers, ReturnsError, Goto,
                TypeOK, Holding
  <2>3. \A u \in Tasks : pc'[u] \in Holding <=> pc[u] \in Holding
    BY <2>2, ExecuteLocal DEF SameTask
  <2> QED
    BY <2>1, <2>3, StayFilters
<1> QED
  BY <1>1, <1>2, <1>3, <1>4

LEMMA GoneFilters == ASSUME NEW newPc, Gone(newPc) PROVE FilterInv'
<1>1. flock' = {} /\ residue' = filters /\ filters' = filters /\ pc' = newPc
  BY DEF Gone, ProcessGone
<1>2. \A u \in Tasks : newPc[u] \notin Holding
  BY DEF Gone, Holding, Live, Executing
<1>3. Accounted'
  BY <1>1 DEF Accounted
<1>4. \A u \in Tasks : FilterHolder(u)'
  BY <1>1, <1>2 DEF FilterHolder
<1> QED
  BY <1>3, <1>4 DEF FilterInv

LEMMA NextFilterInv == TypeOK /\ Stages /\ FilterInv /\ [Next]_vars => FilterInv'
<1> SUFFICES ASSUME TypeOK, Stages, FilterInv, [Next]_vars PROVE FilterInv'
  OBVIOUS
<1> USE DEF procVars, clientVars, execVars, filterVars
<1>1. ASSUME NEW t \in Tasks, ClientStep(t) PROVE FilterInv'
  <2>1. UNCHANGED <<cfg, written, flock, filters, residue>>
    BY <1>1, ClientLocal
  <2>2. \A u \in Tasks : pc'[u] \in Holding <=> pc[u] \in Holding
    BY <1>1 DEF ClientStep, Bind, StartFails, StartTasks, ClientReleases, Goto, TypeOK,
                Holding
  <2> QED
    BY <2>1, <2>2, StayFilters
<1>2. ASSUME NEW t \in Tasks, Panic(t), pc[t] = "cleanup" PROVE FilterInv'
  BY <1>2, PanicIsGone, GoneFilters
<1>3. ASSUME NEW t \in Tasks, ThreadStep(t) PROVE FilterInv'
  BY <1>2, <1>3, ThreadStepParts, LifecycleFilters, ExecuteFilters
<1>4. CASE UNCHANGED <<cfg, pc, written, flock, filters, residue>>
  BY <1>4, StayFilters
<1>5. CASE \E t \in Tasks, m \in Maps : PollReads(t, m) \/ PollEnds(t, m)
  BY <1>4, <1>5, PollLocal
<1>6. CASE \E t \in Tasks : \E i \in 1..NumProbes(t) : ProbeFires(t, i)
  BY <1>4, <1>6 DEF ProbeFires
<1>7. CASE ServiceStop \/ Crash
  BY <1>7, StopIsGone, GoneFilters
<1>8. CASE UNCHANGED vars
  BY <1>4, <1>8 DEF vars
<1> QED
  BY <1>1, <1>3, <1>5, <1>6, <1>7, <1>8 DEF Next, AllDone

LEMMA AlwaysFilterInv == Spec => []FilterInv
BY TypeCorrect, AlwaysStages, InitFilterInv, NextFilterInv, PTL DEF Spec

(* The filter map never has two holders nor one outside steps 3a to 3c, and *)
(* its content is what the holder has written and what a crash or a failed  *)
(* drain left behind.                                                       *)
THEOREM FilterMapExact == Spec => []FilterMapAccounted
BY AccountedParts, TypeCorrect, AlwaysFilterInv, PTL

(* While a probe of a task is attached, all the interfaces it filters on    *)
(* are in the map: no other task drains the map meanwhile.                  *)
THEOREM FiltersStay == Spec => []FiltersInPlace
<1>1. TypeOK /\ Stages /\ FilterInv => FiltersInPlace
  <2> SUFFICES ASSUME TypeOK, Stages, FilterInv, NEW t \in Tasks, attached[t] > 0
               PROVE  AllKeys(t) \subseteq filters
    BY DEF FiltersInPlace
  <2>1. pc[t] \in {"attach", "poll"} /\ written[t] = NumProbes(t)
    BY DEF Stages, Stage
  <2>2. AllKeys(t) = WrittenKeys(t)
    BY <2>1 DEF AllKeys, WrittenKeys
  <2>3. t \in flock \/ WrittenKeys(t) = {}
    BY <2>1 DEF FilterInv, FilterHolder, Holding
  <2> QED
    BY <2>2, <2>3 DEF FilterInv, Accounted
<1> QED
  BY <1>1, TypeCorrect, AlwaysStages, AlwaysFilterInv, PTL

-----------------------------------------------------------------------------
(* Reports.  A failure that has not been reported yet is in the task's      *)
(* outcome, on its way to the end of execute, or in a poll thread to be     *)
(* joined.                                                                  *)
Unreported(t) ==
    \/ pc[t] = "finish" /\ outcome[t] = "error"
    \/ pc[t] = "poll" /\ \E m \in MapsOf(t) : poller[t][m] = "failed"

Accountable(t) ==
    failures[t] > 0 => \/ reports[t] > 0 \/ Unreported(t)
                       \/ pc[t] \in {"killed", "panicked"}

Accountables == \A t \in Tasks : Accountable(t)

LEMMA InitAccountables == Init => Accountables
BY DEF Init, Accountables, Accountable

(* No failure is pending, and none is met. *)
LEMMA AccountableMove ==
  ASSUME TypeOK, NEW u \in Tasks, Accountable(u),
         UNCHANGED <<failures, reports>>, pc[u] \notin {"poll", "finish", "killed", "panicked"}
  PROVE  Accountable(u)'
BY DEF Accountable, Unreported

(* The failure met is reported. *)
LEMMA AccountableReport ==
  ASSUME TypeOK, NEW t \in Tasks, Accountable(t), NEW n \in Nat, n > 0,
         reports' = [reports EXCEPT ![t] = @ + n]
  PROVE  Accountable(t)'
<1>1. reports[t] \in Nat /\ reports'[t] = reports[t] + n
  BY DEF TypeOK
<1> QED
  BY <1>1 DEF Accountable

LEMMA AccountableFrame ==
  ASSUME NEW u \in Tasks, Accountable(u), cfg' = cfg, SameTask(u)
  PROVE  Accountable(u)'
BY ConfigStable DEF Accountable, Unreported, SameTask

LEMMA LifecycleAccountable ==
  ASSUME TypeOK, NEW t \in Tasks, Accountable(t), Lifecycle(t)
  PROVE  Accountable(t)'
<1> USE DEF errVars
<1>1. CASE ResolveConfigFails(t) \/ TaskConflict(t) \/ OpenFilterMapFails(t)
           \/ WriteFiltersFails(t)
  BY <1>1, AccountableReport
     DEF ResolveConfigFails, TaskConflict, OpenFilterMapFails, WriteFiltersFails, Fail
<1>2. CASE ResolveConfig(t) \/ UpdatePolledMaps(t) \/ CleanupPolledMaps(t)
           \/ SetupSkipsProbe(t) \/ OpenFilterMap(t) \/ WriteFilters(t) \/ SetupDone(t)
  <2>1. UNCHANGED <<failures, reports>>
    BY <1>2 DEF ResolveConfig, UpdatePolledMaps, CleanupPolledMaps, SetupSkipsProbe,
                OpenFilterMap, WriteFilters, SetupDone
  <2>2. pc[t] \notin {"poll", "finish", "killed", "panicked"}
    BY <1>2 DEF ResolveConfig, UpdatePolledMaps, CleanupPolledMaps, SetupSkipsProbe,
                OpenFilterMap, WriteFilters, SetupDone
  <2> QED
    BY <2>1, <2>2, AccountableMove
<1> QED
  BY <1>1, <1>2 DEF Lifecycle

LEMMA ExecuteAccountable ==
  ASSUME TypeOK, NEW t \in Tasks, Accountable(t), Execute(t)
  PROVE  Accountable(t)'
<1> USE DEF errVars
<1>1. MapsOf(t)' = MapsOf(t)
  BY ExecuteLocal, ConfigStable
<1>2. CASE (\E m \in Maps : DiscardMap(t, m)) \/ DiscardDone(t) \/ AttachProbe(t)
           \/ SpawnPollers(t)
  <2>1. UNCHANGED <<failures, reports>>
    BY <1>2 DEF DiscardMap, DiscardDone, AttachProbe, SpawnPollers
  <2>2. pc[t] \notin {"poll", "finish", "killed", "panicked"}
    BY <1>2 DEF DiscardMap, DiscardDone, AttachProbe, SpawnPollers
  <2> QED
    BY <2>1, <2>2, AccountableMove
<1>3. CASE AttachFails(t)
  <2>1. reports' = [reports EXCEPT ![t] = @ + 1]
    BY <1>3 DEF AttachFails, ReturnsError, Fail
  <2> QED
    BY <2>1 DEF TypeOK, Accountable
<1>4. CASE DiscardFails(t) \/ AttachConversionFails(t)
  BY <1>4 DEF DiscardFails, AttachConversionFails, ReturnsError, Goto, TypeOK,
              Accountable, Unreported
<1>5. CASE JoinPollers(t)
  <2>1. /\ pc[t] = "poll" /\ pc'[t] = "finish" /\ UNCHANGED <<failures, reports>>
        /\ (\E m \in MapsOf(t) : poller[t][m] = "failed") => outcome'[t] = "error"
    BY <1>5 DEF JoinPollers, Goto, TypeOK
  <2> QED
    BY <2>1 DEF Accountable, Unreported
<1>6. CASE FinishExecute(t)
  <2>1. /\ pc[t] = "finish" /\ UNCHANGED failures
        /\ reports' = [reports EXCEPT ![t] = @ + ExecutionError(t)]
    BY <1>6 DEF FinishExecute
  <2>2. CASE outcome[t] = "error"
    BY <2>1, <2>2 DEF ExecutionError, TypeOK, Accountable
  <2>3. CASE outcome[t] # "error"
    <3>1. reports'[t] = reports[t]
      BY <2>1, <2>3 DEF TypeOK, ExecutionError
    <3> QED
      BY <2>1, <2>3, <3>1 DEF Accountable, Unreported
  <2> QED
    BY <2>2, <2>3
<1>7. CASE FinishExecuteDrainFails(t)
  <2>1. 1 + ExecutionError(t) \in Nat /\ 1 + ExecutionError(t) > 0
    BY DEF ExecutionError
  <2> QED
    BY <1>7, <2>1, AccountableReport DEF FinishExecuteDrainFails, Fail
<1> QED
  BY <1>2, <1>3, <1>4, <1>5, <1>6, <1>7 DEF Execute

LEMMA PollAccountable ==
  ASSUME TypeOK, MapClaims, NEW t \in Tasks, NEW m \in Maps, Accountable(t),
         PollReads(t, m) \/ PollEnds(t, m)
  PROVE  Accountable(t)'
<1> USE DEF errVars, execVars
<1>1. MapsOf(t)' = MapsOf(t) /\ UNCHANGED <<pc, outcome>>
  BY PollLocal, ConfigStable
<1>2. CASE PollReads(t, m)
  BY <1>1, <1>2 DEF PollReads, Accountable, Unreported
<1>3. CASE PollReadFails(t, m) \/ PollFails(t, m, 1)
  BY <1>3, AccountableReport DEF PollReadFails, PollFails, Fail
<1>4. CASE PollFinishes(t, m) \/ PollFails(t, m, 0)
  <2>1. PICK s \in {"failed", "finished"} :
           /\ poller[t][m] = "polling" /\ poller' = [poller EXCEPT ![t][m] = s]
           /\ UNCHANGED reports \/ reports' = [reports EXCEPT ![t] = @ + 0]
           /\ UNCHANGED failures \/ s = "failed"
    BY <1>4 DEF PollFinishes, PollFails, Fail
  <2>2. pc[t] = "poll" /\ m \in MapsOf(t)
    BY <2>1 DEF MapClaims
  <2>3. reports'[t] = reports[t]
    BY <2>1 DEF TypeOK
  <2>4. poller'[t] = [poller[t] EXCEPT ![m] = s] /\ poller[t] \in [Maps -> PollerStates]
    BY <2>1 DEF TypeOK
  <2>5. poller'[t][m] = s /\ \A k \in Maps \ {m} : poller'[t][k] = poller[t][k]
    BY <2>4
  <2>6. MapsOf(t) \subseteq Maps
    BY ConfigFacts
  <2>7. \A k \in MapsOf(t) : poller[t][k] = "failed" => poller'[t][k] = "failed"
    BY <2>1, <2>5, <2>6
  <2>8. CASE s = "failed"
    BY <1>1, <2>2, <2>5, <2>8 DEF Accountable, Unreported
  <2>9. CASE UNCHANGED failures
    BY <1>1, <2>2, <2>3, <2>7, <2>9 DEF Accountable, Unreported
  <2> QED
    BY <2>1, <2>8, <2>9
<1> QED
  BY <1>2, <1>3, <1>4 DEF PollEnds

LEMMA GoneAccountable ==
  ASSUME NEW newPc, Gone(newPc), NEW u \in Tasks, Accountable(u)
  PROVE  Accountable(u)'
<1>1. pc' = newPc /\ UNCHANGED <<failures, reports>>
  BY DEF Gone, ProcessGone, errVars
<1>2. CASE pc[u] \in Live
  BY <1>1, <1>2 DEF Gone, Accountable
<1>3. CASE pc[u] \notin Live
  <2>1. ~Unreported(u)
    BY <1>3 DEF Unreported, Live, Executing
  <2>2. pc[u] \in {"killed", "panicked"} => newPc[u] = pc[u]
    BY <1>3 DEF Gone
  <2> QED
    BY <1>1, <2>1, <2>2 DEF Accountable
<1> QED
  BY <1>2, <1>3

LEMMA NextAccountables == TypeOK /\ MapClaims /\ Accountables /\ [Next]_vars => Accountables'
<1> SUFFICES ASSUME TypeOK, MapClaims, Accountables, [Next]_vars, NEW u \in Tasks
             PROVE  Accountable(u)'
  BY DEF Accountables
<1>1. Accountable(u)
  BY DEF Accountables
<1>2. ASSUME NEW newPc, Gone(newPc) PROVE Accountable(u)'
  BY <1>1, <1>2, GoneAccountable
<1>3. ASSUME NEW t \in Tasks, ClientStep(t) PROVE Accountable(u)'
  <2>1. CASE u # t
    BY <1>1, <1>3, <2>1, ClientLocal, AccountableFrame
  <2>2. CASE u = t
    <3>1. CASE StartFails(t)
      <4>1. reports' = [reports EXCEPT ![t] = @ + 1]
        BY <3>1 DEF StartFails, Fail
      <4> QED
        BY <2>2, <4>1 DEF TypeOK, Accountable
    <3>2. CASE Bind(t) \/ StartTasks(t)
      BY <1>1, <2>2, <3>2, AccountableMove DEF Bind, StartTasks, errVars
    <3>3. CASE ClientReleases(t)
      BY <1>1, <2>2, <3>3, ConfigStable
         DEF ClientReleases, Accountable, Unreported, execVars, errVars
    <3> QED
      BY <1>3, <3>1, <3>2, <3>3 DEF ClientStep
  <2> QED
    BY <2>1, <2>2
<1>4. ASSUME NEW t \in Tasks, Lifecycle(t) \/ Execute(t) PROVE Accountable(u)'
  <2>1. CASE u # t
    BY <1>1, <1>4, <2>1, LifecycleLocal, ExecuteLocal, AccountableFrame
  <2>2. CASE u = t
    BY <1>1, <1>4, <2>2, LifecycleAccountable, ExecuteAccountable
  <2> QED
    BY <2>1, <2>2
<1>5. ASSUME NEW t \in Tasks, Panic(t), pc[t] = "cleanup" PROVE Accountable(u)'
  BY <1>2, <1>5, PanicIsGone
<1>6. ASSUME NEW t \in Tasks, ThreadStep(t) PROVE Accountable(u)'
  BY <1>4, <1>5, <1>6, ThreadStepParts
<1>7. ASSUME NEW t \in Tasks, NEW m \in Maps, PollReads(t, m) \/ PollEnds(t, m)
      PROVE  Accountable(u)'
  <2>1. CASE u # t
    BY <1>1, <1>7, <2>1, PollLocal, AccountableFrame
  <2>2. CASE u = t
    BY <1>1, <1>7, <2>2, PollAccountable
  <2> QED
    BY <2>1, <2>2
<1>8. CASE UNCHANGED <<cfg, pc, execVars, errVars>>
  BY <1>1, <1>8, ConfigStable DEF Accountable, Unreported, execVars, errVars
<1>9. CASE \E t \in Tasks : \E i \in 1..NumProbes(t) : ProbeFires(t, i)
  BY <1>8, <1>9 DEF ProbeFires, clientVars
<1>10. CASE ServiceStop \/ Crash
  BY <1>2, <1>10, StopIsGone
<1>11. CASE UNCHANGED vars
  BY <1>8, <1>11 DEF vars, clientVars
<1> QED
  BY <1>3, <1>6, <1>7, <1>9, <1>10, <1>11 DEF Next, AllDone

(* A call that ends, neither killed nor panicked, after any failure has     *)
(* written an internal error for it, also when the failure was met in a     *)
(* poll thread that reports nothing itself.                                 *)
THEOREM FailuresReported == Spec => []NoSilentFailure
<1>1. Accountables => NoSilentFailure
  BY DEF Accountables, Accountable, Unreported, NoSilentFailure, Terminal
<1> QED
  BY <1>1, TypeCorrect, ClaimsAccounted, InitAccountables, NextAccountables, PTL DEF Spec

=============================================================================
