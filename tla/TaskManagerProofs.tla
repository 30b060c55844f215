------------------------- MODULE TaskManagerProofs -------------------------
(***************************************************************************)
(* Theorems about TaskManager, for every set of tasks, maps, interfaces    *)
(* and configs.                                                            *)
(***************************************************************************)
EXTENDS TaskManager, TLAPS

-----------------------------------------------------------------------------
(* Facts about configs. *)

(* A task's probes are a sequence of probes, its maps a set of maps. *)
LEMMA ConfigFacts ==
  ASSUME TypeOK, NEW t \in Tasks
  PROVE  /\ MapsOf(t) \in SUBSET Maps
         /\ ProbesOf(t) \in Seq(Probe)
         /\ NumProbes(t) \in Nat
         /\ \A i \in 1..NumProbes(t) : ProbesOf(t)[i].filters \in SUBSET Ifaces
                                       /\ ProbesOf(t)[i].out \in Maps
<1>1. cfg[t] \in Configs
  BY DEF TypeOK
<1>2. MapsOf(t) \in SUBSET Maps /\ ProbesOf(t) \in Seq(Probe)
  BY <1>1, ConfigsAssumption DEF MapsOf, ProbesOf
<1>3. NumProbes(t) \in Nat
  BY <1>2 DEF NumProbes
<1>4. \A i \in 1..NumProbes(t) : ProbesOf(t)[i] \in Probe
  BY <1>2, <1>3 DEF NumProbes
<1> QED
  BY <1>2, <1>3, <1>4 DEF Probe

(* The configs never change, so neither do the maps and probes of a task. *)
LEMMA ConfigStable ==
  ASSUME cfg' = cfg
  PROVE  \A t \in Tasks : /\ MapsOf(t)' = MapsOf(t)
                          /\ ProbesOf(t)' = ProbesOf(t)
                          /\ NumProbes(t)' = NumProbes(t)
BY DEF MapsOf, ProbesOf, NumProbes

-----------------------------------------------------------------------------
(* Type correctness. *)

LEMMA NoPollersType ==
  [t \in Tasks |-> NoPollers] \in [Tasks -> [Maps -> PollerStates]]
<1>1. NoPollers \in [Maps -> PollerStates]
  BY DEF NoPollers, PollerStates
<1> QED
  BY <1>1

LEMMA InitTypeOK == Init => TypeOK
<1> SUFFICES ASSUME Init PROVE TypeOK
  OBVIOUS
<1>1. \A t \in Tasks : NumProbes(t) \in Nat
  BY ConfigsAssumption DEF Init, NumProbes, ProbesOf
<1>2. poller \in [Tasks -> [Maps -> PollerStates]]
  BY NoPollersType DEF Init
<1>3. pc \in [Tasks -> PC] /\ outcome \in [Tasks -> Outcomes]
  BY DEF Init, PC, Outcomes
<1>4. ring \in [Maps -> SUBSET Tasks] /\ seen \in [Tasks -> SUBSET Tasks]
      /\ discarded \in [Tasks -> SUBSET Maps]
  BY DEF Init
<1>5. crashes \in 0..MaxCrashes
  BY ConfigsAssumption DEF Init
<1>6. up \in BOOLEAN /\ active \in BOOLEAN
  BY DEF Init
<1>7. /\ polled \in SUBSET Maps /\ holding \in SUBSET Tasks /\ flock \in SUBSET Tasks
      /\ filters \in SUBSET Ifaces /\ residue \in SUBSET Ifaces
  BY DEF Init
<1>8. /\ written \in [Tasks -> Nat] /\ attached \in [Tasks -> Nat]
      /\ failures \in [Tasks -> Nat] /\ reports \in [Tasks -> Nat]
      /\ cfg \in [Tasks -> Configs]
      /\ \A t \in Tasks : written[t] = 0 /\ attached[t] = 0
  BY DEF Init
<1> QED
  BY <1>1, <1>2, <1>3, <1>4, <1>5, <1>6, <1>7, <1>8 DEF TypeOK

(* When the process goes away, by itself or with a panicking thread. *)
LEMMA ProcessGoneTypeOK ==
  ASSUME TypeOK, NEW newPc, newPc \in [Tasks -> PC], ProcessGone(newPc),
         crashes' \in 0..MaxCrashes
  PROVE  TypeOK'
<1>1. \A t \in Tasks : NumProbes(t)' = NumProbes(t) /\ NumProbes(t) \in Nat
  BY ConfigStable, ConfigFacts DEF ProcessGone
<1>2. poller' \in [Tasks -> [Maps -> PollerStates]]
  BY NoPollersType DEF ProcessGone
<1>3. attached' \in [Tasks -> Nat] /\ \A t \in Tasks : attached'[t] = 0
  BY DEF ProcessGone
<1>4. (up \in BOOLEAN /\ active \in BOOLEAN)'
  BY DEF ProcessGone
<1>5. (polled \in SUBSET Maps /\ holding \in SUBSET Tasks /\ flock \in SUBSET Tasks)'
  BY DEF ProcessGone
<1>6. /\ pc' \in [Tasks -> PC] /\ residue' = filters
      /\ UNCHANGED <<cfg, written, discarded, outcome, failures, reports, filters,
                     ring, seen>>
  BY DEF ProcessGone, errVars, ringVars
<1> QED
  BY <1>1, <1>2, <1>3, <1>4, <1>5, <1>6 DEF TypeOK

LEMMA KilledPcType == TypeOK => KilledPc \in [Tasks -> PC]
BY DEF TypeOK, KilledPc, PC, Live, Executing, Terminal

LEMMA PanicTypeOK == ASSUME TypeOK, NEW t \in Tasks, Panic(t) PROVE TypeOK'
<1>1. [KilledPc EXCEPT ![t] = "panicked"] \in [Tasks -> PC]
  BY KilledPcType DEF PC, Terminal
<1> QED
  BY <1>1, ProcessGoneTypeOK DEF Panic, TypeOK

LEMMA ClientTypeOK == ASSUME TypeOK, NEW t \in Tasks, ClientStep(t) PROVE TypeOK'
<1> USE DEF TypeOK, Goto, Fail, PC, Live, Executing, Terminal,
            procVars, clientVars, execVars, errVars, filterVars, ringVars
<1>1. cfg' = cfg
  BY DEF ClientStep, Bind, StartFails, StartTasks, ClientReleases
<1>2. \A u \in Tasks : NumProbes(u)' = NumProbes(u)
  BY <1>1, ConfigStable
<1>3. CASE Bind(t)           BY <1>2, <1>3 DEF Bind
<1>4. CASE StartFails(t)     BY <1>2, <1>4 DEF StartFails
<1>5. CASE StartTasks(t)     BY <1>2, <1>5 DEF StartTasks
<1>6. CASE ClientReleases(t) BY <1>2, <1>6 DEF ClientReleases
<1> QED
  BY <1>3, <1>4, <1>5, <1>6 DEF ClientStep

(* Steps 1, 2, 3a and 4 of a task thread. *)
LEMMA LifecycleTypeOK ==
  ASSUME TypeOK, NEW t \in Tasks,
         \/ ResolveConfig(t) \/ ResolveConfigFails(t)
         \/ UpdatePolledMaps(t) \/ TaskConflict(t) \/ CleanupPolledMaps(t)
         \/ SetupSkipsProbe(t) \/ OpenFilterMap(t) \/ OpenFilterMapFails(t)
         \/ WriteFilters(t) \/ WriteFiltersFails(t) \/ SetupDone(t)
  PROVE  TypeOK'
<1> USE DEF TypeOK, Goto, Fail, PC, Live, Executing, Terminal,
            procVars, clientVars, execVars, errVars, filterVars, ringVars
<1>1. cfg' = cfg
  BY DEF ResolveConfig, ResolveConfigFails, UpdatePolledMaps, TaskConflict,
         CleanupPolledMaps, SetupSkipsProbe, OpenFilterMap, OpenFilterMapFails,
         WriteFilters, WriteFiltersFails, SetupDone
<1>2. \A u \in Tasks : NumProbes(u)' = NumProbes(u) /\ NumProbes(u) \in Nat
  BY <1>1, ConfigStable, ConfigFacts
<1>3. MapsOf(t) \in SUBSET Maps
  BY ConfigFacts
<1>4. written[t] < NumProbes(t) => NextFilters(t) \in SUBSET Ifaces
  <2>1. written[t] < NumProbes(t) => written[t] + 1 \in 1..NumProbes(t)
    BY <1>2
  <2> QED
    BY <2>1, ConfigFacts DEF NextFilters
<1>5. CASE ResolveConfig(t)      BY <1>2, <1>5 DEF ResolveConfig
<1>6. CASE ResolveConfigFails(t) BY <1>2, <1>6 DEF ResolveConfigFails
<1>7. CASE UpdatePolledMaps(t)   BY <1>2, <1>3, <1>7 DEF UpdatePolledMaps
<1>8. CASE TaskConflict(t)       BY <1>2, <1>8 DEF TaskConflict
<1>9. CASE CleanupPolledMaps(t)  BY <1>2, <1>9 DEF CleanupPolledMaps
<1>10. CASE SetupSkipsProbe(t)    BY <1>2, <1>10 DEF SetupSkipsProbe
<1>11. CASE OpenFilterMap(t)      BY <1>2, <1>11 DEF OpenFilterMap
<1>12. CASE OpenFilterMapFails(t) BY <1>2, <1>12 DEF OpenFilterMapFails
<1>13. CASE WriteFilters(t)       BY <1>2, <1>4, <1>13 DEF WriteFilters
<1>14. CASE WriteFiltersFails(t)  BY <1>2, <1>4, <1>14 DEF WriteFiltersFails, Drain
<1>15. CASE SetupDone(t)          BY <1>2, <1>15 DEF SetupDone
<1> QED
  BY <1>5, <1>6, <1>7, <1>8, <1>9, <1>10, <1>11, <1>12, <1>13, <1>14, <1>15

(* Steps 3b and 3c of a task thread. *)
LEMMA ExecuteTypeOK ==
  ASSUME TypeOK, NEW t \in Tasks,
         \/ \E m \in Maps : DiscardMap(t, m)
         \/ DiscardDone(t) \/ DiscardFails(t)
         \/ AttachProbe(t) \/ AttachFails(t) \/ AttachConversionFails(t)
         \/ SpawnPollers(t) \/ JoinPollers(t)
         \/ FinishExecute(t) \/ FinishExecuteDrainFails(t)
  PROVE  TypeOK'
<1> USE DEF TypeOK, Goto, Fail, PC, Live, Executing, Terminal, PollerStates, Outcomes,
            procVars, clientVars, execVars, errVars, filterVars, ringVars
<1>1. cfg' = cfg
  BY DEF DiscardMap, DiscardDone, DiscardFails, AttachProbe, AttachFails,
         AttachConversionFails, SpawnPollers, JoinPollers, FinishExecute,
         FinishExecuteDrainFails
<1>2. \A u \in Tasks : NumProbes(u)' = NumProbes(u) /\ NumProbes(u) \in Nat
  BY <1>1, ConfigStable, ConfigFacts
<1>3. MapsOf(t) \in SUBSET Maps
  BY ConfigFacts
<1>4. CASE \E m \in Maps : DiscardMap(t, m) BY <1>2, <1>3, <1>4 DEF DiscardMap
<1>5. CASE DiscardDone(t)            BY <1>2, <1>5 DEF DiscardDone
<1>6. CASE DiscardFails(t)           BY <1>2, <1>6 DEF DiscardFails, ReturnsError
<1>7. CASE AttachProbe(t)            BY <1>2, <1>7 DEF AttachProbe
<1>8. CASE AttachFails(t)            BY <1>2, <1>8 DEF AttachFails, ReturnsError
<1>9. CASE AttachConversionFails(t)  BY <1>2, <1>9 DEF AttachConversionFails, ReturnsError
<1>10. CASE SpawnPollers(t)          BY <1>2, <1>3, <1>10 DEF SpawnPollers
<1>11. CASE JoinPollers(t)           BY <1>2, <1>11 DEF JoinPollers, NoPollers
<1>12. CASE FinishExecute(t)
  BY <1>2, <1>12 DEF FinishExecute, ExecutionError, Drain
<1>13. CASE FinishExecuteDrainFails(t)
  BY <1>2, <1>13 DEF FinishExecuteDrainFails, ExecutionError, Drain
<1> QED
  BY <1>4, <1>5, <1>6, <1>7, <1>8, <1>9, <1>10, <1>11, <1>12, <1>13

(* The poll threads and the probes. *)
LEMMA PollTypeOK ==
  ASSUME TypeOK, NEW t \in Tasks, NEW m \in Maps, PollReads(t, m) \/ PollEnds(t, m)
  PROVE  TypeOK'
<1> USE DEF TypeOK, Fail, PollerStates,
            procVars, clientVars, execVars, errVars, filterVars, ringVars
<1>1. cfg' = cfg
  BY DEF PollReads, PollEnds, PollFinishes, PollReadFails, PollFails
<1>2. \A u \in Tasks : NumProbes(u)' = NumProbes(u)
  BY <1>1, ConfigStable
<1>3. CASE PollReads(t, m)     BY <1>2, <1>3 DEF PollReads
<1>4. CASE PollFinishes(t, m)  BY <1>2, <1>4 DEF PollFinishes
<1>5. CASE PollReadFails(t, m) BY <1>2, <1>5 DEF PollReadFails
<1>6. ASSUME NEW n \in {0, 1}, PollFails(t, m, n) PROVE TypeOK'
  BY <1>2, <1>6 DEF PollFails
<1> QED
  BY <1>3, <1>4, <1>5, <1>6 DEF PollEnds

LEMMA ProbeFiresTypeOK ==
  ASSUME TypeOK, NEW t \in Tasks, NEW i \in 1..NumProbes(t), ProbeFires(t, i)
  PROVE  TypeOK'
<1>1. \A u \in Tasks : NumProbes(u)' = NumProbes(u)
  BY ConfigStable DEF ProbeFires, clientVars
<1>2. ProbesOf(t)[i].out \in Maps
  BY ConfigFacts
<1> QED
  BY <1>1, <1>2 DEF TypeOK, ProbeFires, procVars, clientVars, execVars, errVars, filterVars

LEMMA StutterTypeOK == ASSUME TypeOK, UNCHANGED vars PROVE TypeOK'
<1>1. \A u \in Tasks : NumProbes(u)' = NumProbes(u)
  BY ConfigStable DEF vars, clientVars
<1> QED
  BY <1>1 DEF TypeOK, vars, procVars, clientVars, execVars, errVars, filterVars, ringVars

LEMMA NextTypeOK == TypeOK /\ [Next]_vars => TypeOK'
<1> SUFFICES ASSUME TypeOK, [Next]_vars PROVE TypeOK'
  OBVIOUS
<1>1. CASE \E t \in Tasks : ClientStep(t)
  BY <1>1, ClientTypeOK
<1>2. ASSUME NEW t \in Tasks, ThreadStep(t) PROVE TypeOK'
  BY <1>2, LifecycleTypeOK, ExecuteTypeOK, PanicTypeOK
     DEF ThreadStep, CleanupPanics
<1>3. CASE \E t \in Tasks, m \in Maps : PollReads(t, m) \/ PollEnds(t, m)
  BY <1>3, PollTypeOK
<1>4. CASE \E t \in Tasks : \E i \in 1..NumProbes(t) : ProbeFires(t, i)
  BY <1>4, ProbeFiresTypeOK
<1>5. CASE ServiceStop
  BY <1>5, KilledPcType, ProcessGoneTypeOK DEF ServiceStop, TypeOK
<1>6. CASE Crash
  <2>1. crashes' \in 0..MaxCrashes
    BY <1>6, ConfigsAssumption DEF Crash, TypeOK
  <2> QED
    BY <1>6, <2>1, KilledPcType, ProcessGoneTypeOK DEF Crash
<1>7. CASE UNCHANGED vars
  BY <1>7, StutterTypeOK
<1> QED
  BY <1>1, <1>2, <1>3, <1>4, <1>5, <1>6, <1>7 DEF Next, AllDone

(* Every reachable state is well typed, whatever the configs: indices never *)
(* leave the task's probes and every counter stays a number.                *)
THEOREM TypeCorrect == Spec => []TypeOK
BY InitTypeOK, NextTypeOK, PTL DEF Spec

-----------------------------------------------------------------------------
(* The claims on maps. *)

(* The parts of MapClaims that only depend on the global state. *)
StateClaims ==
    /\ \A t \in Tasks : Running(t) => MapsOf(t) \subseteq polled
    /\ \A t, u \in Tasks : t # u /\ Running(t) /\ Running(u) =>
                              MapsOf(t) \cap MapsOf(u) = {}
    /\ ~active => polled = {}
    /\ \A m \in polled : \E t \in Tasks : Running(t) /\ m \in MapsOf(t)

PollerClaims ==
    \A t \in Tasks, m \in Maps :
        poller[t][m] = "polling" => pc[t] = "poll" /\ m \in MapsOf(t)

LEMMA MapClaimsParts == MapClaims <=> StateClaims /\ PollerClaims
BY DEF MapClaims, StateClaims, PollerClaims

(* A step that leaves the global state alone, and every task on its side of *)
(* steps 2 and 4, keeps the claims.                                         *)
LEMMA StateClaimsFrame ==
  ASSUME StateClaims, cfg' = cfg, polled' = polled, active' = active,
         \A u \in Tasks : Running(u)' <=> Running(u)
  PROVE  StateClaims'
<1>1. \A u \in Tasks : MapsOf(u)' = MapsOf(u)
  BY ConfigStable
<1> QED
  BY <1>1 DEF StateClaims

(* pc changes for one task only, within one side. *)
LEMMA RunningFrame ==
  ASSUME TypeOK, NEW t \in Tasks, NEW l, Goto(t, l), l \in Executing <=> Running(t)
  PROVE  \A u \in Tasks : Running(u)' <=> Running(u)
BY DEF Running, Goto, TypeOK

LEMMA InitMapClaims == Init => MapClaims
BY DEF Init, MapClaims, Running, Executing, NoPollers

LEMMA ProcessGoneClaims ==
  ASSUME NEW newPc, ProcessGone(newPc), \A t \in Tasks : newPc[t] \notin Executing
  PROVE  MapClaims'
<1>1. \A t \in Tasks : ~Running(t)'
  BY DEF ProcessGone, Running
<1>2. \A t \in Tasks, m \in Maps : poller'[t][m] = "none"
  BY DEF ProcessGone, NoPollers
<1> QED
  BY <1>1, <1>2 DEF ProcessGone, MapClaims

LEMMA KilledNotExecuting == \A t \in Tasks : KilledPc[t] \notin Executing
BY DEF KilledPc, Live, Executing

LEMMA PanicClaims ==
  ASSUME TypeOK, MapClaims, NEW t \in Tasks, Panic(t)
  PROVE  MapClaims'
<1>1. \A u \in Tasks : [KilledPc EXCEPT ![t] = "panicked"][u] \notin Executing
  BY KilledNotExecuting DEF KilledPc, Executing
<1> QED
  BY <1>1, ProcessGoneClaims DEF Panic

LEMMA UpdateClaims ==
  ASSUME TypeOK, MapClaims, NEW t \in Tasks, UpdatePolledMaps(t)
  PROVE  MapClaims'
<1>1. /\ pc[t] = "resolved"
      /\ polled' = polled \cup MapsOf(t) /\ active' = TRUE
      /\ pc' = [pc EXCEPT ![t] = "setup"]
      /\ UNCHANGED <<cfg, poller>>
  BY DEF UpdatePolledMaps, Goto, clientVars, execVars
<1>2. \A u \in Tasks : MapsOf(u)' = MapsOf(u)
  BY <1>1, ConfigStable
<1>3. MapsOf(t) \cap polled = {}
  BY DEF UpdatePolledMaps, MapClaims
<1>4. \A u \in Tasks : Running(u)' <=> Running(u) \/ u = t
  BY <1>1 DEF Running, TypeOK, Executing
<1>5. ~Running(t)
  BY <1>1 DEF Running, Executing
<1>6. \A u \in Tasks : Running(u) => MapsOf(u) \cap MapsOf(t) = {}
  BY <1>3 DEF MapClaims
<1>7. \A u \in Tasks : pc[u] = "poll" => pc'[u] = "poll"
  BY <1>1 DEF TypeOK
<1> QED
  BY <1>1, <1>2, <1>4, <1>5, <1>6, <1>7 DEF MapClaims

LEMMA CleanupClaims ==
  ASSUME TypeOK, MapClaims, NEW t \in Tasks, CleanupPolledMaps(t)
  PROVE  MapClaims'
<1>1. /\ pc[t] = "cleanup"
      /\ polled' = polled \ MapsOf(t) /\ active' = (polled' # {})
      /\ pc' = [pc EXCEPT ![t] = "done"]
      /\ UNCHANGED <<cfg, poller>>
  BY DEF CleanupPolledMaps, Goto, clientVars, execVars
<1>2. \A u \in Tasks : MapsOf(u)' = MapsOf(u)
  BY <1>1, ConfigStable
<1>3. Running(t)
  BY <1>1 DEF Running, Executing
<1>4. \A u \in Tasks : Running(u)' <=> Running(u) /\ u # t
  BY <1>1 DEF Running, TypeOK, Executing
<1>5. \A u \in Tasks : Running(u) /\ u # t => MapsOf(u) \cap MapsOf(t) = {}
  BY <1>3 DEF MapClaims
<1>6. \A m \in polled' : \E u \in Tasks : Running(u)' /\ m \in MapsOf(u)
  BY <1>1, <1>4 DEF MapClaims
<1>7. \A u \in Tasks : pc[u] = "poll" => pc'[u] = "poll"
  BY <1>1 DEF TypeOK
<1>8. ~active' => polled' = {}
  BY <1>1
<1> QED
  BY <1>1, <1>2, <1>4, <1>5, <1>6, <1>7, <1>8 DEF MapClaims

(* A task thread moves on without touching the global state or a poller. *)
LEMMA MoveClaims ==
  ASSUME TypeOK, MapClaims, NEW t \in Tasks, NEW l, Goto(t, l),
         l \in Executing <=> Running(t), pc[t] # "poll",
         UNCHANGED <<cfg, polled, active, poller>>
  PROVE  MapClaims'
<1>1. StateClaims'
  BY RunningFrame, StateClaimsFrame, MapClaimsParts
<1>2. \A u \in Tasks : pc[u] = "poll" => pc'[u] = "poll"
  BY DEF Goto, TypeOK
<1>3. PollerClaims'
  BY <1>2, ConfigStable, MapClaimsParts DEF PollerClaims
<1> QED
  BY <1>1, <1>3 DEF MapClaims, StateClaims, PollerClaims

(* No thread moves. *)
LEMMA StayClaims ==
  ASSUME MapClaims, UNCHANGED <<cfg, pc, polled, active, poller>>
  PROVE  MapClaims'
<1>1. \A u \in Tasks : MapsOf(u)' = MapsOf(u)
  BY ConfigStable
<1>2. \A u \in Tasks : Running(u)' <=> Running(u)
  BY DEF Running
<1> QED
  BY <1>1, <1>2 DEF MapClaims

LEMMA ClientClaims ==
  ASSUME TypeOK, MapClaims, NEW t \in Tasks, ClientStep(t)
  PROVE  MapClaims'
<1> USE DEF Running, Executing, procVars, clientVars, execVars
<1>1. CASE Bind(t)           BY <1>1, MoveClaims DEF Bind
<1>2. CASE StartFails(t)     BY <1>2, MoveClaims DEF StartFails
<1>3. CASE StartTasks(t)     BY <1>3, MoveClaims DEF StartTasks
<1>4. CASE ClientReleases(t) BY <1>4, StayClaims DEF ClientReleases
<1> QED
  BY <1>1, <1>2, <1>3, <1>4 DEF ClientStep

LEMMA LifecycleClaims ==
  ASSUME TypeOK, MapClaims, NEW t \in Tasks,
         \/ ResolveConfig(t) \/ ResolveConfigFails(t)
         \/ UpdatePolledMaps(t) \/ TaskConflict(t) \/ CleanupPolledMaps(t)
         \/ SetupSkipsProbe(t) \/ OpenFilterMap(t) \/ OpenFilterMapFails(t)
         \/ WriteFilters(t) \/ WriteFiltersFails(t) \/ SetupDone(t)
  PROVE  MapClaims'
<1> USE DEF Running, Executing, procVars, clientVars, execVars
<1>1. CASE ResolveConfig(t)      BY <1>1, MoveClaims DEF ResolveConfig
<1>2. CASE ResolveConfigFails(t) BY <1>2, MoveClaims DEF ResolveConfigFails
<1>3. CASE UpdatePolledMaps(t)   BY <1>3, UpdateClaims
<1>4. CASE TaskConflict(t)       BY <1>4, MoveClaims DEF TaskConflict
<1>5. CASE CleanupPolledMaps(t)  BY <1>5, CleanupClaims
<1>6. CASE SetupSkipsProbe(t)    BY <1>6, StayClaims DEF SetupSkipsProbe
<1>7. CASE OpenFilterMap(t)      BY <1>7, StayClaims DEF OpenFilterMap
<1>8. CASE OpenFilterMapFails(t) BY <1>8, MoveClaims DEF OpenFilterMapFails
<1>9. CASE WriteFilters(t)       BY <1>9, StayClaims DEF WriteFilters
<1>10. CASE WriteFiltersFails(t) BY <1>10, MoveClaims DEF WriteFiltersFails
<1>11. CASE SetupDone(t)         BY <1>11, MoveClaims DEF SetupDone
<1> QED
  BY <1>1, <1>2, <1>3, <1>4, <1>5, <1>6, <1>7, <1>8, <1>9, <1>10, <1>11

(* The threads are spawned on the maps of their task. *)
LEMMA SpawnClaims ==
  ASSUME TypeOK, MapClaims, NEW t \in Tasks, SpawnPollers(t)
  PROVE  MapClaims'
<1>1. /\ pc[t] = "attach" /\ pc' = [pc EXCEPT ![t] = "poll"]
      /\ UNCHANGED <<cfg, polled, active>>
      /\ poller' = [poller EXCEPT ![t] =
                      [m \in Maps |-> IF m \in MapsOf(t) THEN "polling" ELSE "none"]]
  BY DEF SpawnPollers, Goto, procVars, clientVars
<1>2. StateClaims'
  BY <1>1, RunningFrame, StateClaimsFrame, MapClaimsParts DEF Goto, Running, Executing
<1>3. \A m \in Maps : poller'[t][m] = "polling" => m \in MapsOf(t)
  BY <1>1 DEF TypeOK
<1>4. \A u \in Tasks : u # t => poller'[u] = poller[u] /\ pc'[u] = pc[u]
  BY <1>1 DEF TypeOK
<1>5. pc'[t] = "poll"
  BY <1>1 DEF TypeOK
<1>6. PollerClaims'
  BY <1>1, <1>3, <1>4, <1>5, ConfigStable, MapClaimsParts DEF PollerClaims
<1> QED
  BY <1>2, <1>6 DEF MapClaims, StateClaims, PollerClaims

LEMMA JoinClaims ==
  ASSUME TypeOK, MapClaims, NEW t \in Tasks, JoinPollers(t)
  PROVE  MapClaims'
<1>1. /\ pc[t] = "poll" /\ pc' = [pc EXCEPT ![t] = "finish"]
      /\ UNCHANGED <<cfg, polled, active>>
      /\ poller' = [poller EXCEPT ![t] = NoPollers]
  BY DEF JoinPollers, Goto, procVars, clientVars
<1>2. StateClaims'
  BY <1>1, RunningFrame, StateClaimsFrame, MapClaimsParts DEF Goto, Running, Executing
<1>3. \A m \in Maps : poller'[t][m] # "polling"
  BY <1>1 DEF TypeOK, NoPollers
<1>4. \A u \in Tasks : u # t => poller'[u] = poller[u] /\ pc'[u] = pc[u]
  BY <1>1 DEF TypeOK
<1>5. PollerClaims'
  BY <1>1, <1>3, <1>4, ConfigStable, MapClaimsParts DEF PollerClaims
<1> QED
  BY <1>2, <1>5 DEF MapClaims, StateClaims, PollerClaims

LEMMA ExecuteClaims ==
  ASSUME TypeOK, MapClaims, NEW t \in Tasks,
         \/ \E m \in Maps : DiscardMap(t, m)
         \/ DiscardDone(t) \/ DiscardFails(t)
         \/ AttachProbe(t) \/ AttachFails(t) \/ AttachConversionFails(t)
         \/ SpawnPollers(t) \/ JoinPollers(t)
         \/ FinishExecute(t) \/ FinishExecuteDrainFails(t)
  PROVE  MapClaims'
<1> USE DEF Running, Executing, procVars, clientVars, execVars
<1>1. CASE \E m \in Maps : DiscardMap(t, m) BY <1>1, StayClaims DEF DiscardMap
<1>2. CASE DiscardDone(t)  BY <1>2, MoveClaims DEF DiscardDone
<1>3. CASE DiscardFails(t) BY <1>3, MoveClaims DEF DiscardFails, ReturnsError
<1>4. CASE AttachProbe(t)  BY <1>4, StayClaims DEF AttachProbe
<1>5. CASE AttachFails(t)  BY <1>5, MoveClaims DEF AttachFails, ReturnsError
<1>6. CASE AttachConversionFails(t)
  BY <1>6, MoveClaims DEF AttachConversionFails, ReturnsError
<1>7. CASE SpawnPollers(t)  BY <1>7, SpawnClaims
<1>8. CASE JoinPollers(t)   BY <1>8, JoinClaims
<1>9. CASE FinishExecute(t) BY <1>9, MoveClaims DEF FinishExecute
<1>10. CASE FinishExecuteDrainFails(t)
  BY <1>10, MoveClaims DEF FinishExecuteDrainFails
<1> QED
  BY <1>1, <1>2, <1>3, <1>4, <1>5, <1>6, <1>7, <1>8, <1>9, <1>10

LEMMA PollClaims ==
  ASSUME TypeOK, MapClaims, NEW t \in Tasks, NEW m \in Maps,
         PollReads(t, m) \/ PollEnds(t, m)
  PROVE  MapClaims'
<1>1. CASE PollReads(t, m)
  BY <1>1, StayClaims DEF PollReads, procVars, clientVars, execVars
<1>2. CASE PollEnds(t, m)
  <2>1. /\ UNCHANGED <<cfg, pc, polled, active>>
        /\ \E s \in {"failed", "finished"} : poller' = [poller EXCEPT ![t][m] = s]
    BY <1>2 DEF PollEnds, PollFinishes, PollReadFails, PollFails, procVars, clientVars
  <2>2. \A u \in Tasks, k \in Maps : poller'[u][k] = "polling" => poller[u][k] = "polling"
    <3>1. PICK s \in {"failed", "finished"} : poller' = [poller EXCEPT ![t][m] = s]
      BY <2>1
    <3>2. poller \in [Tasks -> [Maps -> PollerStates]]
      BY DEF TypeOK
    <3> SUFFICES ASSUME NEW u \in Tasks, NEW k \in Maps, poller'[u][k] = "polling"
                 PROVE  poller[u][k] = "polling"
      OBVIOUS
    <3>3. CASE u # t
      BY <3>1, <3>2, <3>3
    <3>4. CASE u = t
      <4>1. poller'[t] = [poller[t] EXCEPT ![m] = s]
        BY <3>1, <3>2
      <4> QED
        BY <3>2, <3>4, <4>1
    <3> QED
      BY <3>3, <3>4
  <2>3. StateClaims'
    BY <2>1, StateClaimsFrame, MapClaimsParts DEF Running
  <2>4. PollerClaims'
    BY <2>1, <2>2, ConfigStable, MapClaimsParts DEF PollerClaims
  <2> QED
    BY <2>3, <2>4 DEF MapClaims, StateClaims, PollerClaims
<1> QED
  BY <1>1, <1>2

LEMMA NextMapClaims == TypeOK /\ MapClaims /\ [Next]_vars => MapClaims'
<1> SUFFICES ASSUME TypeOK, MapClaims, [Next]_vars PROVE MapClaims'
  OBVIOUS
<1>1. CASE \E t \in Tasks : ClientStep(t)
  BY <1>1, ClientClaims
<1>2. ASSUME NEW t \in Tasks, ThreadStep(t) PROVE MapClaims'
  BY <1>2, LifecycleClaims, ExecuteClaims, PanicClaims
     DEF ThreadStep, CleanupPanics
<1>3. CASE \E t \in Tasks, m \in Maps : PollReads(t, m) \/ PollEnds(t, m)
  BY <1>3, PollClaims
<1>4. CASE \E t \in Tasks : \E i \in 1..NumProbes(t) : ProbeFires(t, i)
  BY <1>4, StayClaims DEF ProbeFires, procVars, clientVars, execVars
<1>5. CASE ServiceStop \/ Crash
  BY <1>5, KilledNotExecuting, ProcessGoneClaims DEF ServiceStop, Crash
<1>6. CASE UNCHANGED vars
  BY <1>6, StayClaims DEF vars, procVars, clientVars, execVars
<1> QED
  BY <1>1, <1>2, <1>3, <1>4, <1>5, <1>6 DEF Next, AllDone

(* GlobalState is exactly what the running tasks claim, and no two of them  *)
(* claim the same map.                                                      *)
THEOREM ClaimsAccounted == Spec => []MapClaims
<1>1. Spec => []TypeOK
  BY TypeCorrect
<1> QED
  BY <1>1, InitMapClaims, NextMapClaims, PTL DEF Spec

(* No ring buffer has two poll threads: two tasks that poll a map both run, *)
(* so they would both claim it.                                             *)
THEOREM RingBuffersExclusive == Spec => []OnePollerPerMap
<1>1. MapClaims => OnePollerPerMap
  BY DEF MapClaims, OnePollerPerMap, Running, Executing
<1> QED
  BY <1>1, ClaimsAccounted, PTL

-----------------------------------------------------------------------------
(* Panics. *)

(* When every config names a map, a running task keeps GlobalState active.  *)
LEMMA RunningIsActive ==
  ASSUME TypeOK, MapClaims, NonEmptyMaps
  PROVE  \A t \in Tasks : Running(t) => active
<1> SUFFICES ASSUME NEW t \in Tasks, Running(t) PROVE active
  OBVIOUS
<1>1. MapsOf(t) # {}
  BY DEF MapsOf, NonEmptyMaps, TypeOK
<1> QED
  BY <1>1 DEF MapClaims

(* Calls the process serves: it is up, and no thread of it has panicked. *)
Served   == Live \cup {"bound"}
Healthy  == /\ \A t \in Tasks : pc[t] # "panicked"
            /\ \A t \in Tasks : pc[t] \in Served => up

LEMMA InitHealthy == Init => Healthy
BY DEF Init, Healthy, Served, Live, Executing

(* A call moves on in a process that stays up. *)
LEMMA MoveHealthy ==
  ASSUME TypeOK, Healthy, NEW t \in Tasks, NEW l, Goto(t, l), l # "panicked",
         l \in Served => up', up => up'
  PROVE  Healthy'
BY DEF Healthy, Goto, TypeOK

LEMMA StayHealthy ==
  ASSUME Healthy, UNCHANGED <<pc, up>> PROVE Healthy'
BY DEF Healthy

LEMMA GoneHealthy == ASSUME Healthy, ProcessGone(KilledPc) PROVE Healthy'
<1>1. \A t \in Tasks : KilledPc[t] # "panicked" /\ KilledPc[t] \notin Served
  BY DEF Healthy, KilledPc, Served, Live, Executing
<1> QED
  BY <1>1 DEF Healthy, ProcessGone

LEMMA ThreadHealthy ==
  ASSUME TypeOK, MapClaims, NonEmptyMaps, Healthy, NEW t \in Tasks, ThreadStep(t)
  PROVE  Healthy'
<1> USE DEF procVars
<1>1. ~CleanupPanics(t)
  BY RunningIsActive DEF CleanupPanics, Running, Executing
<1>2. pc[t] \in Live => up
  BY DEF Healthy, Served
<1>3. CASE UNCHANGED <<pc, up>>
  BY <1>3, StayHealthy
<1>4. CASE \/ ResolveConfig(t) \/ ResolveConfigFails(t)
           \/ UpdatePolledMaps(t) \/ TaskConflict(t)
           \/ OpenFilterMapFails(t) \/ WriteFiltersFails(t) \/ SetupDone(t)
  <2>1. pc[t] \in Live
    BY <1>4 DEF ResolveConfig, ResolveConfigFails, UpdatePolledMaps, TaskConflict,
                OpenFilterMapFails, WriteFiltersFails, SetupDone, Live, Executing
  <2> QED
    BY <1>2, <1>4, <2>1, MoveHealthy
       DEF ResolveConfig, ResolveConfigFails, UpdatePolledMaps, TaskConflict,
           OpenFilterMapFails, WriteFiltersFails, SetupDone
<1>5. CASE \/ DiscardDone(t) \/ DiscardFails(t) \/ AttachFails(t)
           \/ AttachConversionFails(t) \/ SpawnPollers(t) \/ JoinPollers(t)
           \/ FinishExecute(t) \/ FinishExecuteDrainFails(t) \/ CleanupPolledMaps(t)
  <2>1. pc[t] \in Live
    BY <1>5 DEF DiscardDone, DiscardFails, AttachFails, AttachConversionFails,
                SpawnPollers, JoinPollers, FinishExecute, FinishExecuteDrainFails,
                CleanupPolledMaps, Live, Executing
  <2> QED
    BY <1>2, <1>5, <2>1, MoveHealthy
       DEF DiscardDone, DiscardFails, AttachFails, AttachConversionFails, ReturnsError,
           SpawnPollers, JoinPollers, FinishExecute, FinishExecuteDrainFails,
           CleanupPolledMaps
<1> QED
  BY <1>1, <1>3, <1>4, <1>5
     DEF ThreadStep, SetupSkipsProbe, OpenFilterMap, WriteFilters, DiscardMap, AttachProbe

LEMMA NextHealthy ==
  TypeOK /\ MapClaims /\ NonEmptyMaps /\ Healthy /\ [Next]_vars => Healthy'
<1> SUFFICES ASSUME TypeOK, MapClaims, NonEmptyMaps, Healthy, [Next]_vars
             PROVE  Healthy'
  OBVIOUS
<1> USE DEF procVars
<1>1. ASSUME NEW t \in Tasks, ClientStep(t) PROVE Healthy'
  <2>1. CASE Bind(t)           BY <2>1, MoveHealthy DEF Bind
  <2>2. CASE StartFails(t)
    BY <2>2, MoveHealthy DEF StartFails, Served, Live, Executing
  <2>3. CASE StartTasks(t)     BY <2>3, MoveHealthy DEF StartTasks, Healthy, Served
  <2>4. CASE ClientReleases(t) BY <2>4, StayHealthy DEF ClientReleases
  <2> QED
    BY <1>1, <2>1, <2>2, <2>3, <2>4 DEF ClientStep
<1>2. CASE \E t \in Tasks : ThreadStep(t)
  BY <1>2, ThreadHealthy
<1>3. CASE \E t \in Tasks, m \in Maps : PollReads(t, m) \/ PollEnds(t, m)
  BY <1>3, StayHealthy DEF PollReads, PollEnds, PollFinishes, PollReadFails, PollFails
<1>4. CASE \E t \in Tasks : \E i \in 1..NumProbes(t) : ProbeFires(t, i)
  BY <1>4, StayHealthy DEF ProbeFires
<1>5. CASE ServiceStop \/ Crash
  BY <1>5, GoneHealthy DEF ServiceStop, Crash
<1>6. CASE UNCHANGED vars
  BY <1>6, StayHealthy DEF vars
<1> QED
  BY <1>1, <1>2, <1>3, <1>4, <1>5, <1>6 DEF Next, AllDone

LEMMA AlwaysHealthy == ASSUME NonEmptyMaps PROVE Spec => []Healthy
<1>1. TypeOK /\ MapClaims /\ Healthy /\ [Next]_vars => Healthy'
  BY NextHealthy
<1> QED
  BY <1>1, TypeCorrect, ClaimsAccounted, InitHealthy, PTL DEF Spec

(* "This should never happen" never does, when every config names a map to  *)
(* poll: no task thread panics in cleanup_polled_bpf_maps.                  *)
THEOREM PanicFree == ASSUME NonEmptyMaps PROVE Spec => []NoPanic
<1>1. Healthy => NoPanic
  BY DEF Healthy, NoPanic
<1> QED
  BY <1>1, AlwaysHealthy, PTL

(* The LazyServiceGuard is held, in a live process, throughout step 3. *)
THEOREM GuardHeld == Spec => []GuardHeldWhileExecuting
<1>1. CASE NonEmptyMaps
  <2>1. TypeOK /\ MapClaims /\ Healthy => GuardHeldWhileExecuting
    BY <1>1, RunningIsActive DEF GuardHeldWhileExecuting, Healthy, Served, Live, Running
  <2> QED
    BY <1>1, <2>1, TypeCorrect, ClaimsAccounted, AlwaysHealthy, PTL
<1>2. CASE ~NonEmptyMaps
  <2>1. TypeOK => GuardHeldWhileExecuting
    BY <1>2 DEF GuardHeldWhileExecuting
  <2> QED
    BY <2>1, TypeCorrect, PTL
<1> QED
  BY <1>1, <1>2

=============================================================================
