--------------------------- MODULE ConfigResolver ---------------------------
(***************************************************************************)
(* resolve_config: from a parsed UprobestatsConfig to a ResolvedTask.      *)
(* Validation is interleaved with calls to the platform, of which the one  *)
(* for the process may take the task's whole duration.  A BPF file stands  *)
(* for the names that contain the same words (Words), a method for the     *)
(* verdict of the allow list on its name.                                  *)
(***************************************************************************)
EXTENDS Naturals, Sequences, SequencesExt

CONSTANTS
    Configs,    \* configs to resolve: sequences of tasks
    FlagSets,   \* sets of enabled flags
    Words,      \* BPF file -> words its name contains
    BinderProg, \* BINDER_BPF_PROGRAM_NAME
    A11yProg,   \* PROG_BINDER_A11Y_SERVICE_CONNECTION
    Absent,     \* an optional field that is not set
    EmptyName   \* a name that is set to the empty string

(* The messages of config.proto, in the fields that are looked at. *)
MethodConfig == [id : {Absent} \cup Nat, event : {Absent, "flush", "buffer"}, atom : {Absent} \cup Nat]
BinderTransactionFilter ==
    [interface : {Absent, EmptyName} \cup STRING, methods : Seq(MethodConfig)]
ProbeConfig == [bpf : {Absent} \cup STRING, method : {Absent, "listed", "unlisted"},
                filters : Seq(BinderTransactionFilter)]
TaskConfig  == [maps : SUBSET STRING, duration : {Absent} \cup Nat, probes : Seq(ProbeConfig)]

ASSUME ConfigAssumption ==
    Configs \subseteq Seq(TaskConfig) /\ Absent \notin STRING /\ Absent \notin {"flush", "Flush"}

VARIABLES
    config, flags, isUserBuild, \* the input
    pc,        \* progress; "rejected" and "unavailable" are the two kinds of error
    error,     \* the variant of ConfigError: "none", "other", "task"
    filters,   \* binder_transaction_filters of the probes resolved so far
    asked      \* platform calls made: the process, and offsets per probe

vars == <<config, flags, isUserBuild, pc, error, filters, asked>>
input == <<config, flags, isUserBuild>>

Init ==
    /\ config \in Configs /\ flags \in FlagSets /\ isUserBuild \in BOOLEAN
    /\ pc = "parsed" /\ error = "none"
    /\ filters = <<>> /\ asked = 0

Task   == config[1]
Probes == Task.probes

-----------------------------------------------------------------------------
(* Mutated forms of operations defined below: each is a plausible bug, and  *)
(* PROJECT.json names the property that rules it out.                       *)

(* insert without a look at what it returns: the later entry wins. *)
InsertOverwrites(map, key, value) ==
    [ok |-> TRUE, map |-> [k \in DOMAIN map \cup {key} |-> IF k = key THEN value ELSE map[k]]]

(* Only one of the two kinds of consumer is thought of. *)
NeedsAtom(m) == m.id # Absent /\ m.id > 0 /\ m.atom \notin {Absent, 0}

(* Offsets are asked for before and after the checks of a probe. *)
AskTwice ==
    /\ pc = "probing" /\ Len(filters) < Len(Probes)
    /\ filters' = Append(filters, [k \in {} |-> {}])
    /\ asked' = asked + 2
    /\ UNCHANGED <<input, pc, error>>

(* The verdict on the last probe stands for all. *)
LastProbeDecides(probes) ==
    IF probes = <<>> THEN TRUE ELSE Last(probes).bpf = A11yProg \/ Last(probes).method = "listed"

-----------------------------------------------------------------------------
(* Guardrail. *)

(* The loop over the probes: it ends at the accessibility program, with     *)
(* TRUE, and at the first method that has no name or is not on the list.    *)
AllowListed(probes) ==
    LET Decides(i) == \/ probes[i].bpf \in {Absent, A11yProg}
                      \/ probes[i].method # "listed"
        deciding == {i \in DOMAIN probes : Decides(i)}
    IN  deciding # {} => probes[Min(deciding)].bpf = A11yProg

(* All tasks are looked at, though only configs with one get here. *)
IsAllowed(tasks) ==
    isUserBuild => AllowListed(FlattenSeq([i \in DOMAIN tasks |-> tasks[i].probes]))

-----------------------------------------------------------------------------
(* Flags: what a name contains, and the flags of which one must be on. *)

FlagRules ==
    << <<"DisruptiveApp",    {"uprobestats_monitor_disruptive_app_activities"}>>,
       <<"snapshot",         {"enable_bitmap_snapshot"}>>,
       <<"BitmapAllocation", {"enable_bitmap_instrumentation", "enable_bitmap_snapshot"}>>,
       <<"Binder",           {"enable_binder_transaction"}>>,
       <<"scaled",           {"enable_bitmap_scaled_instrumentation"}>>,
       <<"Accessibility",    {"a11y_runtime_permission"}>> >>

(* The first rule whose word occurs in the name decides. *)
IsBpfFileEnabled(f) ==
    LET hits == {i \in DOMAIN FlagRules : FlagRules[i][1] \in Words[f]}
    IN  hits # {} => FlagRules[Min(hits)][2] \cap flags # {}

-----------------------------------------------------------------------------
(* Binder transaction filters. *)

EmptyMap == [k \in {} |-> {}]

(* HashMap::insert, and the bail on a key that is there already. *)
InsertNew(map, key, value) ==
    [ok |-> key \notin DOMAIN map,
     map |-> [k \in DOMAIN map \cup {key} |-> IF k = key THEN value ELSE map[k]]]

(* The checks on one method_config. Ids and atom ids that are not positive  *)
(* are 0.                                                                   *)
MethodOk(m) ==
    /\ m.id # Absent /\ m.id > 0
    /\ m.event # Absent \/ m.atom # Absent
    /\ m.atom # 0

EventMode(m) == IF m.event = Absent THEN Absent ELSE IF m.event = "flush" THEN "Flush" ELSE "Buffer"

AddMethod(acc, m) ==
    IF ~acc.ok \/ ~MethodOk(m) THEN [acc EXCEPT !.ok = FALSE]
    ELSE InsertNew(acc.map, m.id, [event |-> EventMode(m), atom |-> m.atom])

AddFilter(acc, f) ==
    IF ~acc.ok \/ f.interface \in {Absent, EmptyName} \/ f.methods = <<>>
    THEN [acc EXCEPT !.ok = FALSE]
    ELSE LET inner == FoldLeft(AddMethod, [ok |-> TRUE, map |-> EmptyMap], f.methods)
         IN  IF inner.ok THEN InsertNew(acc.map, f.interface, inner.map)
                         ELSE [acc EXCEPT !.ok = FALSE]

ResolveBinderTransactionFilters(p) ==
    IF p.bpf = BinderProg
    THEN FoldLeft(AddFilter, [ok |-> p.filters # <<>>, map |-> EmptyMap], p.filters)
    ELSE [ok |-> p.filters = <<>>, map |-> EmptyMap]

-----------------------------------------------------------------------------
(* resolve_config and what it calls. *)

Reject(from, variant) ==
    /\ pc = from /\ pc' = "rejected" /\ error' = variant
    /\ UNCHANGED <<input, filters, asked>>

(* The bytes do not parse, or there is not exactly one task. *)
RejectConfig == Reject("parsed", "other") /\ Len(config) # 1

CheckGuardrail ==
    /\ pc = "parsed" /\ Len(config) = 1 /\ IsAllowed(config)
    /\ pc' = "allowed"
    /\ UNCHANGED <<input, error, filters, asked>>

RejectGuardrail == Reject("parsed", "task") /\ Len(config) = 1 /\ ~IsAllowed(config)

(* Maps and duration. *)
TaskOk == /\ \A f \in Task.maps : IsBpfFileEnabled(f)
          /\ Task.duration # Absent /\ Task.duration > 0

ValidateTask ==
    /\ pc = "allowed" /\ TaskOk
    /\ pc' = "valid"
    /\ UNCHANGED <<input, error, filters, asked>>

RejectTask == Reject("allowed", "task") /\ ~TaskOk

(* process_resolver.resolve_process *)
ResolveProcess ==
    /\ pc = "valid" /\ pc' = "probing" /\ asked' = 1
    /\ UNCHANGED <<input, error, filters>>

ResolveProcessFails ==
    /\ pc = "valid" /\ pc' = "unavailable" /\ error' = "task" /\ asked' = 1
    /\ UNCHANGED <<input, filters>>

(* The checks of resolve_probes before it asks for offsets. *)
ProbeOk(p) == /\ p.bpf # Absent /\ IsBpfFileEnabled(p.bpf)
              /\ ResolveBinderTransactionFilters(p).ok
              /\ p.method # Absent

Next1 == Probes[Len(filters) + 1]
Left  == Len(filters) < Len(Probes)

ResolveProbe ==
    /\ pc = "probing" /\ Left /\ ProbeOk(Next1)
    /\ filters' = Append(filters, ResolveBinderTransactionFilters(Next1).map)
    /\ asked' = asked + 1
    /\ UNCHANGED <<input, pc, error>>

(* The offset resolver fails or knows no such method. *)
ResolveOffsetsFails ==
    /\ pc = "probing" /\ Left /\ ProbeOk(Next1)
    /\ pc' = "unavailable" /\ error' = "task" /\ asked' = asked + 1
    /\ UNCHANGED <<input, filters>>

RejectProbe == Reject("probing", "task") /\ Left /\ ~ProbeOk(Next1)

Resolved ==
    /\ pc = "probing" /\ ~Left
    /\ pc' = "resolved"
    /\ UNCHANGED <<input, error, filters, asked>>

Ended == pc \in {"resolved", "rejected", "unavailable"} /\ UNCHANGED vars

Next ==
    \/ RejectConfig \/ CheckGuardrail \/ RejectGuardrail \/ ValidateTask \/ RejectTask
    \/ ResolveProcess \/ ResolveProcessFails
    \/ ResolveProbe \/ ResolveOffsetsFails \/ RejectProbe \/ Resolved
    \/ Ended

Spec == Init /\ [][Next]_vars

-----------------------------------------------------------------------------
(* Reference: what a well-formed task is, without an order of checks. *)

Distinct(s) == \A i, j \in DOMAIN s : s[i] = s[j] => i = j

GoodMethod(m) == /\ m.id \notin {Absent, 0}
                 /\ m.atom # 0
                 /\ m.event # Absent \/ m.atom # Absent

GoodFilter(f) == /\ f.interface \notin {Absent, EmptyName}
                 /\ f.methods # <<>> /\ \A i \in DOMAIN f.methods : GoodMethod(f.methods[i])
                 /\ Distinct([i \in DOMAIN f.methods |-> f.methods[i].id])

GoodProbe(p) == /\ Absent \notin {p.bpf, p.method}
                /\ (p.bpf = BinderProg) <=> (p.filters # <<>>)
                /\ \A i \in DOMAIN p.filters : GoodFilter(p.filters[i])
                /\ Distinct([i \in DOMAIN p.filters |-> p.filters[i].interface])

GoodTask(t) == t.duration \notin {Absent, 0} /\ \A i \in DOMAIN t.probes : GoodProbe(t.probes[i])

(* Properties. *)

(* Every variable has its type, and a platform call is made once for the    *)
(* process and once per probe at most.                                      *)
TypeOK ==
    /\ pc \in {"parsed", "allowed", "valid", "probing", "resolved", "rejected", "unavailable"}
    /\ error \in {"none", "other", "task"}
    /\ pc # "parsed" /\ error # "other" => Len(filters) <= Len(Probes)
    /\ asked <= 1 + (IF Len(config) = 1 THEN Len(Probes) ELSE 0)

(* The methods are on the allow list, up to the accessibility program.      *)
Listed == \A i \in DOMAIN Probes : \/ Probes[i].bpf # Absent /\ Probes[i].method = "listed"
                                   \/ \E j \in 1..i : Probes[j].bpf = A11yProg

Enabled == \A f \in Task.maps \cup {Probes[i].bpf : i \in DOMAIN Probes} :
               f # Absent => IsBpfFileEnabled(f)

Acceptable == /\ Len(config) = 1
              /\ isUserBuild => Listed
              /\ Enabled /\ GoodTask(Task)

(* Whatever the order of checks and platform calls, a resolved config is    *)
(* acceptable, and one that is rejected, the platform answering, is not.    *)
ResolvedIffAcceptable ==
    /\ pc = "resolved" => Acceptable
    /\ pc = "rejected" => ~Acceptable

(* Nothing a config says about a binder method is lost: each method of each *)
(* filter is found under its interface and id, with its atom and its mode.  *)
FiltersComplete ==
    \A n \in DOMAIN filters : \A i \in DOMAIN Probes[n].filters :
        LET f == Probes[n].filters[i]
        IN  \A j \in DOMAIN f.methods :
                LET m == f.methods[j]
                IN  /\ f.interface \in DOMAIN filters[n]
                    /\ m.id \in DOMAIN filters[n][f.interface]
                    /\ filters[n][f.interface][m.id].atom = m.atom
                    /\ (filters[n][f.interface][m.id].event = "Flush") <=> (m.event = "flush")

(* The platform is only asked, and the wait for a process only begun, for   *)
(* one task with a duration and enabled maps that the device allows.        *)
AskedOnlyIfAllowed ==
    asked > 0 => /\ Len(config) = 1 /\ Task.duration \notin {Absent, 0}
                 /\ \A f \in Task.maps : IsBpfFileEnabled(f)
                 /\ isUserBuild => Listed

=============================================================================
