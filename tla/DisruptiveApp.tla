---------------------------- MODULE DisruptiveApp ----------------------------
(***************************************************************************)
(* Two kinds of disruptive behaviour of apps: binding a service with the   *)
(* flag that allows background activity starts, and disabling a launcher   *)
(* activity.  Strings are abstracted to whether they are empty.            *)
(***************************************************************************)
EXTENDS PollLoop

VARIABLES
    userBuild  \* is_user_build

disruptiveVars == <<userBuild>>

DisruptiveInit == userBuild \in BOOLEAN

(* A call of bindServiceLocked with an intent that names a component.       *)
(* other: the action or the class is not empty.                             *)
Binds == [bal : BOOLEAN, pkg : BOOLEAN, component : BOOLEAN, other : BOOLEAN, caller : BOOLEAN]

(* A call of setComponentEnabledSetting; 2 is COMPONENT_ENABLED_STATE_DISABLED. *)
(* launcher: what isLauncherActivity answers when the record is handled.    *)
Settings == [pkg : BOOLEAN, class : BOOLEAN, state : {1, 2}, caller : {"", "shell", "app"},
             launcher : {FALSE}]

-----------------------------------------------------------------------------
(* Mutated forms of operations defined below. *)

(* The names are written on every build. *)
NamesAlways(r) == <<CodegenAtom(r, "BindServiceLockedWithBalFlagsReported")>>

-----------------------------------------------------------------------------
(* The BPF programs. *)

BindServiceLocked(d) ==
    /\ mapPath = "DisruptiveApp_BindServiceLocked_output_buf"
    /\ d.bal
    /\ Reserve([error |-> FALSE, call |-> d])
    /\ UNCHANGED disruptiveVars

SetComponentEnabledSetting(d) ==
    /\ mapPath = "DisruptiveApp_ComponentEnabledSetting_output_buf"
    /\ Reserve([error |-> FALSE, call |-> d])
    /\ UNCHANGED disruptiveVars

(* There is no intent or no component (an implicit intent has none), or a   *)
(* read of user memory fails: the fields left are not set.                  *)
Unreadable ==
    /\ Reserve([error |-> TRUE, call |-> "unset"])
    /\ UNCHANGED disruptiveVars

-----------------------------------------------------------------------------
Handling(path) == phase = "handling" /\ mapPath = path

(* An error code below zero. *)
OnProgramError ==
    /\ phase = "handling" /\ Head(batch).data.error
    /\ Refuse(<<>>, "BpfProgramError", -14)
    /\ UNCHANGED disruptiveVars

(* A string is not terminated or not UTF-8. *)
OnMalformed ==
    /\ phase = "handling" /\ ~Head(batch).data.error
    /\ \E e \in {<<"TaskExecutionFailed", 0>>} \cup
                (IF mapPath = "DisruptiveApp_ComponentEnabledSetting_output_buf"
                 THEN {<<"BpfRingBufferDataInvalid", n>> : n \in 1..2} ELSE {}) :
           Refuse(<<>>, e[1], e[2])
    /\ UNCHANGED disruptiveVars

(* log_to_statsd of BindServiceLockedHandler. *)
BindNames(r) ==
    IF userBuild THEN <<>> ELSE <<CodegenAtom(r, "BindServiceLockedWithBalFlagsReported")>>

BindUids(r) ==
    IF r.data.call.caller /\ (r.data.call.pkg \/ r.data.call.component)
    THEN <<CodegenAtom(r, "BindServiceLockedWithBalFlagsUidsReported")>> ELSE <<>>

(* The program has checked the flag already. *)
BindOutputs(r) ==
    IF r.data.call.bal THEN BindNames(r) \o BindUids(r) \o <<Event(r, FALSE)>> ELSE <<>>

BindIsEmpty(d) == ~(d.caller \/ d.pkg \/ d.component \/ d.other)

OnBind ==
    /\ Handling("DisruptiveApp_BindServiceLocked_output_buf")
    /\ ~Head(batch).data.error
    /\ LET r == Head(batch)
           d == r.data.call
       IN  \/ BindIsEmpty(d) /\ Refuse(<<>>, "BpfRingBufferDataInvalid", 1)
           \/ ~BindIsEmpty(d) /\ Accept(r, BindOutputs(r))
           \/ /\ ~BindIsEmpty(d)
              /\ \E outs \in CutShort(BindOutputs(r), FALSE) :
                     Refuse(outs, "TaskExecutionFailed", 0)
    /\ UNCHANGED disruptiveVars

(* The package whose uid stands for the caller. *)
CallingPackage(caller) == IF caller = "shell" THEN "com.android.shell" ELSE caller

(* check_disabled_launcher_activity_and_log_to_statsd, then                 *)
(* enqueue_dynamic_instrumentation_event, once the answer is known.         *)
SettingOutputs(r) ==
    LET d == r.data.call
    IN  (IF userBuild THEN <<>> ELSE <<CodegenAtom(r, "SetComponentEnabledSettingReported")>>) \o
        (IF d.launcher /\ d.caller # ""
         THEN <<[CodegenAtom(r, "DisabledLauncherActivityUidsReported")
                 EXCEPT !.fields = <<CallingPackage(d.caller)>>]>> ELSE <<>>) \o
        (IF d.launcher THEN <<Event(r, FALSE)>> ELSE <<>>)

Disables(d) == d.state >= 2

OnSetting ==
    /\ Handling("DisruptiveApp_ComponentEnabledSetting_output_buf")
    /\ ~Head(batch).data.error
    /\ \E answer \in BOOLEAN :
           LET r == [Head(batch) EXCEPT !.data.call.launcher = answer]
               d == r.data.call
           IN  \/ ~d.pkg /\ Refuse(<<>>, "BpfRingBufferDataInvalid", 1)
               \/ d.pkg /\ ~d.class /\ Refuse(<<>>, "BpfRingBufferDataInvalid", 2)
               \/ d.pkg /\ d.class /\ ~Disables(d) /\ Accept(Head(batch), <<>>)
               \/ d.pkg /\ d.class /\ Disables(d) /\ Accept(r, SettingOutputs(r))
               \/ /\ d.pkg /\ d.class /\ Disables(d)
                  /\ \E outs \in CutShort(SettingOutputs(r), TRUE) :
                         Refuse(outs, "TaskExecutionFailed", 0)
    /\ UNCHANGED disruptiveVars

OnDisruptiveFinished == FinishOk(<<>>) /\ UNCHANGED disruptiveVars

DisruptiveNext ==
    \/ LoopStep /\ UNCHANGED disruptiveVars
    \/ \E i \in 1..RingCapacity : Submit(i) /\ UNCHANGED disruptiveVars
    \/ \E d \in Binds : BindServiceLocked(d)
    \/ \E d \in Settings : SetComponentEnabledSetting(d)
    \/ Unreadable
    \/ OnProgramError \/ OnMalformed \/ OnBind \/ OnSetting \/ OnDisruptiveFinished

-----------------------------------------------------------------------------
(* Properties. *)

DisruptiveTypeOK == userBuild \in BOOLEAN

Written(r) == {o.what : o \in {p \in ToSet(out) : p.id = r.id}}

(* What a record asks for, whatever the order of the checks.                *)
Wanted(r) ==
    LET d == r.data.call
        bind == mapPath = "DisruptiveApp_BindServiceLocked_output_buf"
        disruptive == IF bind THEN d.bal ELSE Disables(d) /\ d.launcher
        known == IF bind THEN d.caller ELSE d.caller # ""
    IN  {w \in {"event", "BindServiceLockedWithBalFlagsReported",
                "BindServiceLockedWithBalFlagsUidsReported", "SetComponentEnabledSettingReported",
                "DisabledLauncherActivityUidsReported"} :
           CASE w = "event" -> disruptive
             [] w = "BindServiceLockedWithBalFlagsReported" -> bind /\ disruptive /\ ~userBuild
             [] w = "BindServiceLockedWithBalFlagsUidsReported" ->
                    bind /\ disruptive /\ known /\ (d.pkg \/ d.component)
             [] w = "SetComponentEnabledSettingReported" -> ~bind /\ Disables(d) /\ ~userBuild
             [] OTHER -> ~bind /\ disruptive /\ known}

NameAtoms == {"BindServiceLockedWithBalFlagsReported", "SetComponentEnabledSettingReported"}

(* Every record accepted is reported completely and every disruptive one    *)
(* reaches the consumer; only the record that ended the loop may have some  *)
(* of its outputs, and never the event without its atoms; user builds write *)
(* no names; and a call without a component ends the monitoring.            *)
DisruptionsReported ==
    mapPath \in DisruptiveMaps =>
        /\ \A r \in ToSet(seen) : ~r.data.error /\ Written(r) = Wanted(r)
        /\ \A o \in ToSet(out) :
               /\ o.id > Len(seen) => verdict = "reported" /\ o.what # "event"
               /\ o.what \in NameAtoms => ~userBuild

=============================================================================
