------------------------------ MODULE Handlers ------------------------------
(***************************************************************************)
(* poll_registry: the poll loop of one map of a task, with the handler     *)
(* that the flags and the platform's SDK level select for it.              *)
(***************************************************************************)
EXTENDS Accessibility, BinderTransaction, BitmapAllocation, DisruptiveApp, GenericHandlers

CONSTANTS
    Maps,     \* the maps polled
    FlagSets  \* settings of the flags; "CINNAMON_BUN" is the SDK level

ASSUME HandlersAssumption ==
    /\ Maps \subseteq MapPaths /\ Maps \subseteq DOMAIN Durations
    /\ \A m \in Maps : MaxHits[m] \in Nat

VARIABLES
    flags

vars == <<loopVars, flags, accessibilityVars, binderVars, bitmapVars, disruptiveVars, genericVars>>

(* A handler that is not the one of the map keeps no state, and V0 treats   *)
(* the records of all programs alike.                                       *)
Init ==
    /\ mapPath \in Maps /\ flags \in FlagSets
    /\ LoopInit
    /\ AccessibilityInit
    /\ IF mapPath = "Binder_output_buf" THEN BinderInit
       ELSE config = <<>> /\ found = {} /\ filters = <<>> /\ pending = {} /\ access = "closed"
    /\ BitmapInit
    /\ version = IF "enable_bitmap_snapshot" \in flags THEN "V1" ELSE "V0"
    /\ mapPath # "BitmapAllocation_output" \/ version = "V0" => program = "bitmap_creation"
    /\ IF mapPath \in DisruptiveMaps THEN DisruptiveInit ELSE userBuild = TRUE
    /\ IF mapPath \in GenericMaps \cup AllowlistMaps THEN GenericInit
       ELSE logging = [present |-> FALSE, atomId |-> FALSE, positions |-> <<>>]

(* HANDLER_REGISTRY. *)
Registered ==
    {"BitmapAllocation_output"} \cup GenericMaps \cup AllowlistMaps
    \cup (IF "enable_binder_transaction" \in flags THEN {"Binder_output_buf"} ELSE {})
    \cup (IF {"CINNAMON_BUN", "a11y_runtime_permission"} \subseteq flags
          THEN {"Accessibility_output_buf"} ELSE {})
    \cup (IF {"CINNAMON_BUN", "uprobestats_monitor_disruptive_app_activities"} \subseteq flags
          THEN DisruptiveMaps ELSE {})

(* "unsupported map_path" *)
PollRegistryFails ==
    /\ phase = "new" /\ mapPath \notin Registered
    /\ End("error")
    /\ UNCHANGED <<mapPath, clock, duration, hits, ring, batch, total, seen, out, reports, polled,
                   accessibilityVars, binderVars, bitmapVars, disruptiveVars, genericVars>>

PollRegistry ==
    /\ mapPath \in Registered
    /\ \/ /\ mapPath = "Accessibility_output_buf" /\ AccessibilityNext
          /\ UNCHANGED <<binderVars, bitmapVars, disruptiveVars, genericVars>>
       \/ /\ mapPath = "Binder_output_buf" /\ BinderNext
          /\ UNCHANGED <<accessibilityVars, bitmapVars, disruptiveVars, genericVars>>
       \/ /\ mapPath = "BitmapAllocation_output" /\ BitmapNext
          /\ UNCHANGED <<accessibilityVars, binderVars, disruptiveVars, genericVars>>
       \/ /\ mapPath \in DisruptiveMaps /\ DisruptiveNext
          /\ UNCHANGED <<accessibilityVars, binderVars, bitmapVars, genericVars>>
       \/ /\ mapPath \in GenericMaps \cup AllowlistMaps /\ GenericNext
          /\ UNCHANGED <<accessibilityVars, binderVars, bitmapVars, disruptiveVars>>

Ended ==
    /\ phase = "ended" /\ access \in {"closed", "drained", "stuck"}
    /\ UNCHANGED vars

Next ==
    \/ (PollRegistry \/ PollRegistryFails) /\ UNCHANGED flags
    \/ Ended

Spec == Init /\ [][Next]_vars

-----------------------------------------------------------------------------
(* Properties. *)

(* Every variable has its type, and only submitted records are ever read.   *)
TypeOK ==
    /\ LoopTypeOK /\ AccessibilityTypeOK /\ BinderTypeOK /\ BitmapTypeOK /\ DisruptiveTypeOK
    /\ logging.present \in BOOLEAN /\ logging.atomId \in BOOLEAN

(* What the task's config asks for a record, of the maps whose handlers     *)
(* follow a config; for a transaction all probes have a say.                *)
MethodOf(r, p) == config[p][r.data.name][r.data.code]
Asking(r)      == Probes(r.data.name, r.data.code)

AtomAsked(r) ==
    IF mapPath = "Binder_output_buf" THEN \E p \in Asking(r) : MethodOf(r, p).atom
    ELSE logging.present /\ logging.atomId

EventAsked(r) ==
    mapPath = "Binder_output_buf" /\ \E p \in Asking(r) : MethodOf(r, p).mode # "none"

FieldsAsked(r) ==
    CASE mapPath = "Binder_output_buf" -> FirstMethod(r.data.name, r.data.code).positions
      [] mapPath = "GenericInstrumentation_call_detail_buf" ->
             [i \in DOMAIN logging.positions |-> 2 + logging.positions[i]]
      [] OTHER -> AtomFields

(* "The config value should be [1, 0], meaning the 2nd argument is actually *)
(* the first field in the atom": every record accepted has given the atom   *)
(* and the event its config asks for, once, fields in the order configured, *)
(* and flushed exactly if the mode says so; and every transaction accepted  *)
(* is one the config names, also when keys of an earlier task are still in  *)
(* the filter map.                                                          *)
OutputsAsConfigured ==
    mapPath \in GenericMaps \cup AllowlistMaps \cup {"Binder_output_buf"} =>
        \A r \in ToSet(seen) :
            LET outs  == {n \in DOMAIN out : out[n].id = r.id}
                atoms == {n \in outs : out[n].what = "atom"}
            IN  /\ mapPath = "Binder_output_buf" => Configured(r.data.name, r.data.code)
                /\ Cardinality(atoms) = IF AtomAsked(r) THEN 1 ELSE 0
                /\ \A n \in atoms : out[n].fields = FieldsAsked(r)
                /\ Cardinality(outs \ atoms) = IF EventAsked(r) THEN 1 ELSE 0
                /\ \A n \in outs \ atoms : \A p \in Asking(r) :
                       out[n].what = IF MethodOf(r, p).mode = "Flush" THEN "flush" ELSE "event"

=============================================================================
