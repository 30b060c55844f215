--------------------------- MODULE GenericHandlers ---------------------------
(***************************************************************************)
(* Generic instrumentation and process management: four maps, each with a  *)
(* handler that writes one atom per record, with the id and, for call      *)
(* results, the argument positions the task's config names.                *)
(***************************************************************************)
EXTENDS PollLoop

CONSTANTS
    LoggingConfigs, \* statsd_logging_config of a task
    Registers       \* registers of a CallResult (10)

ASSUME GenericAssumption ==
    /\ Registers \in Nat \ {0}
    /\ \A l \in LoggingConfigs : l.present \in BOOLEAN /\ l.atomId \in BOOLEAN

VARIABLES
    logging   \* [present, atomId, positions]: the config of the task

genericVars == <<logging>>

GenericInit == logging \in LoggingConfigs

-----------------------------------------------------------------------------
(* Mutated forms of operations defined below. *)

(* Argument registers are counted from the first one. *)
RegisterOfFirst(position) == 1 + position

-----------------------------------------------------------------------------
(* The BPF programs.  A call result holds the registers, of which register  *)
(* i has value i here; bad: a uid that is no i32, or a reason that could    *)
(* not be read.                                                             *)
ProbeHits(bad) ==
    /\ Reserve([bad |-> bad /\ mapPath \in AllowlistMaps])
    /\ UNCHANGED genericVars

-----------------------------------------------------------------------------
JAVA_ARGUMENT_REGISTER_OFFSET == 2
RegisterIndex(position) == JAVA_ARGUMENT_REGISTER_OFFSET + position

IndexOk(position)  == RegisterIndex(position) >= 0
InBounds(position) == RegisterIndex(position) < Registers

(* The fields of the atom, by handler. *)
AtomFields ==
    CASE mapPath = "GenericInstrumentation_call_timestamp_buf" -> <<"event", "timestampNs">>
      [] mapPath = "GenericInstrumentation_call_detail_buf" ->
             [i \in DOMAIN logging.positions |-> RegisterIndex(logging.positions[i])]
      [] mapPath = "ProcessManagement_output_buf" -> <<"uid", "onAllowlist">>
      [] OTHER -> <<"changing_uid", "adding", "duration_ms", "type_", "reason_code", "reason",
                    "calling_uid">>

(* The first position, in order, that cannot be read. *)
BadPositions == {i \in DOMAIN logging.positions :
                     ~(IndexOk(logging.positions[i]) /\ InBounds(logging.positions[i]))}
ReadsRegisters == mapPath = "GenericInstrumentation_call_detail_buf"
FirstBad == logging.positions[Min(BadPositions)]

OnItemUnconfigured ==
    /\ phase = "handling" /\ ~logging.present
    /\ Accept(Head(batch), <<>>)
    /\ UNCHANGED genericVars

OnItemWritten ==
    /\ phase = "handling" /\ logging.present /\ logging.atomId
    /\ ReadsRegisters => BadPositions = {}
    /\ ~Head(batch).data.bad
    /\ Accept(Head(batch), <<UnstructuredAtom(Head(batch), AtomFields)>>)
    /\ UNCHANGED genericVars

(* No atom id, a conversion fails, a position is negative, or the write     *)
(* fails.                                                                   *)
OnItemError ==
    /\ phase = "handling" /\ logging.present
    /\ ~(logging.atomId /\ ReadsRegisters /\ BadPositions # {} /\ IndexOk(FirstBad))
    /\ Refuse(<<>>, "TaskExecutionFailed", 0)
    /\ UNCHANGED genericVars

(* The index is beyond the array: the thread panics and reports nothing;    *)
(* its join gives execute an error.                                         *)
OnItemPanics ==
    /\ phase = "handling" /\ logging.present /\ logging.atomId
    /\ ReadsRegisters /\ BadPositions # {} /\ IndexOk(FirstBad)
    /\ End("error")
    /\ UNCHANGED <<mapPath, clock, duration, hits, ring, batch, total, seen, out, reports, polled,
                   genericVars>>

OnGenericFinished == FinishOk(<<>>) /\ UNCHANGED genericVars

GenericNext ==
    \/ LoopStep /\ UNCHANGED genericVars
    \/ \E i \in 1..RingCapacity : Submit(i) /\ UNCHANGED genericVars
    \/ \E bad \in BOOLEAN : ProbeHits(bad)
    \/ OnItemUnconfigured \/ OnItemWritten \/ OnItemError \/ OnItemPanics \/ OnGenericFinished

=============================================================================
