-------------------------- MODULE BitmapAllocation --------------------------
(***************************************************************************)
(* Bitmaps of one process: the BPF programs that see them allocated, freed *)
(* and scaled and see activities start, and the two handlers of their      *)
(* records.  The programs remember live bitmaps in the map active_bitmaps, *)
(* which is pinned and never drained.                                      *)
(***************************************************************************)
EXTENDS PollLoop

CONSTANTS
    Ptrs,       \* native pointers, "null" not among them
    Sizes,      \* sizes of bitmaps
    Activities, \* names of activities
    ActiveMax,  \* max_entries of active_bitmaps
    MaxOld      \* bound on the pointers known or in use before the task

ASSUME BitmapAssumption ==
    IsFiniteSet(Ptrs) /\ Sizes \subseteq Nat /\ {ActiveMax, MaxOld} \subseteq Nat

VARIABLES
    version,  \* "V0" or "V1": the handler the flag selects
    program,  \* the program attached to the creation of bitmaps
    keys,     \* pointers of the process in active_bitmaps
    others,   \* keys of other processes, dead ones included
    alive,    \* bitmaps that exist, id 0 for those without a record
    ghosts,   \* freed bitmaps whose release left no record
    current,  \* the activity the process has started last, "lost" if the
              \* start found the ring buffer full
    bitmaps,  \* self.bitmaps
    current_total_bitmap_size, max_total_bitmap_size,
    bitmap_snapshot_at_max_size,
    activity_name

bitmapVars == <<version, program, keys, others, alive, ghosts, current, bitmaps,
                current_total_bitmap_size, max_total_bitmap_size,
                bitmap_snapshot_at_max_size, activity_name>>

handlerVars == <<bitmaps, current_total_bitmap_size, max_total_bitmap_size,
                 bitmap_snapshot_at_max_size, activity_name>>

Types == {"ALLOCATION", "DEALLOCATION", "ACTIVITY_START", "BITMAP_SCALED", "none"}

BitmapEvent(t, p, s, a) == [type |-> t, ptr |-> p, size |-> s, activity |-> a]
Metadata(p, id, s, a)   == [ptr |-> p, id |-> id, size |-> s, activity |-> a]

(* What an unset field of a record holds: zero, or what an earlier record   *)
(* left in that place of the buffer.                                        *)
StaleSizes == {0} \cup Sizes

(* Without the program that uses active_bitmaps, its content and the        *)
(* bitmaps that exist do not matter.                                        *)
BitmapInit ==
    /\ program \in {"bitmap_creation", "bitmap_creation_for_snapshot"}
    /\ keys \in SUBSET Ptrs /\ others \in 0..ActiveMax
    /\ Cardinality(keys) + others <= ActiveMax
    /\ alive \in SUBSET {Metadata(p, 0, 0, "") : p \in Ptrs}
    /\ Cardinality(keys \cup {b.ptr : b \in alive}) <= MaxOld
    /\ program = "bitmap_creation" => keys = {} /\ others = 0 /\ alive = {}
    /\ ghosts = {} /\ current = ""
    /\ bitmaps = {}
    /\ current_total_bitmap_size = 0 /\ max_total_bitmap_size = 0
    /\ bitmap_snapshot_at_max_size = {}
    /\ activity_name = ""

-----------------------------------------------------------------------------
(* Mutated forms of operations defined below. *)

(* The metadata is replaced only if the pointer is new. *)
InsertOnce(b) ==
    IF \E c \in bitmaps : c.ptr = b.ptr THEN bitmaps ELSE bitmaps \cup {b}

(* A start is noted only while no bitmap is known. *)
FirstActivity(a) == IF bitmaps = {} THEN a ELSE activity_name

-----------------------------------------------------------------------------
(* The BPF programs. *)

Without(set, p) == {b \in set : b.ptr # p}

(* bpf_active_bitmaps_update_elem with BPF_NOEXIST, the result ignored. *)
UpdateElem(p) == IF Cardinality(keys) + others < ActiveMax THEN keys \cup {p} ELSE keys

(* Nothing that tells records apart is set: this one is zero, which is the  *)
(* type of an allocation, or what an earlier record left in its place.      *)
BitmapCreation ==
    /\ program = "bitmap_creation"
    /\ \/ Reserve(BitmapEvent("ALLOCATION", "null", 0, ""))
       \/ \E t \in Types, p \in Ptrs, s \in Sizes : Reserve(BitmapEvent(t, p, s, ""))
    /\ UNCHANGED bitmapVars

(* The pointer is not in use: no other thread knows it before the program   *)
(* has returned.                                                            *)
BitmapCreationForSnapshot(p, s) ==
    /\ program = "bitmap_creation_for_snapshot"
    /\ p \notin {b.ptr : b \in alive}
    /\ Reserve(BitmapEvent("ALLOCATION", p, s, ""))
    /\ keys' = UpdateElem(p)
    /\ alive' = alive \cup {Metadata(p, hits + 1, s, current)}
    /\ ghosts' = Without(ghosts, p)
    /\ UNCHANGED <<version, program, others, current, handlerVars>>

BitmapCreationUnrecorded(p) ==
    /\ program = "bitmap_creation_for_snapshot"
    /\ p \notin {b.ptr : b \in alive}
    /\ Full /\ UNCHANGED loopVars
    /\ alive' = alive \cup {Metadata(p, 0, 0, "")}
    /\ UNCHANGED <<version, program, keys, others, ghosts, current, handlerVars>>

(* b is freed, or another object at its pointer; the program runs before    *)
(* the memory is given back.  The size is not set.                          *)
ApplyFreeFunction(b) ==
    /\ program = "bitmap_creation_for_snapshot"
    /\ b.ptr \in keys
    /\ \E s \in StaleSizes : Reserve(BitmapEvent("DEALLOCATION", b.ptr, s, ""))
    /\ keys' = keys \ {b.ptr}
    /\ alive' = alive \ {b}
    /\ ghosts' = Without(ghosts, b.ptr)
    /\ UNCHANGED <<version, program, others, current, handlerVars>>

(* Without a key the program returns at once; with a key and no room it has *)
(* deleted the key before it finds out.                                     *)
ApplyFreeFunctionUnrecorded(b) ==
    /\ program = "bitmap_creation_for_snapshot"
    /\ b.ptr \notin keys \/ Full
    /\ Recording /\ UNCHANGED loopVars
    /\ keys' = keys \ {b.ptr}
    /\ alive' = alive \ {b}
    /\ ghosts' = IF b.id = 0 THEN ghosts ELSE ghosts \cup {b}
    /\ UNCHANGED <<version, program, others, current, handlerVars>>

ActivityPerformStart(a) ==
    /\ \/ Reserve(BitmapEvent("ACTIVITY_START", "", 0, a)) /\ current' = a
       \/ Full /\ UNCHANGED loopVars /\ current' = "lost"
    /\ UNCHANGED <<version, program, keys, others, alive, ghosts, handlerVars>>

CreateScaledBitmap(p) ==
    /\ Reserve(BitmapEvent("BITMAP_SCALED", p, 0, ""))
    /\ UNCHANGED bitmapVars

-----------------------------------------------------------------------------
(* BitmapAllocationHandlerV0 and V1. *)

Item(v, t) == phase = "handling" /\ version = v /\ Head(batch).data.type = t

AllocatedAtom(r) == CodegenAtom(r, "AndroidGraphicsBitmapAllocated")

(* One atom per record, whatever its type. *)
OnItemV0 ==
    /\ phase = "handling" /\ version = "V0"
    /\ Collect(<<AllocatedAtom(Head(batch))>>)
    /\ UNCHANGED bitmapVars

Insert(b) == Without(bitmaps, b.ptr) \cup {b}

OnAllocation ==
    /\ Item("V1", "ALLOCATION")
    /\ LET r == Head(batch)
           b == Metadata(r.data.ptr, r.id, r.data.size, activity_name)
       IN  /\ Collect(<<AllocatedAtom(r)>>)
           /\ bitmaps' = Insert(b)
           /\ current_total_bitmap_size' = current_total_bitmap_size + r.data.size
    /\ IF current_total_bitmap_size' > max_total_bitmap_size
       THEN /\ max_total_bitmap_size' = current_total_bitmap_size'
            /\ bitmap_snapshot_at_max_size' = bitmaps'
       ELSE UNCHANGED <<max_total_bitmap_size, bitmap_snapshot_at_max_size>>
    /\ UNCHANGED <<version, program, keys, others, alive, ghosts, current, activity_name>>

OnDeallocation ==
    /\ Item("V1", "DEALLOCATION")
    /\ Collect(<<>>)
    /\ bitmaps' = Without(bitmaps, Head(batch).data.ptr)
    /\ current_total_bitmap_size' = current_total_bitmap_size - Head(batch).data.size
    /\ UNCHANGED <<version, program, keys, others, alive, ghosts, current,
                   max_total_bitmap_size, bitmap_snapshot_at_max_size, activity_name>>

NewActivity(a) == a

OnActivityStart ==
    /\ Item("V1", "ACTIVITY_START")
    /\ Collect(<<>>)
    /\ activity_name' = NewActivity(Head(batch).data.activity)
    /\ UNCHANGED <<version, program, keys, others, alive, ghosts, current, bitmaps,
                   current_total_bitmap_size, max_total_bitmap_size, bitmap_snapshot_at_max_size>>

OnScaled ==
    /\ Item("V1", "BITMAP_SCALED")
    /\ Collect(<<CodegenAtom(Head(batch), "AndroidGraphicsBitmapScaled")>>)
    /\ UNCHANGED bitmapVars

OnOtherType ==
    /\ Item("V1", "none")
    /\ Collect(<<>>)
    /\ UNCHANGED bitmapVars

(* A number does not fit, the name is malformed or the write fails. *)
OnBitmapFails ==
    /\ phase = "handling"
    /\ version = "V0" \/ Head(batch).data.type \in {"ALLOCATION", "ACTIVITY_START", "BITMAP_SCALED"}
    /\ Refuse(<<>>, "TaskExecutionFailed", 0)
    /\ UNCHANGED bitmapVars

(* on_finished: the bitmaps at the maximum, then those left; V0 has none.   *)
(* A hash map's order is not fixed: any one will do.                        *)
Snapshots ==
    LET Atoms(set, what) ==
            LET order == SetToSeq(set)
            IN  [n \in DOMAIN order |-> [id |-> order[n].id, what |-> what,
                                         fields |-> <<order[n].activity>>]]
    IN  IF version = "V0" THEN <<>>
        ELSE Atoms(bitmap_snapshot_at_max_size, "max") \o Atoms(bitmaps, "sample")

OnBitmapFinished ==
    /\ \/ FinishOk(Snapshots)
       \/ \E outs \in CutShort(Snapshots, FALSE) : FinishFails(outs)
    /\ UNCHANGED bitmapVars

BitmapNext ==
    \/ LoopStep /\ UNCHANGED bitmapVars
    \/ \E i \in 1..RingCapacity : Submit(i) /\ UNCHANGED bitmapVars
    \/ BitmapCreation
    \/ \E p \in Ptrs : \/ \E s \in Sizes : BitmapCreationForSnapshot(p, s)
                       \/ BitmapCreationUnrecorded(p) \/ CreateScaledBitmap(p)
    \/ \E b \in alive : ApplyFreeFunction(b) \/ ApplyFreeFunctionUnrecorded(b)
    \/ \E a \in Activities : ActivityPerformStart(a)
    \/ OnItemV0 \/ OnAllocation \/ OnDeallocation \/ OnActivityStart \/ OnScaled
    \/ OnOtherType \/ OnBitmapFails \/ OnBitmapFinished

-----------------------------------------------------------------------------
(* Properties. *)

BitmapTypeOK ==
    /\ version \in {"V0", "V1"}
    /\ keys \subseteq Ptrs /\ Cardinality(keys) + others <= ActiveMax
    /\ \A b \in alive \cup ghosts : b.ptr \in Ptrs /\ b.id \in 0..MaxHits[mapPath]
    /\ \A b \in bitmaps : b.ptr \in Ptrs \cup {"null"} /\ b.id \in 1..MaxHits[mapPath]
    /\ current_total_bitmap_size \in Int /\ max_total_bitmap_size \in Nat

(* The handler has the records of everything that has happened. *)
CaughtUp == /\ version = "V1" /\ program = "bitmap_creation_for_snapshot"
            /\ ring = <<>> /\ batch = <<>>

Identity(set) == {<<b.ptr, b.id>> : b \in set}

(* Once the handler has caught up it knows exactly the bitmaps alive whose  *)
(* creation was recorded, and those whose release left no record (the ring  *)
(* buffer or active_bitmaps was full): none is forgotten, and none revived  *)
(* by keys of earlier tasks, reused pointers or creations without a record. *)
(* Each is attributed to the activity the process had started last when it  *)
(* was created, unless that start left no record.                           *)
BitmapsTracked ==
    CaughtUp =>
        LET known == {b \in alive : b.id # 0} \cup ghosts
        IN  /\ Identity(bitmaps) = Identity(known)
            /\ \A b \in known : b.activity # "lost" => b \in bitmaps

(* A release takes the size of the bitmap off the total again, as the test  *)
(* of deallocations has it: the total is the size of the bitmaps alive.     *)
TotalIsLive ==
    CaughtUp => current_total_bitmap_size =
                    MapThenSumSet(LAMBDA b : b.size, bitmaps)

=============================================================================
