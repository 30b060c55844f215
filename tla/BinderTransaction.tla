-------------------------- MODULE BinderTransaction --------------------------
(***************************************************************************)
(* Binder transactions: the filters of a task are written to a BPF map,    *)
(* the BPF program records the transactions that match it, the handler     *)
(* looks each record up in the task's config, and the map is drained at    *)
(* the end.  Names are sequences of bytes, keys arrays of KeyBytes bytes;  *)
(* the daemon and the BPF program turn one into the other, each in its own *)
(* way, and only the daemon's config is free of limits: any non-empty      *)
(* string is accepted as an interface name.                                *)
(***************************************************************************)
EXTENDS PollLoop

CONSTANTS
    Nul,        \* the byte 0
    Names,      \* interface names, configured or traced: non-empty sequences of bytes
    Codes,      \* transaction codes: positive
    Configs,    \* binder_transaction_filters: per probe, name -> code -> method
    KeyBytes,   \* bytes of a key (128)
    MaxCodes,   \* codes of a value (10)
    Leftovers   \* what the pinned map may hold before the task

ASSUME BinderAssumption ==
    /\ Codes \subseteq Nat \ {0}
    /\ {KeyBytes, MaxCodes} \subseteq Nat \ {0}
    /\ \A n \in Names : Len(n) \in Nat \ {0} /\ n = [i \in 1..Len(n) |-> n[i]]
    /\ \A c \in Configs : DOMAIN c \subseteq Nat /\ \A p \in DOMAIN c :
           /\ DOMAIN c[p] \subseteq Names
           /\ \A n \in DOMAIN c[p] : IsFiniteSet(DOMAIN c[p][n]) /\ DOMAIN c[p][n] \subseteq Codes
    /\ \A l \in Leftovers : \A k \in DOMAIN l :
           k = [i \in 1..KeyBytes |-> k[i]] /\ Len(l[k]) <= MaxCodes

VARIABLES
    config,   \* the filters of the task's probes
    found,    \* the keys in the map before the task
    filters,  \* map_Binder_interfaces: key -> codes
    pending,  \* filters still to be written: <<probe, name>>
    access    \* to the map: "closed", "open", "draining", "drained", "stuck"

binderVars == <<config, found, filters, pending, access>>

BinderInit ==
    /\ config \in Configs
    /\ filters \in Leftovers /\ found = DOMAIN filters
    /\ pending = {} /\ access = "closed"

-----------------------------------------------------------------------------
(* Mutated forms of operations defined below. *)

(* The value holds one code less. *)
ToCValueOneLess(codes) == SubSeq(codes, 1, Min({Len(codes), MaxCodes - 1}))

(* The terminator is not looked for in the last byte of the key. *)
FromCKeyOneLess(key) ==
    LET ends == {i \in 1..(KeyBytes - 1) : key[i] = Nul}
    IN  IF ends = {} THEN <<>> ELSE SubSeq(key, 1, Min(ends) - 1)

(* The mode is ignored. *)
AlwaysFlush(mode) == TRUE

-----------------------------------------------------------------------------
(* Conversions.  to_c_key copies the bytes that fit and pads with zeroes;   *)
(* from_c_key reads up to the first zero, and an array without one as the   *)
(* empty name.                                                              *)
ToCKey(name) == [i \in 1..KeyBytes |-> IF i <= Len(name) THEN name[i] ELSE Nul]

Nuls(bytes)     == {i \in 1..Len(bytes) : bytes[i] = Nul}
UpToNul(bytes)  == IF Nuls(bytes) = {} THEN bytes ELSE SubSeq(bytes, 1, Min(Nuls(bytes)) - 1)
FromCKey(key)   == IF Nuls(key) = {} THEN <<>> ELSE UpToNul(key)
ToCValue(codes) == SubSeq(codes, 1, Min({Len(codes), MaxCodes}))

(* recordString copies a string from the traced process up to a zero, at    *)
(* most KeyBytes with the terminator, into a zeroed key.                    *)
Recorded(name) == SubSeq(UpToNul(name), 1, Min({Len(UpToNul(name)), KeyBytes - 1}))

-----------------------------------------------------------------------------
(* setup_binder_transaction_filters and the map accessor. *)

OpenMap ==
    /\ access = "closed" /\ access' = "open"
    /\ pending' = UNION {{<<p, n>> : n \in DOMAIN config[p]} : p \in DOMAIN config}
    /\ UNCHANGED <<loopVars, config, found, filters>>

NextFilter(f) == access = "open" /\ f \in pending /\ \A g \in pending : f[1] <= g[1]

(* put with UpdateMapElemFlags::Insert; the codes come in the order of a    *)
(* hash map.                                                                *)
PutFilter(f) ==
    /\ NextFilter(f)
    /\ ToCKey(f[2]) \notin DOMAIN filters
    /\ \E codes \in SetToSeqs(DOMAIN config[f[1]][f[2]]) :
           filters' = [k \in DOMAIN filters \cup {ToCKey(f[2])} |->
                          IF k = ToCKey(f[2]) THEN ToCValue(codes) ELSE filters[k]]
    /\ pending' = pending \ {f}
    /\ UNCHANGED <<loopVars, config, found, access>>

(* The key exists: the map is drained and the task fails. *)
PutFilterFails(f) ==
    /\ NextFilter(f)
    /\ ToCKey(f[2]) \in DOMAIN filters
    /\ pending' = {} /\ access' = "draining"
    /\ End("error")
    /\ UNCHANGED <<mapPath, clock, duration, hits, ring, batch, total, seen, out, reports, polled,
                   config, found, filters>>

StartDrain ==
    /\ access = "open" /\ phase = "ended" /\ access' = "draining"
    /\ UNCHANGED <<loopVars, config, found, filters, pending>>

(* The key that delete is given for the name that a key is read as. *)
KeyAgain(key) == ToCKey(FromCKey(key))

(* One round of drain: get_first_key, then delete, which may find another   *)
(* entry than the one read, or none.                                        *)
DrainKey(key) ==
    /\ access = "draining" /\ key \in DOMAIN filters
    /\ IF KeyAgain(key) \in DOMAIN filters
       THEN filters' = [k \in DOMAIN filters \ {KeyAgain(key)} |-> filters[k]] /\ UNCHANGED access
       ELSE access' = "stuck" /\ UNCHANGED filters
    /\ UNCHANGED <<loopVars, config, found, pending>>

DrainEnds ==
    /\ access = "draining" /\ DOMAIN filters = {}
    /\ access' = "drained"
    /\ UNCHANGED <<loopVars, config, found, filters, pending>>

-----------------------------------------------------------------------------
(* The BPF program: the codes of the interface are scanned.  A descriptor   *)
(* that is null or cannot be read gives the empty name.                     *)
Descriptors == Names \cup {<<>>}

Selects(name, code) ==
    /\ ToCKey(Recorded(name)) \in DOMAIN filters
    /\ code \in ToSet(filters[ToCKey(Recorded(name))])

ExecTransactInternal(name, code) ==
    /\ access = "open" /\ pending = {} /\ Selects(name, code)
    /\ Reserve([name |-> Recorded(name), code |-> code])
    /\ UNCHANGED binderVars

-----------------------------------------------------------------------------
(* BinderTransactionHandler. *)

(* The probes with a method for the transaction, and the method of the      *)
(* first one.                                                               *)
Probes(name, code) ==
    {p \in DOMAIN config : name \in DOMAIN config[p] /\ code \in DOMAIN config[p][name]}
FirstMethod(name, code) == config[Min(Probes(name, code))][name][code]

(* write_to_statsd: a field for each position; UNKNOWN is an error. *)
FieldsOk(m) == "UNKNOWN" \notin ToSet(m.positions)

Flush(mode) == mode = "Flush"

TransactionOutputs(r, m) ==
    (IF m.atom THEN <<UnstructuredAtom(r, m.positions)>> ELSE <<>>) \o
    (IF m.mode = "none" THEN <<>> ELSE <<Event(r, Flush(m.mode))>>)

(* The record has a method, and its code and its fields can be written. *)
Writable(name, code) ==
    /\ Probes(name, code) # {} /\ FitsI32(code)
    /\ FirstMethod(name, code).atom => FieldsOk(FirstMethod(name, code))

OnTransaction ==
    /\ phase = "handling"
    /\ LET r == Head(batch)
       IN  IF Writable(r.data.name, r.data.code)
           THEN LET outs == TransactionOutputs(r, FirstMethod(r.data.name, r.data.code))
                IN  \/ Accept(r, outs)
                    \/ \E cut \in CutShort(outs, FALSE) : Refuse(cut, "TaskExecutionFailed", 0)
           ELSE Refuse(<<>>, "TaskExecutionFailed", 0)
    /\ UNCHANGED binderVars

OnBinderFinished == FinishOk(<<>>) /\ UNCHANGED binderVars

BinderNext ==
    \/ OpenMap \/ StartDrain \/ DrainEnds
    \/ \E f \in pending : PutFilter(f) \/ PutFilterFails(f)
    \/ \E key \in DOMAIN filters : DrainKey(key)
    \/ access = "open" /\ pending = {} /\ LoopStep /\ UNCHANGED binderVars
    \/ \E i \in 1..RingCapacity : Submit(i) /\ UNCHANGED binderVars
    \/ \E n \in Descriptors, c \in Codes : ExecTransactInternal(n, c)
    \/ OnTransaction \/ OnBinderFinished

-----------------------------------------------------------------------------
(* Properties. *)

BinderTypeOK ==
    /\ access \in {"closed", "open", "draining", "drained", "stuck"}
    /\ \A k \in DOMAIN filters : DOMAIN k = 1..KeyBytes /\ Len(filters[k]) <= MaxCodes

Configured(name, code) == Probes(name, code) # {}

InterfaceNames == UNION {DOMAIN config[p] : p \in DOMAIN config}
CodesOf(name)  == UNION {DOMAIN config[p][name] : p \in {q \in DOMAIN config : name \in DOMAIN config[q]}}

(* A name that a key can hold: no zero in it, and room for the terminator.  *)
Fits(name) == Len(name) < KeyBytes /\ Nuls(name) = {}

(* A key that is a name and its padding. *)
Padded(key) == \E e \in 1..KeyBytes : \A i \in 1..KeyBytes : key[i] = Nul <=> i >= e

(* With all filters written to an empty map, the BPF program records the    *)
(* transactions the config names: all codes of an interface, or MaxCodes of *)
(* them if there are more, for every name a key can hold; and no others but *)
(* those of a longer name that looks like a configured one, or of a name    *)
(* that a configured one has before a zero.                                 *)
FiltersSelectConfigured ==
    mapPath = "Binder_output_buf" /\ access = "open" /\ pending = {} /\ found = {} =>
        /\ \A n \in Descriptors, c \in Codes : Selects(n, c) =>
               \/ Configured(Recorded(n), c)
               \/ \E m \in InterfaceNames :
                      Nuls(m) # {} /\ c \in CodesOf(m) /\ ToCKey(m) = ToCKey(Recorded(n))
        /\ \A n \in InterfaceNames : Fits(n) =>
               Cardinality({c \in Codes : Selects(n, c)}) = Min({MaxCodes, Cardinality(CodesOf(n))})

(* Draining empties the map, and stops early only at a key that the task    *)
(* made of a name a key cannot hold, or that it found and that is no name   *)
(* and padding: names that fit, and padded leftovers, always go.            *)
FiltersDrained ==
    mapPath = "Binder_output_buf" =>
        /\ access = "drained" => DOMAIN filters = {}
        /\ access = "stuck" => \E k \in DOMAIN filters :
               \/ k \in found /\ ~Padded(k)
               \/ \E n \in InterfaceNames : k = ToCKey(n) /\ ~Fits(n)

(* "Once this step complete, step 3c (draining the filters) *must* also     *)
(* complete."  "This step must not fail".                                   *)
DrainCompletes == access # "stuck"

=============================================================================
