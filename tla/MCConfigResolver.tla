------------------------- MODULE MCConfigResolver -------------------------
(* Small instances of ConfigResolver for TLC. *)
EXTENDS ConfigResolver

MCWords == [disruptive |-> {"DisruptiveApp"},
            snapshot   |-> {"BitmapAllocation", "snapshot"},
            bitmap     |-> {"BitmapAllocation"},
            scaled     |-> {"BitmapAllocation", "scaled"},
            binder     |-> {"Binder"},
            a11y       |-> {"Accessibility"},
            process    |-> {}]

AllFlags == {"uprobestats_monitor_disruptive_app_activities", "enable_bitmap_snapshot",
             "enable_bitmap_instrumentation", "enable_binder_transaction",
             "enable_bitmap_scaled_instrumentation", "a11y_runtime_permission"}

(* All flags, and each of them off or alone. *)
MCFlagSets == {AllFlags} \cup {AllFlags \ {f} : f \in AllFlags} \cup {{f} : f \in AllFlags}

Method(id, event, atom) == [id |-> id, event |-> event, atom |-> atom]
Filter(interface, methods) == [interface |-> interface, methods |-> methods]
Probe(bpf, method, fs) == [bpf |-> bpf, method |-> method, filters |-> fs]
OneTask(maps, duration, probes) == <<[maps |-> maps, duration |-> duration, probes |-> probes]>>

Methods == {Method(id, e, a) : id \in {Absent, 0, 1, 2}, e \in {Absent, "flush", "buffer"},
                               a \in {Absent, 0, 7}}
Good1 == Method(1, "flush", 7)
Good2 == Method(2, Absent, 7)

(* Every method alone, in first and in second place, and every interface. *)
FilterLists ==
    {<<Filter(Absent, <<Good1>>)>>, <<Filter(EmptyName, <<Good1>>)>>, <<Filter("i1", <<>>)>>}
    \cup {<<Filter("i1", <<m>>)>> : m \in Methods}
    \cup {<<Filter("i1", <<Good2, m>>)>> : m \in Methods}
    \cup {<<Filter("i1", <<Good1>>), Filter(i, <<Good2>>)>> : i \in {"i1", "i2", Absent, EmptyName}}

SimpleProbes ==
    {Probe(b, m, <<>>) : b \in DOMAIN MCWords \cup {Absent}, m \in {Absent, "listed", "unlisted"}}
Binder == Probe("binder", "listed", <<Filter("i1", <<Good1>>)>>)
Plain  == Probe("process", "listed", <<>>)

MCConfigs ==
    {<<>>} \cup {OneTask({}, 1, <<>>) \o OneTask({}, 1, <<Plain>>)}
    \cup {OneTask(ms, d, <<Plain>>) : ms \in SUBSET {"process", "scaled", "a11y"}, d \in {Absent, 0, 1}}
    \cup {OneTask({"process"}, 1, <<p, q>>) : p, q \in SimpleProbes}
    \cup {OneTask({"binder"}, 1, <<Probe("binder", "listed", fs)>>) : fs \in FilterLists}
    \cup {OneTask({}, 1, <<Binder, Probe(b, "unlisted", fs)>>) :
              b \in {"process", "binder"}, fs \in {<<>>, <<Filter("i1", <<Good2>>)>>}}
=============================================================================
