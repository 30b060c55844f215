--------------------------- MODULE MCTaskManager ---------------------------
(* Small instances of TaskManager for TLC. *)
EXTENDS TaskManager, TLC

CONSTANTS m1, m2, i1, i2

P(keys, m) == [filters |-> keys, out |-> m]

(* One map, no filters; one binder probe; both maps, with two binder       *)
(* probes or one; the same interface in two probes (the second insert      *)
(* fails); no map at all, which config resolution accepts.                 *)
Plain   == [maps |-> {m1}, probes |-> <<P({}, m1)>>]
Binder1 == [maps |-> {m1}, probes |-> <<P({i1}, m1)>>]
Wide    == [maps |-> {m1, m2}, probes |-> <<P({i1}, m2), P({i2}, m1)>>]
Twice   == [maps |-> {m2}, probes |-> <<P({i1}, m2), P({i1}, m2)>>]
Both    == [maps |-> {m1, m2}, probes |-> <<P({i1}, m2)>>]
NoMaps  == [maps |-> {}, probes |-> <<P({}, m1)>>]

MainConfigs  == {Plain, Binder1, Twice, Wide}
LiveConfigs  == {Both, NoMaps}
EmptyConfigs == {Plain, NoMaps}

TaskSymmetry == Permutations(Tasks)
=============================================================================
