------------------------ MODULE ConfigResolverProofs ------------------------
(***************************************************************************)
(* Proofs about resolve_config.  Both loops over binder filters insert     *)
(* into a map and stop at a key that is there already: InsertLoop says     *)
(* what such a loop leaves behind.  With it, the checks that the code      *)
(* makes in order are shown to be the conditions of the reference, and     *)
(* the invariant ties what has been checked to how far resolve_config got. *)
(***************************************************************************)
EXTENDS ConfigResolver, DataLemmas

-----------------------------------------------------------------------------
(* Maps filled by a loop of insertions. *)

Maps(K, V) == UNION {[D -> V] : D \in SUBSET K}
Accs(K, V) == [ok : BOOLEAN, map : Maps(K, V)]

LEMMA MapFacts ==
  ASSUME NEW K, NEW V, NEW m \in Maps(K, V)
  PROVE  m \in [DOMAIN m -> V] /\ DOMAIN m \subseteq K
<1>1. PICK D \in SUBSET K : m \in [D -> V]
  BY DEF Maps
<1>2. DOMAIN m = D
  BY <1>1
<1> QED
  BY <1>1, <1>2

LEMMA MapIntro ==
  ASSUME NEW K, NEW V, NEW D \in SUBSET K, NEW m \in [D -> V]
  PROVE  m \in Maps(K, V)
BY DEF Maps

LEMMA EmptyMapType ==
  ASSUME NEW K, NEW V
  PROVE  EmptyMap \in Maps(K, V) /\ DOMAIN EmptyMap = {}
<1>1. EmptyMap \in [{} -> V] /\ {} \in SUBSET K
  BY DEF EmptyMap
<1> QED
  BY <1>1, MapIntro

(* What insert does, by key. *)
LEMMA InsertFacts ==
  ASSUME NEW K, NEW V, NEW map \in Maps(K, V), NEW key \in K, NEW value \in V
  PROVE  LET new == InsertNew(map, key, value)
         IN  /\ new \in Accs(K, V)
             /\ new.ok <=> key \notin DOMAIN map
             /\ DOMAIN new.map = DOMAIN map \cup {key}
             /\ new.map[key] = value
             /\ \A k \in DOMAIN map : k # key => new.map[k] = map[k]
<1> DEFINE D == DOMAIN map \cup {key}
           m == [k \in D |-> IF k = key THEN value ELSE map[k]]
           b == key \notin DOMAIN map
<1>1. map \in [DOMAIN map -> V] /\ DOMAIN map \subseteq K
  BY MapFacts
<1>2. D \in SUBSET K /\ m \in [D -> V]
  BY <1>1
<1>3. m \in Maps(K, V)
  <2> HIDE DEF m, D
  <2> QED
    BY <1>2, MapIntro
<1>4. InsertNew(map, key, value) = [ok |-> b, map |-> m]
  BY DEF InsertNew
<1>5. /\ DOMAIN m = DOMAIN map \cup {key} /\ m[key] = value
      /\ \A k \in DOMAIN map : k # key => m[k] = map[k]
  OBVIOUS
<1>6. b \in BOOLEAN
  OBVIOUS
<1>7. (b = TRUE) <=> key \notin DOMAIN map
  OBVIOUS
<1> HIDE DEF m, D, b
<1>8. [ok |-> b, map |-> m] \in Accs(K, V)
  BY <1>3, <1>6 DEF Accs
<1> QED
  BY <1>4, <1>5, <1>7, <1>8

(* One round of a loop: number i has key key[i] and value val[i], and is in *)
(* good when its own checks pass.                                           *)
Round(acc, i, good, key, val) ==
    IF ~acc.ok \/ i \notin good THEN [acc EXCEPT !.ok = FALSE] ELSE InsertNew(acc.map, key[i], val[i])

LEMMA RoundType ==
  ASSUME NEW K, NEW V, NEW n \in Nat, NEW good, NEW key \in [1..n -> K], NEW val \in [1..n -> V],
         NEW acc \in Accs(K, V), NEW i \in 1..n
  PROVE  Round(acc, i, good, key, val) \in Accs(K, V)
<1>1. CASE ~acc.ok \/ i \notin good
  <2>1. [acc EXCEPT !.ok = FALSE] \in Accs(K, V)
    BY DEF Accs
  <2> QED
    BY <1>1, <2>1 DEF Round
<1>2. CASE acc.ok /\ i \in good
  <2>1. acc.map \in Maps(K, V) /\ key[i] \in K /\ val[i] \in V
    BY DEF Accs
  <2>2. InsertNew(acc.map, key[i], val[i]) \in Accs(K, V)
    BY <2>1, InsertFacts
  <2> QED
    BY <1>2, <2>2 DEF Round
<1> QED
  BY <1>1, <1>2

(* After k rounds. *)
AllGood(b, k, good, key) ==
    /\ b = TRUE /\ 1..k \subseteq good
    /\ \A i, j \in 1..k : key[i] = key[j] => i = j

Holds(map, k, key, val) ==
    /\ DOMAIN map = {key[i] : i \in 1..k}
    /\ \A i \in 1..k : map[key[i]] = val[i]

After(acc, b, k, good, key, val) ==
    /\ (acc.ok = TRUE) <=> AllGood(b, k, good, key)
    /\ acc.ok = TRUE => Holds(acc.map, k, key, val)

LEMMA RoundAfter ==
  ASSUME NEW K, NEW V, NEW n \in Nat, NEW good, NEW key \in [1..n -> K], NEW val \in [1..n -> V],
         NEW b, NEW acc \in Accs(K, V), NEW k \in Nat, NEW q \in 1..n, q = k + 1,
         After(acc, b, k, good, key, val)
  PROVE  After(Round(acc, q, good, key, val), b, q, good, key, val)
<1>1. acc.ok \in BOOLEAN /\ acc.map \in Maps(K, V) /\ key[q] \in K /\ val[q] \in V
  BY DEF Accs
<1>2. 1..q = 1..k \cup {q} /\ q \notin 1..k
  OBVIOUS
<1>3. CASE acc.ok = FALSE \/ q \notin good
  <2>1. Round(acc, q, good, key, val) = [acc EXCEPT !.ok = FALSE]
    BY <1>3 DEF Round
  <2>2. [acc EXCEPT !.ok = FALSE].ok = FALSE
    BY DEF Accs
  <2>3. ~AllGood(b, q, good, key)
    <3>1. CASE q \notin good
      BY <1>2, <3>1 DEF AllGood
    <3>2. CASE acc.ok = FALSE
      <4>1. ~AllGood(b, k, good, key)
        BY <3>2 DEF After
      <4> QED
        BY <1>2, <4>1 DEF AllGood
    <3> QED
      BY <1>3, <3>1, <3>2
  <2> QED
    BY <2>1, <2>2, <2>3 DEF After
<1>4. CASE acc.ok = TRUE /\ q \in good
  <2> DEFINE new == InsertNew(acc.map, key[q], val[q])
  <2>1. Round(acc, q, good, key, val) = new
    BY <1>4 DEF Round
  <2>2. AllGood(b, k, good, key) /\ Holds(acc.map, k, key, val)
    BY <1>4 DEF After
  <2>3. /\ new.ok <=> key[q] \notin DOMAIN acc.map
        /\ new \in Accs(K, V)
        /\ DOMAIN new.map = DOMAIN acc.map \cup {key[q]}
        /\ new.map[key[q]] = val[q]
        /\ \A x \in DOMAIN acc.map : x # key[q] => new.map[x] = acc.map[x]
    BY <1>1, InsertFacts
  <2> HIDE DEF new
  <2>4. new.ok \in BOOLEAN
    BY <2>3 DEF Accs
  <2>5. (new.ok = TRUE) <=> \A i \in 1..k : key[i] # key[q]
    BY <2>2, <2>3, <2>4 DEF Holds
  <2>6. AllGood(b, q, good, key) <=> \A i \in 1..k : key[i] # key[q]
    BY <1>2, <1>4, <2>2 DEF AllGood
  <2>7. ASSUME new.ok = TRUE PROVE Holds(new.map, q, key, val)
    <3>1. \A i \in 1..k : key[i] # key[q]
      BY <2>5, <2>7
    <3>2. DOMAIN new.map = {key[i] : i \in 1..q}
      BY <1>2, <2>2, <2>3 DEF Holds
    <3>3. ASSUME NEW i \in 1..k PROVE new.map[key[i]] = val[i]
      <4>1. key[i] \in DOMAIN acc.map /\ acc.map[key[i]] = val[i]
        BY <2>2 DEF Holds
      <4> QED
        BY <2>3, <3>1, <4>1
    <3> QED
      BY <1>2, <2>3, <3>2, <3>3 DEF Holds
  <2> QED
    BY <2>1, <2>5, <2>6, <2>7 DEF After
<1> QED
  BY <1>1, <1>3, <1>4

(* The values h[0], h[1], ... of a loop, from an empty map on. *)
LEMMA InsertLoop ==
  ASSUME NEW K, NEW V, NEW n \in Nat, NEW good, NEW key \in [1..n -> K], NEW val \in [1..n -> V],
         NEW b \in BOOLEAN, NEW h, h[0] = [ok |-> b, map |-> EmptyMap],
         \A k \in 1..n : h[k - 1] \in Accs(K, V) => h[k] = Round(h[k - 1], k, good, key, val)
  PROVE  h[n] \in Accs(K, V) /\ After(h[n], b, n, good, key, val)
<1> DEFINE P(k) == h[k] \in Accs(K, V) /\ After(h[k], b, k, good, key, val)
           S == {k \in Nat : k <= n => P(k)}
<1>1. 0 \in S
  <2>1. EmptyMap \in Maps(K, V) /\ DOMAIN EmptyMap = {}
    BY EmptyMapType
  <2>2. h[0] \in Accs(K, V) /\ h[0].ok = b /\ h[0].map = EmptyMap
    BY <2>1 DEF Accs
  <2>3. 1..0 = {}
    OBVIOUS
  <2>4. After(h[0], b, 0, good, key, val)
    BY <2>1, <2>2, <2>3 DEF After, AllGood, Holds
  <2> QED
    BY <2>2, <2>4
<1>2. ASSUME NEW k \in Nat, k \in S PROVE k + 1 \in S
  <2> SUFFICES ASSUME k + 1 <= n PROVE P(k + 1)
    OBVIOUS
  <2>1. PICK q : q = k + 1
    OBVIOUS
  <2>2. q \in 1..n /\ q - 1 = k /\ h[k] \in Accs(K, V) /\ After(h[k], b, k, good, key, val)
    BY <1>2, <2>1
  <2>3. h[q] = Round(h[k], q, good, key, val)
    BY <2>2
  <2>4. h[q] \in Accs(K, V)
    BY <2>2, <2>3, RoundType
  <2>5. After(h[q], b, q, good, key, val)
    BY <2>1, <2>2, <2>3, RoundAfter
  <2> QED
    BY <2>1, <2>4, <2>5
<1>3. \A k \in Nat : k \in S
  <2> HIDE DEF S
  <2> QED
    BY <1>1, <1>2, NatInd
<1>4. n \in S
  BY <1>3
<1> QED
  BY <1>4

-----------------------------------------------------------------------------
(* The loop over the methods of a filter. *)

MethodKeys   == {Absent} \cup Nat
MethodValues == [event : {Absent, "Flush", "Buffer"}, atom : {Absent} \cup Nat]
MethodMaps   == Maps(MethodKeys, MethodValues)
MethodAccs   == Accs(MethodKeys, MethodValues)
MethodBase   == [ok |-> TRUE, map |-> EmptyMap]
MethodValue(m) == [event |-> EventMode(m), atom |-> m.atom]
MethodFold(s)  == FoldLeft(AddMethod, MethodBase, s)

LEMMA MethodFacts ==
  ASSUME NEW m \in MethodConfig
  PROVE  /\ m.id \in MethodKeys /\ MethodValue(m) \in MethodValues
         /\ MethodOk(m) <=> GoodMethod(m)
BY DEF MethodConfig, MethodKeys, MethodValues, MethodValue, EventMode, MethodOk, GoodMethod

(* A round of the loop inserts the method's value under its id. *)
MethodsGood(s)  == {i \in 1..Len(s) : MethodOk(s[i])}
MethodsKey(s)   == [i \in 1..Len(s) |-> s[i].id]
MethodsValue(s) == [i \in 1..Len(s) |-> MethodValue(s[i])]

LEMMA AddMethodRound ==
  ASSUME NEW s \in Seq(MethodConfig), NEW acc \in MethodAccs, NEW i \in 1..Len(s)
  PROVE  /\ AddMethod(acc, s[i]) = Round(acc, i, MethodsGood(s), MethodsKey(s), MethodsValue(s))
         /\ AddMethod(acc, s[i]) \in MethodAccs
<1>1. AddMethod(acc, s[i]) = Round(acc, i, MethodsGood(s), MethodsKey(s), MethodsValue(s))
  BY DEF AddMethod, Round, MethodsGood, MethodsKey, MethodsValue, MethodValue
<1>2. /\ MethodsKey(s) \in [1..Len(s) -> MethodKeys] /\ MethodsValue(s) \in [1..Len(s) -> MethodValues]
      /\ Len(s) \in Nat
  <2>1. \A j \in 1..Len(s) : s[j] \in MethodConfig
    OBVIOUS
  <2> QED
    BY <2>1, MethodFacts DEF MethodsKey, MethodsValue
<1>3. Round(acc, i, MethodsGood(s), MethodsKey(s), MethodsValue(s)) \in MethodAccs
  BY <1>2, RoundType DEF MethodAccs
<1> QED
  BY <1>1, <1>3

LEMMA MethodLoop ==
  ASSUME NEW s \in Seq(MethodConfig)
  PROVE  /\ MethodFold(s) \in MethodAccs
         /\ After(MethodFold(s), TRUE, Len(s), MethodsGood(s), MethodsKey(s), MethodsValue(s))
<1> DEFINE n == Len(s)
           A == MethodAccs
           base == MethodBase
           G == [i \in 1..n |-> [acc \in A |-> AddMethod(acc, s[i])]]
           it == CHOOSE iter : iter = [x \in SUBSET (1..n) |->
                     IF x = {} THEN base ELSE AddMethod(iter[x \ {Max(x)}], s[Max(x)])]
<1>1. n \in Nat /\ DOMAIN s = 1..n
  OBVIOUS
<1>2. MethodFold(s) = it[1..n]
  <2>1. MethodFold(s) = (CHOOSE iter : iter = [x \in SUBSET (DOMAIN s) |->
                      IF x = {} THEN base
                      ELSE AddMethod(iter[x \ {Max(x)}], s[Max(x)])])[DOMAIN s]
    BY DEF MethodFold, FoldLeft, MapThenFoldSet
  <2> QED
    BY <1>1, <2>1
<1>3. base \in A
  BY EmptyMapType DEF MethodBase, MethodAccs, Accs
<1>4. G \in [1..n -> [A -> A]]
  <2>1. \A i \in 1..n : \A acc \in A : AddMethod(acc, s[i]) \in A
    BY AddMethodRound
  <2> HIDE DEF A
  <2> QED
    BY <2>1
<1> HIDE DEF A, base
<1>5. PICK f \in [SUBSET (1..n) -> A] : FoldsAlong(f, n, base, G)
  <2>1. CanFold(n, A, base, G)
    <3> HIDE DEF G
    <3> QED
      BY <1>1, <1>3, <1>4, FoldExists
  <2> QED
    BY <2>1 DEF CanFold
<1>6. ASSUME NEW x \in SUBSET (1..n), x # {} PROVE Max(x) \in 1..n /\ x \ {Max(x)} \in SUBSET (1..n)
  <2>1. x \in SUBSET (0..n)
    OBVIOUS
  <2> QED
    BY <1>1, <1>6, <2>1, MaxIsGreatest
<1>7. ASSUME NEW x \in SUBSET (1..n)
      PROVE  f[x] = IF x = {} THEN base ELSE AddMethod(f[x \ {Max(x)}], s[Max(x)])
  <2>1. CASE x = {}
    BY <1>5, <2>1 DEF FoldsAlong
  <2>2. CASE x # {}
    <3>1. f[x] = G[Max(x)][f[x \ {Max(x)}]]
      BY <1>5, <2>2 DEF FoldsAlong
    <3>2. G[Max(x)][f[x \ {Max(x)}]] = AddMethod(f[x \ {Max(x)}], s[Max(x)])
      BY <1>6, <2>2
    <3> QED
      BY <2>2, <3>1, <3>2
  <2> QED
    BY <2>1, <2>2
<1> HIDE DEF G
<1>8. f = [x \in SUBSET (1..n) |->
              IF x = {} THEN base ELSE AddMethod(f[x \ {Max(x)}], s[Max(x)])]
  BY <1>7
<1>9. it = [x \in SUBSET (1..n) |->
               IF x = {} THEN base ELSE AddMethod(it[x \ {Max(x)}], s[Max(x)])]
  BY <1>8
<1> HIDE DEF it
<1>10. /\ it[{}] = base
       /\ \A x \in SUBSET (1..n) : x # {} => it[x] = AddMethod(it[x \ {Max(x)}], s[Max(x)])
  BY <1>9
<1> DEFINE h == [k \in 0..n |-> it[1..k]]
<1>11. h[0] = base
  <2>1. 1..0 = {} /\ 0 \in 0..n
    BY <1>1
  <2> QED
    BY <1>10, <2>1
<1>12. ASSUME NEW k \in 1..n PROVE h[k] = AddMethod(h[k - 1], s[k])
  <2>1. k \in Nat /\ k > 0 /\ 1..k \in SUBSET (1..n) /\ k \in 0..n /\ k - 1 \in 0..n
    BY <1>1
  <2>2. Max(1..k) = k /\ (1..k) \ {k} = 1..(k - 1) /\ 1..k # {}
    BY <2>1, FoldStep
  <2>3. it[1..k] = AddMethod(it[1..(k - 1)], s[k])
    BY <1>10, <2>1, <2>2
  <2> QED
    BY <2>1, <2>3
<1>13. h[n] = MethodFold(s)
  BY <1>1, <1>2
<1> HIDE DEF h
<1>14. \A k \in 1..n : h[k - 1] \in MethodAccs =>
           h[k] = Round(h[k - 1], k, MethodsGood(s), MethodsKey(s), MethodsValue(s))
  BY <1>12, AddMethodRound
<1>15. /\ MethodsKey(s) \in [1..n -> MethodKeys] /\ MethodsValue(s) \in [1..n -> MethodValues]
  <2>1. \A j \in 1..Len(s) : s[j] \in MethodConfig
    OBVIOUS
  <2> QED
    BY <2>1, MethodFacts DEF MethodsKey, MethodsValue
<1>16. h[0] = [ok |-> TRUE, map |-> EmptyMap]
  BY <1>11 DEF base, MethodBase
<1>17. h[n] \in MethodAccs /\ After(h[n], TRUE, n, MethodsGood(s), MethodsKey(s), MethodsValue(s))
  <2> HIDE DEF n
  <2> QED
    BY <1>1, <1>14, <1>15, <1>16, InsertLoop DEF MethodAccs
<1> QED
  BY <1>13, <1>17

-----------------------------------------------------------------------------
(* The loop over the filters of a probe. *)

FilterKeys == {Absent, EmptyName} \cup STRING
FilterAccs == Accs(FilterKeys, MethodMaps)
FilterBase(s) == [ok |-> s # <<>>, map |-> EmptyMap]
FilterFold(s) == FoldLeft(AddFilter, FilterBase(s), s)

FilterOk(f) == f.interface \notin {Absent, EmptyName} /\ f.methods # <<>> /\ MethodFold(f.methods).ok
FiltersGood(s)  == {i \in 1..Len(s) : FilterOk(s[i])}
FiltersKey(s)   == [i \in 1..Len(s) |-> s[i].interface]
FiltersValue(s) == [i \in 1..Len(s) |-> MethodFold(s[i].methods).map]

LEMMA FilterTypes ==
  ASSUME NEW s \in Seq(BinderTransactionFilter)
  PROVE  /\ FiltersKey(s) \in [1..Len(s) -> FilterKeys] /\ FiltersValue(s) \in [1..Len(s) -> MethodMaps]
         /\ Len(s) \in Nat
<1>1. \A j \in 1..Len(s) : s[j] \in BinderTransactionFilter
  OBVIOUS
<1>2. ASSUME NEW f \in BinderTransactionFilter
      PROVE  f.interface \in FilterKeys /\ MethodFold(f.methods).map \in MethodMaps
  <2>1. f.interface \in FilterKeys /\ f.methods \in Seq(MethodConfig)
    BY DEF BinderTransactionFilter, FilterKeys
  <2>2. MethodFold(f.methods) \in MethodAccs
    BY <2>1, MethodLoop
  <2> QED
    BY <2>1, <2>2 DEF MethodAccs, Accs, MethodMaps
<1> QED
  BY <1>1, <1>2 DEF FiltersKey, FiltersValue

LEMMA AddFilterRound ==
  ASSUME NEW s \in Seq(BinderTransactionFilter), NEW acc \in FilterAccs, NEW i \in 1..Len(s)
  PROVE  /\ AddFilter(acc, s[i]) = Round(acc, i, FiltersGood(s), FiltersKey(s), FiltersValue(s))
         /\ AddFilter(acc, s[i]) \in FilterAccs
<1>1. AddFilter(acc, s[i]) = Round(acc, i, FiltersGood(s), FiltersKey(s), FiltersValue(s))
  <2> DEFINE f == s[i]
             inner == MethodFold(f.methods)
  <2>1. AddFilter(acc, f) =
           IF ~acc.ok \/ f.interface \in {Absent, EmptyName} \/ f.methods = <<>>
           THEN [acc EXCEPT !.ok = FALSE]
           ELSE IF inner.ok THEN InsertNew(acc.map, f.interface, inner.map) ELSE [acc EXCEPT !.ok = FALSE]
    BY DEF AddFilter, MethodFold, MethodBase
  <2>2. i \in FiltersGood(s) <=> f.interface \notin {Absent, EmptyName} /\ f.methods # <<>> /\ inner.ok
    BY DEF FiltersGood, FilterOk
  <2>3. FiltersKey(s)[i] = f.interface /\ FiltersValue(s)[i] = inner.map
    BY DEF FiltersKey, FiltersValue
  <2> HIDE DEF f, inner
  <2>4. AddFilter(acc, f) = Round(acc, i, FiltersGood(s), FiltersKey(s), FiltersValue(s))
    BY <2>1, <2>2, <2>3 DEF Round
  <2> QED
    BY <2>4 DEF f
<1>2. Round(acc, i, FiltersGood(s), FiltersKey(s), FiltersValue(s)) \in FilterAccs
  BY FilterTypes, RoundType DEF FilterAccs
<1> QED
  BY <1>1, <1>2

LEMMA FilterLoop ==
  ASSUME NEW s \in Seq(BinderTransactionFilter)
  PROVE  /\ FilterFold(s) \in FilterAccs
         /\ After(FilterFold(s), s # <<>>, Len(s), FiltersGood(s), FiltersKey(s), FiltersValue(s))
<1> DEFINE n == Len(s)
           A == FilterAccs
           base == FilterBase(s)
           G == [i \in 1..n |-> [acc \in A |-> AddFilter(acc, s[i])]]
           it == CHOOSE iter : iter = [x \in SUBSET (1..n) |->
                     IF x = {} THEN base ELSE AddFilter(iter[x \ {Max(x)}], s[Max(x)])]
<1>1. n \in Nat /\ DOMAIN s = 1..n
  OBVIOUS
<1>2. FilterFold(s) = it[1..n]
  <2>1. FilterFold(s) = (CHOOSE iter : iter = [x \in SUBSET (DOMAIN s) |->
                      IF x = {} THEN base
                      ELSE AddFilter(iter[x \ {Max(x)}], s[Max(x)])])[DOMAIN s]
    BY DEF FilterFold, FoldLeft, MapThenFoldSet
  <2> QED
    BY <1>1, <2>1
<1>3. base \in A
  BY EmptyMapType DEF FilterBase, FilterAccs, Accs
<1>4. G \in [1..n -> [A -> A]]
  <2>1. \A i \in 1..n : \A acc \in A : AddFilter(acc, s[i]) \in A
    BY AddFilterRound
  <2> HIDE DEF A
  <2> QED
    BY <2>1
<1> HIDE DEF A, base
<1>5. PICK f \in [SUBSET (1..n) -> A] : FoldsAlong(f, n, base, G)
  <2>1. CanFold(n, A, base, G)
    <3> HIDE DEF G
    <3> QED
      BY <1>1, <1>3, <1>4, FoldExists
  <2> QED
    BY <2>1 DEF CanFold
<1>6. ASSUME NEW x \in SUBSET (1..n), x # {} PROVE Max(x) \in 1..n /\ x \ {Max(x)} \in SUBSET (1..n)
  <2>1. x \in SUBSET (0..n)
    OBVIOUS
  <2> QED
    BY <1>1, <1>6, <2>1, MaxIsGreatest
<1>7. ASSUME NEW x \in SUBSET (1..n)
      PROVE  f[x] = IF x = {} THEN base ELSE AddFilter(f[x \ {Max(x)}], s[Max(x)])
  <2>1. CASE x = {}
    BY <1>5, <2>1 DEF FoldsAlong
  <2>2. CASE x # {}
    <3>1. f[x] = G[Max(x)][f[x \ {Max(x)}]]
      BY <1>5, <2>2 DEF FoldsAlong
    <3>2. G[Max(x)][f[x \ {Max(x)}]] = AddFilter(f[x \ {Max(x)}], s[Max(x)])
      BY <1>6, <2>2
    <3> QED
      BY <2>2, <3>1, <3>2
  <2> QED
    BY <2>1, <2>2
<1> HIDE DEF G
<1>8. f = [x \in SUBSET (1..n) |->
              IF x = {} THEN base ELSE AddFilter(f[x \ {Max(x)}], s[Max(x)])]
  BY <1>7
<1>9. it = [x \in SUBSET (1..n) |->
               IF x = {} THEN base ELSE AddFilter(it[x \ {Max(x)}], s[Max(x)])]
  BY <1>8
<1> HIDE DEF it
<1>10. /\ it[{}] = base
       /\ \A x \in SUBSET (1..n) : x # {} => it[x] = AddFilter(it[x \ {Max(x)}], s[Max(x)])
  BY <1>9
<1> DEFINE h == [k \in 0..n |-> it[1..k]]
<1>11. h[0] = base
  <2>1. 1..0 = {} /\ 0 \in 0..n
    BY <1>1
  <2> QED
    BY <1>10, <2>1
<1>12. ASSUME NEW k \in 1..n PROVE h[k] = AddFilter(h[k - 1], s[k])
  <2>1. k \in Nat /\ k > 0 /\ 1..k \in SUBSET (1..n) /\ k \in 0..n /\ k - 1 \in 0..n
    BY <1>1
  <2>2. Max(1..k) = k /\ (1..k) \ {k} = 1..(k - 1) /\ 1..k # {}
    BY <2>1, FoldStep
  <2>3. it[1..k] = AddFilter(it[1..(k - 1)], s[k])
    BY <1>10, <2>1, <2>2
  <2> QED
    BY <2>1, <2>3
<1>13. h[n] = FilterFold(s)
  BY <1>1, <1>2
<1> HIDE DEF h
<1>14. \A k \in 1..n : h[k - 1] \in FilterAccs =>
           h[k] = Round(h[k - 1], k, FiltersGood(s), FiltersKey(s), FiltersValue(s))
  BY <1>12, AddFilterRound
<1>15. /\ FiltersKey(s) \in [1..n -> FilterKeys] /\ FiltersValue(s) \in [1..n -> MethodMaps]
  BY FilterTypes
<1>16. h[0] = [ok |-> s # <<>>, map |-> EmptyMap]
  BY <1>11 DEF base, FilterBase
<1>17. h[n] \in FilterAccs /\ After(h[n], s # <<>>, n, FiltersGood(s), FiltersKey(s), FiltersValue(s))
  <2> HIDE DEF n
  <2>1. CASE s # <<>>
    <3>1. h[0] = [ok |-> TRUE, map |-> EmptyMap] /\ (s # <<>>) = TRUE
      BY <1>16, <2>1
    <3>2. h[n] \in FilterAccs /\ After(h[n], TRUE, n, FiltersGood(s), FiltersKey(s), FiltersValue(s))
      BY <1>1, <1>14, <1>15, <3>1, InsertLoop DEF FilterAccs
    <3> QED
      BY <3>1, <3>2
  <2>2. CASE s = <<>>
    <3>1. h[0] = [ok |-> FALSE, map |-> EmptyMap] /\ (s # <<>>) = FALSE
      BY <1>16, <2>2
    <3>2. h[n] \in FilterAccs /\ After(h[n], FALSE, n, FiltersGood(s), FiltersKey(s), FiltersValue(s))
      BY <1>1, <1>14, <1>15, <3>1, InsertLoop DEF FilterAccs
    <3> QED
      BY <3>1, <3>2
  <2> QED
    BY <2>1, <2>2
<1> QED
  BY <1>13, <1>17

-----------------------------------------------------------------------------
(* The checks of the code, in order, are those of the reference. *)

LEMMA MethodsChecked ==
  ASSUME NEW s \in Seq(MethodConfig)
  PROVE  /\ MethodFold(s).ok \in BOOLEAN
         /\ MethodFold(s).ok = TRUE <=> /\ \A i \in DOMAIN s : GoodMethod(s[i])
                                        /\ Distinct([i \in DOMAIN s |-> s[i].id])
<1> DEFINE acc == MethodFold(s)
           n == Len(s)
<1>1. acc \in MethodAccs /\ After(acc, TRUE, n, MethodsGood(s), MethodsKey(s), MethodsValue(s))
  BY MethodLoop
<1>2. DOMAIN s = 1..n /\ \A i \in 1..n : s[i] \in MethodConfig
  OBVIOUS
<1>3. 1..n \subseteq MethodsGood(s) <=> \A i \in DOMAIN s : GoodMethod(s[i])
  BY <1>2, MethodFacts DEF MethodsGood
<1>4. (\A i, j \in 1..n : MethodsKey(s)[i] = MethodsKey(s)[j] => i = j)
         <=> Distinct([i \in DOMAIN s |-> s[i].id])
  BY <1>2 DEF MethodsKey, Distinct
<1> HIDE DEF acc, n
<1>5. acc.ok = TRUE <=> AllGood(TRUE, n, MethodsGood(s), MethodsKey(s))
  BY <1>1 DEF After
<1>6. acc.ok \in BOOLEAN
  BY <1>1 DEF MethodAccs, Accs
<1> QED
  BY <1>3, <1>4, <1>5, <1>6 DEF AllGood, acc

LEMMA FilterChecked ==
  ASSUME NEW f \in BinderTransactionFilter
  PROVE  FilterOk(f) <=> GoodFilter(f)
<1>1. f.methods \in Seq(MethodConfig)
  BY DEF BinderTransactionFilter
<1>2. /\ MethodFold(f.methods).ok \in BOOLEAN
      /\ MethodFold(f.methods).ok = TRUE
            <=> /\ \A i \in DOMAIN f.methods : GoodMethod(f.methods[i])
                /\ Distinct([i \in DOMAIN f.methods |-> f.methods[i].id])
  BY <1>1, MethodsChecked
<1> QED
  BY <1>2 DEF FilterOk, GoodFilter

LEMMA FiltersChecked ==
  ASSUME NEW s \in Seq(BinderTransactionFilter)
  PROVE  /\ FilterFold(s).ok \in BOOLEAN
         /\ FilterFold(s).ok = TRUE <=> /\ s # <<>>
                                        /\ \A i \in DOMAIN s : GoodFilter(s[i])
                                        /\ Distinct([i \in DOMAIN s |-> s[i].interface])
<1> DEFINE acc == FilterFold(s)
           n == Len(s)
<1>1. acc \in FilterAccs /\ After(acc, s # <<>>, n, FiltersGood(s), FiltersKey(s), FiltersValue(s))
  BY FilterLoop
<1>2. DOMAIN s = 1..n /\ \A i \in 1..n : s[i] \in BinderTransactionFilter
  OBVIOUS
<1>3. 1..n \subseteq FiltersGood(s) <=> \A i \in DOMAIN s : GoodFilter(s[i])
  BY <1>2, FilterChecked DEF FiltersGood
<1>4. (\A i, j \in 1..n : FiltersKey(s)[i] = FiltersKey(s)[j] => i = j)
         <=> Distinct([i \in DOMAIN s |-> s[i].interface])
  BY <1>2 DEF FiltersKey, Distinct
<1> HIDE DEF acc, n
<1>5. acc.ok = TRUE <=> AllGood(s # <<>>, n, FiltersGood(s), FiltersKey(s))
  BY <1>1 DEF After
<1>6. acc.ok \in BOOLEAN
  BY <1>1 DEF FilterAccs, Accs
<1>7. AllGood(s # <<>>, n, FiltersGood(s), FiltersKey(s))
         <=> /\ s # <<>> /\ 1..n \subseteq FiltersGood(s)
             /\ \A i, j \in 1..n : FiltersKey(s)[i] = FiltersKey(s)[j] => i = j
  BY DEF AllGood
<1> QED
  BY <1>3, <1>4, <1>5, <1>6, <1>7 DEF acc

(* All that resolve_probes checks of a probe but the flags. *)
LEMMA ProbeChecked ==
  ASSUME NEW p \in ProbeConfig
  PROVE  p.bpf # Absent /\ p.method # Absent /\ ResolveBinderTransactionFilters(p).ok <=> GoodProbe(p)
<1>1. p.filters \in Seq(BinderTransactionFilter)
  BY DEF ProbeConfig
<1>2. CASE p.bpf = BinderProg
  <2>1. ResolveBinderTransactionFilters(p) = FilterFold(p.filters)
    BY <1>2 DEF ResolveBinderTransactionFilters, FilterFold, FilterBase
  <2>2. /\ FilterFold(p.filters).ok \in BOOLEAN
        /\ FilterFold(p.filters).ok = TRUE
              <=> /\ p.filters # <<>>
                  /\ \A i \in DOMAIN p.filters : GoodFilter(p.filters[i])
                  /\ Distinct([i \in DOMAIN p.filters |-> p.filters[i].interface])
    BY <1>1, FiltersChecked
  <2> QED
    BY <1>2, <2>1, <2>2 DEF GoodProbe
<1>3. CASE p.bpf # BinderProg
  <2>1. ResolveBinderTransactionFilters(p).ok <=> p.filters = <<>>
    BY <1>3 DEF ResolveBinderTransactionFilters
  <2>2. p.filters = <<>> => DOMAIN p.filters = {}
    BY <1>1
  <2>3. DOMAIN p.filters = {} => Distinct([i \in DOMAIN p.filters |-> p.filters[i].interface])
    BY DEF Distinct
  <2> QED
    BY <1>3, <2>1, <2>2, <2>3 DEF GoodProbe
<1> QED
  BY <1>2, <1>3

(* What FiltersComplete says of one probe and the map resolved for it. *)
Complete(p, map) ==
    \A i \in DOMAIN p.filters : \A j \in DOMAIN p.filters[i].methods :
        LET f == p.filters[i]
            m == f.methods[j]
        IN  /\ f.interface \in DOMAIN map
            /\ m.id \in DOMAIN map[f.interface]
            /\ map[f.interface][m.id].atom = m.atom
            /\ (map[f.interface][m.id].event = "Flush") <=> (m.event = "flush")

LEMMA FlushKept ==
  ASSUME NEW m \in MethodConfig
  PROVE  MethodValue(m).atom = m.atom /\ (MethodValue(m).event = "Flush" <=> m.event = "flush")
<1>1. m.event \in {Absent, "flush", "buffer"}
  BY DEF MethodConfig
<1>2. Absent # "flush" /\ Absent # "Flush"
  BY ConfigAssumption
<1> QED
  BY <1>1, <1>2 DEF MethodValue, EventMode

LEMMA ProbeComplete ==
  ASSUME NEW p \in ProbeConfig, ResolveBinderTransactionFilters(p).ok
  PROVE  Complete(p, ResolveBinderTransactionFilters(p).map)
<1>1. p.filters \in Seq(BinderTransactionFilter)
  BY DEF ProbeConfig
<1>2. CASE p.bpf = BinderProg
  <2> DEFINE s == p.filters
             acc == FilterFold(s)
             map == acc.map
             n == Len(s)
  <2>1. ResolveBinderTransactionFilters(p) = acc
    BY <1>2 DEF ResolveBinderTransactionFilters, FilterFold, FilterBase
  <2>2. acc.ok = TRUE
    BY <1>1, <2>1, FiltersChecked
  <2>3. After(acc, s # <<>>, n, FiltersGood(s), FiltersKey(s), FiltersValue(s))
    BY <1>1, FilterLoop
  <2>4. AllGood(s # <<>>, n, FiltersGood(s), FiltersKey(s)) /\ Holds(map, n, FiltersKey(s), FiltersValue(s))
    <3> HIDE DEF acc, s, n
    <3> QED
      BY <2>2, <2>3 DEF After
  <2>5. DOMAIN s = 1..n /\ \A i \in 1..n : s[i] \in BinderTransactionFilter
    BY <1>1
  <2> HIDE DEF map, acc, n
  <2>6. ASSUME NEW i \in 1..n
        PROVE  /\ s[i].interface \in DOMAIN map
               /\ map[s[i].interface] = MethodFold(s[i].methods).map
               /\ FilterOk(s[i])
    <3>1. FiltersKey(s)[i] = s[i].interface /\ FiltersValue(s)[i] = MethodFold(s[i].methods).map
      BY DEF FiltersKey, FiltersValue, n
    <3>2. FiltersKey(s)[i] \in DOMAIN map /\ map[FiltersKey(s)[i]] = FiltersValue(s)[i]
      BY <2>4 DEF Holds
    <3>3. i \in FiltersGood(s)
      BY <2>4 DEF AllGood
    <3> QED
      BY <3>1, <3>2, <3>3 DEF FiltersGood
  <2>7. ASSUME NEW t \in Seq(MethodConfig), MethodFold(t).ok, NEW j \in DOMAIN t
        PROVE  /\ t[j].id \in DOMAIN MethodFold(t).map
               /\ MethodFold(t).map[t[j].id] = MethodValue(t[j])
               /\ t[j] \in MethodConfig
    <3>1. /\ MethodFold(t) \in MethodAccs
          /\ After(MethodFold(t), TRUE, Len(t), MethodsGood(t), MethodsKey(t), MethodsValue(t))
      BY MethodLoop
    <3>2. MethodFold(t).ok = TRUE
      BY <2>7, MethodsChecked
    <3>3. Holds(MethodFold(t).map, Len(t), MethodsKey(t), MethodsValue(t))
      BY <3>1, <3>2 DEF After
    <3>4. j \in 1..Len(t) /\ t[j] \in MethodConfig
      OBVIOUS
    <3>5. MethodsKey(t)[j] = t[j].id /\ MethodsValue(t)[j] = MethodValue(t[j])
      BY <3>4 DEF MethodsKey, MethodsValue
    <3> QED
      BY <3>3, <3>4, <3>5 DEF Holds
  <2>8. ASSUME NEW i \in 1..n, NEW j \in DOMAIN s[i].methods
        PROVE  LET f == s[i]
                   m == f.methods[j]
               IN  /\ f.interface \in DOMAIN map
                   /\ m.id \in DOMAIN map[f.interface]
                   /\ map[f.interface][m.id].atom = m.atom
                   /\ (map[f.interface][m.id].event = "Flush") <=> (m.event = "flush")
    <3> DEFINE t == s[i].methods
               m == t[j]
               inner == map[s[i].interface]
    <3>1. t \in Seq(MethodConfig)
      BY <2>5 DEF BinderTransactionFilter
    <3>2. MethodFold(t).ok /\ inner = MethodFold(t).map /\ s[i].interface \in DOMAIN map
      BY <2>6 DEF FilterOk
    <3>3. m.id \in DOMAIN inner /\ inner[m.id] = MethodValue(m) /\ m \in MethodConfig
      BY <2>7, <3>1, <3>2
    <3> HIDE DEF m, inner
    <3>4. inner[m.id].atom = m.atom /\ (inner[m.id].event = "Flush" <=> m.event = "flush")
      BY <3>3, FlushKept
    <3> QED
      BY <3>2, <3>3, <3>4 DEF m, inner
  <2> QED
    BY <2>1, <2>5, <2>8, ZenonT(40) DEF Complete, map
<1>3. CASE p.bpf # BinderProg
  <2>1. p.filters = <<>>
    BY <1>3 DEF ResolveBinderTransactionFilters
  <2>2. DOMAIN p.filters = {}
    BY <1>1, <2>1
  <2> QED
    BY <2>2 DEF Complete
<1> QED
  BY <1>2, <1>3

-----------------------------------------------------------------------------
(* The guardrail. *)

(* With one task, the probes looked at are its probes. *)
LEMMA OneTasksProbes ==
  ASSUME NEW c \in Seq(TaskConfig), Len(c) = 1
  PROVE  FlattenSeq([i \in DOMAIN c |-> c[i].probes]) = c[1].probes /\ c[1] \in TaskConfig
<1> DEFINE s == [i \in DOMAIN c |-> c[i].probes]
<1>1. DOMAIN c = 1..1 /\ c[1] \in TaskConfig
  OBVIOUS
<1>2. c[1].probes \in Seq(ProbeConfig)
  BY <1>1 DEF TaskConfig
<1>3. s \in Seq(Seq(ProbeConfig)) /\ Len(s) = 1 /\ s[1] = c[1].probes
  BY <1>1, <1>2
<1> HIDE DEF s
<1>4. IsSeq(s) /\ \A i \in 1..Len(s) : s[i] \in Seq(ProbeConfig)
  BY <1>3 DEF IsSeq
<1>5. PICK P \in [0..Len(s) -> Seq(ProbeConfig)] :
            /\ P[0] = <<>>
            /\ \A k \in 1..Len(s) : P[k] = P[k - 1] \o s[k]
            /\ FlattenSeq(s) = P[Len(s)]
  BY <1>4, FlattenPrefixes
<1>6. FlattenSeq(s) = <<>> \o s[1]
  <2>1. 1 \in 1..Len(s) /\ 1 - 1 = 0
    BY <1>3
  <2>2. P[1] = P[1 - 1] \o s[1]
    BY <1>5, <2>1
  <2> QED
    BY <1>3, <1>5, <2>1, <2>2
<1>7. FlattenSeq(s) = c[1].probes
  BY <1>2, <1>3, <1>6
<1> QED
  BY <1>1, <1>7 DEF s

(* The loop ends well exactly if all methods up to the accessibility        *)
(* program are on the list.                                                 *)
LEMMA GuardrailChecked ==
  ASSUME Len(config) = 1, config \in Seq(TaskConfig), isUserBuild \in BOOLEAN
  PROVE  IsAllowed(config) <=> (isUserBuild => Listed)
<1> DEFINE ps == config[1].probes
           Decides(i) == ps[i].bpf \in {Absent, A11yProg} \/ ps[i].method # "listed"
           deciding == {i \in DOMAIN ps : Decides(i)}
<1>1. FlattenSeq([i \in DOMAIN config |-> config[i].probes]) = ps /\ config[1] \in TaskConfig
  BY OneTasksProbes
<1>2. ps \in Seq(ProbeConfig)
  BY <1>1 DEF TaskConfig
<1>3. IsAllowed(config) <=> (isUserBuild => AllowListed(ps))
  BY <1>1 DEF IsAllowed
<1>4. AllowListed(ps) <=> (deciding # {} => ps[Min(deciding)].bpf = A11yProg)
  BY DEF AllowListed
<1>5. Listed <=> \A i \in DOMAIN ps : \/ ps[i].bpf # Absent /\ ps[i].method = "listed"
                                      \/ \E j \in 1..i : ps[j].bpf = A11yProg
  BY DEF Listed, Probes, Task
<1>6. DOMAIN ps = 1..Len(ps) /\ Len(ps) \in Nat
  BY <1>2
<1> HIDE DEF ps
<1>7. CASE deciding = {}
  <2>1. \A i \in DOMAIN ps : ps[i].bpf # Absent /\ ps[i].method = "listed"
    BY <1>7
  <2> QED
    BY <1>3, <1>4, <1>5, <1>7, <2>1
<1>8. CASE deciding # {}
  <2>1. deciding \in SUBSET Nat
    BY <1>6
  <2>2. PICK m : m = Min(deciding)
    OBVIOUS
  <2>3. m \in deciding /\ \A i \in deciding : m <= i
    <3> HIDE DEF deciding
    <3> QED
      BY <1>8, <2>1, <2>2, MinIsLeast
  <2>4. ASSUME ps[m].bpf = A11yProg PROVE Listed
    <3>1. ASSUME NEW i \in DOMAIN ps
          PROVE  \/ ps[i].bpf # Absent /\ ps[i].method = "listed"
                 \/ \E j \in 1..i : ps[j].bpf = A11yProg
      <4>1. CASE i \in deciding
        <5>1. m \in 1..i
          BY <1>6, <2>3, <4>1
        <5> QED
          BY <2>4, <5>1
      <4>2. CASE i \notin deciding
        BY <4>2
      <4> QED
        BY <4>1, <4>2
    <3> QED
      BY <1>5, <3>1
  <2>5. ASSUME Listed PROVE ps[m].bpf = A11yProg
    <3>1. m \in DOMAIN ps /\ Decides(m)
      BY <2>3
    <3>2. \/ ps[m].bpf # Absent /\ ps[m].method = "listed"
          \/ \E j \in 1..m : ps[j].bpf = A11yProg
      BY <1>5, <2>5, <3>1
    <3>3. CASE ps[m].bpf # Absent /\ ps[m].method = "listed"
      BY <3>1, <3>3
    <3>4. ASSUME NEW j \in 1..m, ps[j].bpf = A11yProg PROVE ps[m].bpf = A11yProg
      <4>1. j \in DOMAIN ps /\ j <= m /\ m \in Nat /\ j \in Nat
        BY <1>6, <3>1
      <4>2. j \in deciding
        BY <3>4, <4>1
      <4>3. j = m
        BY <2>3, <4>1, <4>2
      <4> QED
        BY <3>4, <4>3
    <3> QED
      BY <3>2, <3>3, <3>4
  <2> QED
    BY <1>3, <1>4, <1>8, <2>2, <2>4, <2>5
<1> QED
  BY <1>7, <1>8

-----------------------------------------------------------------------------
(* The invariant. *)

OneAllowed == Len(config) = 1 /\ (isUserBuild => Listed)

(* How far resolve_config got says what has been checked, and what has been *)
(* asked says it too, once an error has ended it.                           *)
Progress ==
    /\ pc \in {"allowed", "valid", "probing", "resolved", "unavailable"} => OneAllowed
    /\ pc \in {"valid", "probing", "resolved", "unavailable"} => TaskOk
    /\ asked > 0 => OneAllowed /\ TaskOk
    /\ pc \in {"parsed", "allowed", "valid"} => filters = <<>> /\ asked = 0
    /\ pc = "probing" => asked = Len(filters) + 1
    /\ pc = "resolved" => Len(filters) = Len(Probes)
    /\ pc = "rejected" => ~Acceptable

Bounds ==
    /\ asked \in Nat /\ Len(filters) \in Nat
    /\ Len(config) # 1 => asked = 0 /\ filters = <<>>
    /\ Len(config) = 1 => asked <= Len(Probes) + 1 /\ Len(filters) <= Len(Probes)

ProbesDone ==
    \A n \in 1..Len(filters) :
        ProbeOk(Probes[n]) /\ filters[n] = ResolveBinderTransactionFilters(Probes[n]).map

Inv ==
    /\ config \in Seq(TaskConfig) /\ isUserBuild \in BOOLEAN /\ IsSeq(filters)
    /\ pc \in {"parsed", "allowed", "valid", "probing", "resolved", "rejected", "unavailable"}
    /\ error \in {"none", "other", "task"}
    /\ error = "other" => Len(config) # 1
    /\ Len(config) # 1 => pc = "parsed" \/ error = "other"
    /\ Progress /\ Bounds /\ ProbesDone

LEMMA TaskTyped ==
  ASSUME config \in Seq(TaskConfig), Len(config) = 1
  PROVE  /\ Task \in TaskConfig /\ Probes \in Seq(ProbeConfig)
         /\ Len(Probes) \in Nat /\ DOMAIN Probes = 1..Len(Probes)
         /\ \A i \in 1..Len(Probes) : Probes[i] \in ProbeConfig
<1>1. Task \in TaskConfig
  BY DEF Task
<1>2. Probes \in Seq(ProbeConfig)
  BY <1>1 DEF Probes, TaskConfig
<1> QED
  BY <1>1, <1>2

(* Task checks and probe checks together are those of the reference. *)
LEMMA AcceptableParts ==
  ASSUME config \in Seq(TaskConfig), Len(config) = 1
  PROVE  Acceptable <=> /\ isUserBuild => Listed
                        /\ TaskOk
                        /\ \A i \in 1..Len(Probes) : ProbeOk(Probes[i])
<1>1. /\ Task \in TaskConfig /\ DOMAIN Probes = 1..Len(Probes)
      /\ \A i \in 1..Len(Probes) : Probes[i] \in ProbeConfig
  BY TaskTyped
<1>2. TaskOk <=> /\ \A f \in Task.maps : f # Absent => IsBpfFileEnabled(f)
                 /\ Task.duration \notin {Absent, 0}
  <2>1. Task.maps \in SUBSET STRING /\ Task.duration \in {Absent} \cup Nat
    BY <1>1 DEF TaskConfig
  <2>2. \A f \in Task.maps : f # Absent
    BY <2>1, ConfigAssumption
  <2> QED
    BY <2>1, <2>2 DEF TaskOk
<1>3. ASSUME NEW i \in 1..Len(Probes)
      PROVE  ProbeOk(Probes[i]) <=> GoodProbe(Probes[i]) /\ (Probes[i].bpf # Absent => IsBpfFileEnabled(Probes[i].bpf))
  <2>1. Probes[i] \in ProbeConfig
    BY <1>1
  <2>2. /\ Probes[i].bpf # Absent /\ Probes[i].method # Absent
        /\ ResolveBinderTransactionFilters(Probes[i]).ok
        <=> GoodProbe(Probes[i])
    BY <2>1, ProbeChecked
  <2> QED
    BY <2>2 DEF ProbeOk
<1>4. Enabled <=> /\ \A f \in Task.maps : f # Absent => IsBpfFileEnabled(f)
                  /\ \A i \in 1..Len(Probes) : Probes[i].bpf # Absent => IsBpfFileEnabled(Probes[i].bpf)
  BY <1>1 DEF Enabled
<1>5. GoodTask(Task) <=> Task.duration \notin {Absent, 0} /\ \A i \in 1..Len(Probes) : GoodProbe(Probes[i])
  BY <1>1 DEF GoodTask, Probes
<1> QED
  BY <1>2, <1>3, <1>4, <1>5 DEF Acceptable

LEMMA InitInv == Init => Inv
<1> SUFFICES ASSUME Init PROVE Inv
  OBVIOUS
<1>1. config \in Seq(TaskConfig) /\ isUserBuild \in BOOLEAN /\ pc = "parsed" /\ error = "none"
      /\ filters = <<>> /\ asked = 0
  BY ConfigAssumption DEF Init
<1>2. IsSeq(filters) /\ Len(filters) = 0
  BY <1>1, EmptyIsSeq
<1>3. Progress
  BY <1>1 DEF Progress
<1>4. Bounds
  <2>1. Len(config) = 1 => Len(Probes) \in Nat
    BY <1>1, TaskTyped
  <2> QED
    BY <1>1, <1>2, <2>1 DEF Bounds
<1>5. ProbesDone
  BY <1>2 DEF ProbesDone
<1> QED
  BY <1>1, <1>2, <1>3, <1>4, <1>5 DEF Inv

(* What is said of the input alone stays. *)
SameInput ==
    /\ config' = config /\ isUserBuild' = isUserBuild /\ Probes' = Probes
    /\ OneAllowed' <=> OneAllowed
    /\ TaskOk' <=> TaskOk
    /\ Acceptable' <=> Acceptable

LEMMA InputStays ==
  ASSUME UNCHANGED input
  PROVE  SameInput /\ \A p : ProbeOk(p)' <=> ProbeOk(p)
<1>1. config' = config /\ flags' = flags /\ isUserBuild' = isUserBuild
  BY DEF input
<1>2. Task' = Task /\ Probes' = Probes
  BY <1>1 DEF Task, Probes
<1>3. \A f : IsBpfFileEnabled(f)' <=> IsBpfFileEnabled(f)
  BY <1>1 DEF IsBpfFileEnabled
<1>4. \A p : ProbeOk(p)' <=> ProbeOk(p)
  BY <1>3 DEF ProbeOk
<1>5. Listed' <=> Listed
  BY <1>2 DEF Listed
<1>6. OneAllowed' <=> OneAllowed
  BY <1>1, <1>5 DEF OneAllowed
<1>7. TaskOk' <=> TaskOk
  BY <1>2, <1>3 DEF TaskOk
<1>8. Enabled' <=> Enabled
  BY <1>2, <1>3 DEF Enabled
<1>9. GoodTask(Task)' <=> GoodTask(Task)
  BY <1>2 DEF GoodTask
<1>10. Acceptable' <=> Acceptable
  BY <1>1, <1>5, <1>8, <1>9 DEF Acceptable
<1> QED
  BY <1>1, <1>2, <1>4, <1>6, <1>7, <1>10 DEF SameInput

(* A step that leaves filters alone leaves the probes done alone. *)
LEMMA DoneStays ==
  ASSUME Inv, UNCHANGED input, filters' = filters
  PROVE  ProbesDone' /\ IsSeq(filters)'
<1>1. SameInput /\ \A p : ProbeOk(p)' <=> ProbeOk(p)
  BY InputStays
<1>2. Probes' = Probes /\ \A n \in 1..Len(filters) :
          ProbeOk(Probes[n]) /\ filters[n] = ResolveBinderTransactionFilters(Probes[n]).map
  BY <1>1 DEF Inv, ProbesDone, SameInput
<1>3. (\A n \in 1..Len(filters) : ProbeOk(Probes[n]))'
  BY <1>1, <1>2 DEF ProbeOk, IsBpfFileEnabled, input
<1>4. (\A n \in 1..Len(filters) : filters[n] = ResolveBinderTransactionFilters(Probes[n]).map)'
  BY <1>2
<1> QED
  BY <1>3, <1>4 DEF ProbesDone, Inv

(* The parts of the invariant that most steps have to show. *)
LEMMA StepInv ==
  ASSUME Inv, UNCHANGED input, filters' = filters,
         pc' \in {"allowed", "valid", "probing", "resolved", "rejected", "unavailable"},
         error' \in {"none", "other", "task"},
         error' = "other" => Len(config) # 1,
         Len(config) # 1 => error' = "other",
         Progress', Bounds'
  PROVE  Inv'
<1>1. SameInput
  BY InputStays
<1>2. ProbesDone' /\ IsSeq(filters)'
  BY DoneStays
<1>3. /\ config' \in Seq(TaskConfig) /\ isUserBuild' \in BOOLEAN
      /\ (error' = "other" => Len(config') # 1) /\ (Len(config') # 1 => error' = "other")
  BY <1>1 DEF Inv, SameInput
<1> QED
  BY <1>2, <1>3 DEF Inv

LEMMA RejectConfigInv == Inv /\ RejectConfig => Inv'
<1> SUFFICES ASSUME Inv, RejectConfig PROVE Inv'
  OBVIOUS
<1>1. /\ pc = "parsed" /\ pc' = "rejected" /\ error' = "other" /\ UNCHANGED <<input, filters, asked>>
      /\ Len(config) # 1
  BY DEF RejectConfig, Reject
<1>2. SameInput
  BY <1>1, InputStays
<1>3. filters' = <<>> /\ asked' = 0 /\ ~Acceptable /\ Len(filters') = 0
  <2>1. filters = <<>> /\ asked = 0
    BY <1>1 DEF Inv, Progress
  <2> QED
    BY <1>1, <2>1, EmptyIsSeq DEF Acceptable
<1>4. Progress'
  BY <1>1, <1>2, <1>3 DEF Progress, SameInput
<1>5. Bounds'
  BY <1>1, <1>2, <1>3 DEF Bounds, SameInput
<1> QED
  BY <1>1, <1>4, <1>5, StepInv

(* Before the first probe, nothing is resolved and nothing asked. *)
LEMMA EarlyInv ==
  ASSUME Inv, UNCHANGED <<input, filters, asked>>, pc \in {"parsed", "allowed"},
         pc' \in {"allowed", "valid", "rejected"}, error' \in {"none", "task"},
         OneAllowed \/ (pc' = "rejected" /\ Len(config) = 1),
         pc' = "valid" => TaskOk,
         pc' = "rejected" => ~Acceptable
  PROVE  Inv'
<1>1. SameInput
  BY InputStays
<1>2. filters' = <<>> /\ asked' = 0 /\ Len(filters') = 0
  BY EmptyIsSeq DEF Inv, Progress
<1>3. Len(config) = 1 /\ Len(Probes) \in Nat
  BY TaskTyped DEF OneAllowed, Inv
<1>4. Progress'
  BY <1>1, <1>2 DEF Progress, SameInput
<1>5. Bounds'
  BY <1>1, <1>2, <1>3 DEF Bounds, SameInput
<1> QED
  BY <1>3, <1>4, <1>5, StepInv

LEMMA EarlySteps ==
  Inv /\ (CheckGuardrail \/ RejectGuardrail \/ ValidateTask \/ RejectTask) => Inv'
<1>1. ASSUME Inv, CheckGuardrail PROVE Inv'
  <2>1. OneAllowed /\ error \in {"none", "task"}
    BY <1>1, GuardrailChecked DEF CheckGuardrail, Inv, OneAllowed
  <2> QED
    BY <1>1, <2>1, EarlyInv DEF CheckGuardrail
<1>2. ASSUME Inv, RejectGuardrail PROVE Inv'
  <2>1. Len(config) = 1 /\ ~(isUserBuild => Listed)
    BY <1>2, GuardrailChecked DEF RejectGuardrail, Inv
  <2>2. ~Acceptable
    BY <2>1 DEF Acceptable
  <2> QED
    BY <1>2, <2>1, <2>2, EarlyInv DEF RejectGuardrail, Reject
<1>3. ASSUME Inv, ValidateTask PROVE Inv'
  <2>1. OneAllowed /\ error \in {"none", "task"}
    BY <1>3 DEF ValidateTask, Inv, Progress, OneAllowed
  <2> QED
    BY <1>3, <2>1, EarlyInv DEF ValidateTask
<1>4. ASSUME Inv, RejectTask PROVE Inv'
  <2>1. OneAllowed
    BY <1>4 DEF RejectTask, Reject, Inv, Progress
  <2>2. ~Acceptable
    BY <1>4, <2>1, AcceptableParts DEF RejectTask, Inv, OneAllowed
  <2> QED
    BY <1>4, <2>1, <2>2, EarlyInv DEF RejectTask, Reject
<1> QED
  BY <1>1, <1>2, <1>3, <1>4

LEMMA ResolveProcessSteps ==
  Inv /\ (ResolveProcess \/ ResolveProcessFails) => Inv'
<1> SUFFICES ASSUME Inv, ResolveProcess \/ ResolveProcessFails PROVE Inv'
  OBVIOUS
<1>1. /\ pc = "valid" /\ pc' \in {"probing", "unavailable"} /\ asked' = 1
      /\ UNCHANGED <<input, filters>> /\ error' \in {"none", "other", "task"}
      /\ error' \in {error, "task"}
  BY DEF ResolveProcess, ResolveProcessFails, Inv
<1>2. SameInput
  BY <1>1, InputStays
<1>3. OneAllowed /\ TaskOk /\ filters' = <<>> /\ Len(filters') = 0
  BY <1>1, EmptyIsSeq DEF Inv, Progress
<1>4. Len(config) = 1 /\ Len(Probes) \in Nat
  BY <1>3, TaskTyped DEF OneAllowed, Inv
<1>5. Progress'
  BY <1>1, <1>2, <1>3 DEF Progress, SameInput
<1>6. Bounds'
  BY <1>1, <1>2, <1>3, <1>4 DEF Bounds, SameInput
<1>7. error' = "other" => Len(config) # 1
  BY <1>1 DEF Inv
<1> QED
  BY <1>1, <1>4, <1>5, <1>6, <1>7, StepInv

(* What holds between the probes. *)
LEMMA Probing ==
  ASSUME Inv, pc = "probing"
  PROVE  /\ OneAllowed /\ TaskOk /\ Len(config) = 1 /\ config \in Seq(TaskConfig)
         /\ asked = Len(filters) + 1 /\ Len(filters) \in Nat /\ Len(Probes) \in Nat
         /\ Len(filters) <= Len(Probes) /\ error \in {"none", "task"} /\ IsSeq(filters)
         /\ Left => Len(filters) + 1 \in 1..Len(Probes)
<1>1. /\ OneAllowed /\ TaskOk /\ Len(config) = 1 /\ config \in Seq(TaskConfig)
      /\ asked = Len(filters) + 1 /\ error \in {"none", "task"} /\ IsSeq(filters)
  BY DEF Inv, Progress, OneAllowed
<1>2. Len(Probes) \in Nat
  BY <1>1, TaskTyped
<1>3. Len(filters) \in Nat /\ Len(filters) <= Len(Probes)
  BY <1>1 DEF Inv, Bounds
<1> QED
  BY <1>1, <1>2, <1>3 DEF Left

LEMMA ResolveProbeInv == Inv /\ ResolveProbe => Inv'
<1> SUFFICES ASSUME Inv, ResolveProbe PROVE Inv'
  OBVIOUS
<1> DEFINE new == ResolveBinderTransactionFilters(Next1).map
<1>1. /\ pc = "probing" /\ Left /\ ProbeOk(Next1) /\ filters' = Append(filters, new)
      /\ asked' = asked + 1 /\ UNCHANGED input /\ pc' = pc /\ error' = error
  BY DEF ResolveProbe
<1>2. SameInput /\ \A p : ProbeOk(p)' <=> ProbeOk(p)
  BY <1>1, InputStays
<1>3. PICK k : k = Len(filters) + 1
  OBVIOUS
<1>4. /\ OneAllowed /\ TaskOk /\ Len(config) = 1 /\ config \in Seq(TaskConfig)
      /\ asked = k /\ Len(filters) \in Nat /\ Len(Probes) \in Nat /\ error \in {"none", "task"}
      /\ k \in 1..Len(Probes) /\ IsSeq(filters) /\ Len(filters) <= Len(Probes)
  BY <1>1, <1>3, Probing
<1>5. Next1 = Probes[k]
  BY <1>3 DEF Next1
<1> HIDE DEF new
<1>6. /\ IsSeq(filters') /\ Len(filters') = k /\ filters'[k] = new
      /\ \A n \in 1..Len(filters) : filters'[n] = filters[n]
  <2>1. /\ IsSeq(Append(filters, new)) /\ Len(Append(filters, new)) = Len(filters) + 1
        /\ Append(filters, new)[Len(filters) + 1] = new
        /\ \A n \in 1..Len(filters) : Append(filters, new)[n] = filters[n]
    BY <1>4, AppendIsSeq
  <2> QED
    BY <1>1, <1>3, <2>1
<1>7. ASSUME NEW n \in 1..k
      PROVE  ProbeOk(Probes[n]) /\ filters'[n] = ResolveBinderTransactionFilters(Probes[n]).map
  <2>1. CASE n = k
    BY <1>1, <1>5, <1>6, <2>1 DEF new
  <2>2. CASE n # k
    <3>1. n \in 1..Len(filters)
      BY <1>3, <1>4, <2>2
    <3> QED
      BY <1>6, <3>1 DEF Inv, ProbesDone
  <2> QED
    BY <2>1, <2>2
<1>8. ProbesDone'
  <2>1. Probes' = Probes
    BY <1>2 DEF SameInput
  <2>2. (\A n \in 1..Len(filters) : ProbeOk(Probes[n]))'
    BY <1>1, <1>6, <1>7, <2>1, SMTT(40) DEF ProbeOk, IsBpfFileEnabled, input
  <2>3. (\A n \in 1..Len(filters) : filters[n] = ResolveBinderTransactionFilters(Probes[n]).map)'
    BY <1>6, <1>7, <2>1
  <2> QED
    BY <2>2, <2>3 DEF ProbesDone
<1>9. Progress'
  BY <1>1, <1>2, <1>4, <1>6 DEF Progress, SameInput
<1>10. Bounds'
  BY <1>1, <1>2, <1>3, <1>4, <1>6 DEF Bounds, SameInput
<1>11. config' = config /\ isUserBuild' = isUserBuild
  BY <1>2 DEF SameInput
<1> QED
  BY <1>1, <1>4, <1>6, <1>8, <1>9, <1>10, <1>11 DEF Inv

LEMMA ProbeEnds == Inv /\ (ResolveOffsetsFails \/ RejectProbe \/ Resolved) => Inv'
<1> SUFFICES ASSUME Inv, ResolveOffsetsFails \/ RejectProbe \/ Resolved PROVE Inv'
  OBVIOUS
<1>1. /\ pc = "probing" /\ UNCHANGED <<input, filters>> /\ error' \in {error, "task"}
      /\ pc' \in {"unavailable", "rejected", "resolved"}
  BY DEF ResolveOffsetsFails, RejectProbe, Resolved, Reject
<1>2. SameInput
  BY <1>1, InputStays
<1>3. /\ OneAllowed /\ TaskOk /\ Len(config) = 1 /\ config \in Seq(TaskConfig)
      /\ asked = Len(filters) + 1 /\ Len(filters) \in Nat /\ Len(Probes) \in Nat
      /\ Len(filters) <= Len(Probes) /\ error \in {"none", "task"}
      /\ (Left => Len(filters) + 1 \in 1..Len(Probes))
  BY <1>1, Probing
<1>4. CASE ResolveOffsetsFails
  <2>1. /\ pc' = "unavailable" /\ asked' = Len(filters) + 2 /\ error' = "task"
        /\ Len(filters) + 2 <= Len(Probes) + 1
    BY <1>3, <1>4 DEF ResolveOffsetsFails, Left
  <2>2. Progress'
    BY <1>1, <1>2, <1>3, <2>1 DEF Progress, SameInput
  <2>3. Bounds'
    BY <1>1, <1>2, <1>3, <2>1 DEF Bounds, SameInput
  <2> QED
    BY <1>1, <1>3, <2>1, <2>2, <2>3, StepInv
<1>5. CASE RejectProbe
  <2>1. pc' = "rejected" /\ asked' = asked /\ error' = "task" /\ Left /\ ~ProbeOk(Next1)
    BY <1>5 DEF RejectProbe, Reject
  <2>2. ~Acceptable
    <3>1. PICK k : k = Len(filters) + 1
      OBVIOUS
    <3>2. k \in 1..Len(Probes) /\ ~ProbeOk(Probes[k])
      BY <1>3, <2>1, <3>1 DEF Next1
    <3> QED
      BY <1>3, <3>2, AcceptableParts
  <2>3. Progress'
    BY <1>1, <1>2, <1>3, <2>1, <2>2 DEF Progress, SameInput
  <2>4. Bounds'
    BY <1>1, <1>2, <1>3, <2>1 DEF Bounds, SameInput
  <2> QED
    BY <1>1, <1>3, <2>1, <2>3, <2>4, StepInv
<1>6. CASE Resolved
  <2>1. pc' = "resolved" /\ asked' = asked /\ error' = error /\ Len(filters) = Len(Probes)
    BY <1>3, <1>6 DEF Resolved, Left
  <2>2. Progress'
    BY <1>1, <1>2, <1>3, <2>1 DEF Progress, SameInput
  <2>3. Bounds'
    BY <1>1, <1>2, <1>3, <2>1 DEF Bounds, SameInput
  <2> QED
    BY <1>1, <1>3, <2>1, <2>2, <2>3, StepInv
<1> QED
  BY <1>4, <1>5, <1>6

LEMMA StutterInv == Inv /\ UNCHANGED vars => Inv'
<1> SUFFICES ASSUME Inv, UNCHANGED vars PROVE Inv'
  OBVIOUS
<1>1. UNCHANGED <<input, pc, error, filters, asked>>
  BY DEF vars, input
<1>2. SameInput
  BY <1>1, InputStays
<1>3. ProbesDone' /\ IsSeq(filters)'
  BY <1>1, DoneStays
<1>4. Progress'
  BY <1>1, <1>2 DEF Inv, Progress, SameInput
<1>5. Bounds'
  BY <1>1, <1>2 DEF Inv, Bounds, SameInput
<1> QED
  BY <1>1, <1>2, <1>3, <1>4, <1>5 DEF Inv, SameInput

LEMMA Invariance == Spec => []Inv
<1>1. Inv /\ [Next]_vars => Inv'
  <2> SUFFICES ASSUME Inv, [Next]_vars PROVE Inv'
    OBVIOUS
  <2>1. CASE Ended \/ UNCHANGED vars
    BY <2>1, StutterInv DEF Ended
  <2> QED
    BY <2>1, RejectConfigInv, EarlySteps, ResolveProcessSteps, ResolveProbeInv, ProbeEnds DEF Next
<1> QED
  BY <1>1, InitInv, PTL DEF Spec

-----------------------------------------------------------------------------
(* The theorems. *)

(* resolve_config's variables have their types, and it asks the platform    *)
(* once for the process and at most once per probe, whatever the config.    *)
THEOREM TypeCorrect == Spec => []TypeOK
<1>1. Inv => TypeOK
  <2> SUFFICES ASSUME Inv PROVE TypeOK
    OBVIOUS
  <2>1. asked \in Nat
    BY DEF Inv, Bounds
  <2>2. CASE Len(config) = 1
    <3>1. Len(Probes) \in Nat /\ asked <= Len(Probes) + 1 /\ Len(filters) <= Len(Probes)
      BY <2>2, TaskTyped DEF Inv, Bounds
    <3>2. asked <= 1 + (IF Len(config) = 1 THEN Len(Probes) ELSE 0)
      BY <2>1, <2>2, <3>1
    <3> QED
      BY <3>1, <3>2 DEF Inv, TypeOK
  <2>3. CASE Len(config) # 1
    <3>1. asked = 0 /\ (pc = "parsed" \/ error = "other")
      BY <2>3 DEF Inv, Bounds
    <3>2. asked <= 1 + (IF Len(config) = 1 THEN Len(Probes) ELSE 0)
      BY <2>3, <3>1
    <3> QED
      BY <3>1, <3>2 DEF Inv, TypeOK
  <2> QED
    BY <2>2, <2>3
<1> QED
  BY <1>1, Invariance, PTL

(* The checks, made one after the other with platform calls in between,     *)
(* accept exactly the configs of the reference: a resolved config is        *)
(* acceptable, and none is rejected that is.                                *)
THEOREM AcceptsExactly == Spec => []ResolvedIffAcceptable
<1>1. Inv => ResolvedIffAcceptable
  <2> SUFFICES ASSUME Inv PROVE ResolvedIffAcceptable
    OBVIOUS
  <2>1. ASSUME pc = "resolved" PROVE Acceptable
    <3>1. OneAllowed /\ TaskOk /\ Len(filters) = Len(Probes)
      BY <2>1 DEF Inv, Progress
    <3>2. \A i \in 1..Len(Probes) : ProbeOk(Probes[i])
      BY <3>1 DEF Inv, ProbesDone
    <3> QED
      BY <3>1, <3>2, AcceptableParts DEF Inv, OneAllowed
  <2>2. ASSUME pc = "rejected" PROVE ~Acceptable
    BY <2>2 DEF Inv, Progress
  <2> QED
    BY <2>1, <2>2 DEF ResolvedIffAcceptable
<1> QED
  BY <1>1, Invariance, PTL

(* No binder method of a config is lost on its way into the map that is     *)
(* resolved for its probe: the nested inserts overwrite nothing.            *)
THEOREM NothingLost == Spec => []FiltersComplete
<1>1. Inv => FiltersComplete
  <2> SUFFICES ASSUME Inv PROVE FiltersComplete
    OBVIOUS
  <2>1. DOMAIN filters = 1..Len(filters)
    BY SeqFacts DEF Inv
  <2>2. ASSUME NEW n \in 1..Len(filters) PROVE Complete(Probes[n], filters[n])
    <3>1. filters # <<>> /\ Len(filters) \in Nat
      BY <2>2, SeqFacts DEF Inv
    <3>2. Len(config) = 1 /\ Len(filters) <= Len(Probes)
      BY <3>1 DEF Inv, Bounds
    <3>3. Len(Probes) \in Nat /\ \A i \in 1..Len(Probes) : Probes[i] \in ProbeConfig
      BY <3>2, TaskTyped DEF Inv
    <3>4. n \in 1..Len(Probes)
      BY <3>1, <3>2, <3>3
    <3>5. Probes[n] \in ProbeConfig
      BY <3>3, <3>4
    <3>6. ProbeOk(Probes[n]) /\ filters[n] = ResolveBinderTransactionFilters(Probes[n]).map
      BY DEF Inv, ProbesDone
    <3> QED
      BY <3>5, <3>6, ProbeComplete DEF ProbeOk
  <2> QED
    BY <2>1, <2>2 DEF FiltersComplete, Complete
<1> QED
  BY <1>1, Invariance, PTL

(* The platform, and with it the wait for a process, is not reached by a    *)
(* config that the guardrail, the flags of its maps or its duration rule    *)
(* out.                                                                     *)
THEOREM GuardedPlatform == Spec => []AskedOnlyIfAllowed
<1>1. Inv => AskedOnlyIfAllowed
  <2> SUFFICES ASSUME Inv, asked > 0 PROVE AskedOnlyIfAllowed
    BY DEF AskedOnlyIfAllowed
  <2>1. OneAllowed /\ TaskOk
    BY DEF Inv, Progress
  <2>2. Task.duration # Absent /\ Task.duration # 0
    BY <2>1 DEF TaskOk
  <2> QED
    BY <2>1, <2>2 DEF AskedOnlyIfAllowed, OneAllowed, TaskOk
<1> QED
  BY <1>1, Invariance, PTL

=============================================================================
