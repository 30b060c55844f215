----------------------------- MODULE DataLemmas -----------------------------
(***************************************************************************)
(* Facts that the proofs of several components use.  Numbers: sets of      *)
(* naturals have least and, if bounded, greatest elements, and a set that  *)
(* is closed under successor holds them all; this is induction in a form   *)
(* without an operator parameter.  Sequences of anything, sets listed as   *)
(* sequences, and what FoldLeft and FlattenSeq compute.                    *)
(***************************************************************************)
EXTENDS Integers, Sequences, SequencesExt, FiniteSetTheorems, SequenceTheorems,
        WellFoundedInduction, TLAPS

(* A set of naturals has a least element: < is well-founded. *)
LEMMA LeastNat ==
  ASSUME NEW S \in SUBSET Nat, S # {}
  PROVE  \E n \in S : \A m \in S : n <= m
<1> DEFINE R == {ab \in Nat \X Nat : ab[1] < ab[2]}
<1>1. R = OpToRel(<, Nat)
  BY DEF OpToRel
<1>2. IsWellFoundedOn(R, Nat)
  BY <1>1, NatLessThanWellFounded
<1>3. \E x \in S : \A y \in S : ~(<<y, x>> \in R)
  <2> HIDE DEF R
  <2> QED
    BY <1>2, WFMin
<1>4. PICK x \in S : \A y \in S : ~(<<y, x>> \in R)
  BY <1>3
<1>5. \A y \in S : x <= y
  <2> SUFFICES ASSUME NEW y \in S PROVE x <= y
    OBVIOUS
  <2>1. ~(<<y, x>> \in R)
    BY <1>4
  <2>2. x \in Nat /\ y \in Nat
    OBVIOUS
  <2> QED
    BY <2>1, <2>2
<1> QED
  BY <1>5

(* Induction over the naturals, for the set of those with the property. *)
LEMMA NatInd ==
  ASSUME NEW S, 0 \in S, \A n \in Nat : n \in S => n + 1 \in S
  PROVE  \A n \in Nat : n \in S
<1> DEFINE T == {n \in Nat : n \notin S}
<1> SUFFICES ASSUME T # {} PROVE FALSE
  OBVIOUS
<1>1. T \in SUBSET Nat
  OBVIOUS
<1> HIDE DEF T
<1>2. PICK n \in T : \A m \in T : n <= m
  BY <1>1, LeastNat
<1> USE DEF T
<1>3. n # 0 /\ n \in Nat
  BY <1>2
<1>4. n - 1 \in Nat /\ n - 1 \notin T
  BY <1>2, <1>3
<1> QED
  BY <1>3, <1>4, <1>2

(* Min of a set of naturals is its least element. *)
LEMMA MinIsLeast ==
  ASSUME NEW S \in SUBSET Nat, S # {}
  PROVE  Min(S) \in S /\ \A m \in S : Min(S) <= m
<1>1. PICK n \in S : \A m \in S : n <= m
  BY LeastNat
<1> QED
  BY <1>1 DEF Min

(* Max of a bounded set of naturals is its greatest element. *)
LEMMA MaxIsGreatest ==
  ASSUME NEW b \in Nat, NEW S \in SUBSET (0..b), S # {}
  PROVE  Max(S) \in S /\ \A m \in S : m <= Max(S)
<1> DEFINE T == {b - n : n \in S}
<1>1. T \in SUBSET Nat /\ T # {}
  <2>1. \A n \in S : b - n \in Nat
    OBVIOUS
  <2> QED
    BY <2>1
<1>2. \E d \in T : \A e \in T : d <= e
  <2> HIDE DEF T
  <2> QED
    BY <1>1, LeastNat
<1>3. PICK d \in T : \A e \in T : d <= e
  BY <1>2
<1>4. PICK n \in S : d = b - n
  BY <1>3
<1>5. \A m \in S : m <= n
  BY <1>3, <1>4
<1> QED
  BY <1>5 DEF Max

-----------------------------------------------------------------------------
(* Sequences of anything. *)

IsSeq(s) == \E S : s \in Seq(S)

LEMMA SeqFacts ==
  ASSUME NEW s, IsSeq(s)
  PROVE  /\ Len(s) \in Nat /\ DOMAIN s = 1..Len(s)
         /\ s = <<>> <=> Len(s) = 0
         /\ s # <<>> => Head(s) = s[1] /\ 1 \in 1..Len(s)
BY DEF IsSeq

LEMMA EmptyIsSeq == IsSeq(<<>>) /\ Len(<<>>) = 0
<1>1. <<>> \in Seq({})
  OBVIOUS
<1> QED
  BY <1>1 DEF IsSeq

LEMMA SingleIsSeq ==
  ASSUME NEW e
  PROVE  IsSeq(<<e>>) /\ Len(<<e>>) = 1 /\ <<e>>[1] = e
<1>1. <<e>> \in Seq({e})
  OBVIOUS
<1> QED
  BY <1>1 DEF IsSeq

LEMMA ConcatIsSeq ==
  ASSUME NEW s, NEW t, IsSeq(s), IsSeq(t)
  PROVE  /\ IsSeq(s \o t) /\ Len(s \o t) = Len(s) + Len(t)
         /\ \A i \in 1..(Len(s) + Len(t)) :
                (s \o t)[i] = IF i <= Len(s) THEN s[i] ELSE t[i - Len(s)]
<1>1. PICK S, T : s \in Seq(S) /\ t \in Seq(T)
  BY DEF IsSeq
<1>2. s \in Seq(S \cup T) /\ t \in Seq(S \cup T)
  BY <1>1, SeqMonotonic
<1> QED
  BY <1>2, ConcatProperties DEF IsSeq

LEMMA ConcatParts ==
  ASSUME NEW s, NEW t, IsSeq(s), IsSeq(t)
  PROVE  /\ \A i \in 1..Len(s) : i \in 1..Len(s \o t) /\ (s \o t)[i] = s[i]
         /\ \A j \in 1..Len(t) : Len(s) + j \in 1..Len(s \o t) /\ (s \o t)[Len(s) + j] = t[j]
         /\ \A i \in 1..Len(s \o t) : i \in 1..Len(s) \/ \E j \in 1..Len(t) : i = Len(s) + j
<1> DEFINE w == s \o t
<1>1. /\ Len(w) = Len(s) + Len(t)
      /\ \A i \in 1..(Len(s) + Len(t)) : w[i] = IF i <= Len(s) THEN s[i] ELSE t[i - Len(s)]
  BY ConcatIsSeq
<1>2. Len(s) \in Nat /\ Len(t) \in Nat
  BY SeqFacts
<1> HIDE DEF w
<1>3. ASSUME NEW i \in 1..Len(s) PROVE i \in 1..Len(w) /\ w[i] = s[i]
  BY <1>1, <1>2
<1>4. ASSUME NEW j \in 1..Len(t) PROVE Len(s) + j \in 1..Len(w) /\ w[Len(s) + j] = t[j]
  <2>1. PICK i : i = Len(s) + j
    OBVIOUS
  <2>2. i \in 1..(Len(s) + Len(t)) /\ ~(i <= Len(s)) /\ i - Len(s) = j
    BY <1>2, <2>1
  <2>3. w[i] = t[j]
    BY <1>1, <2>2
  <2> QED
    BY <1>1, <2>1, <2>2, <2>3
<1>5. ASSUME NEW i \in 1..Len(w), i \notin 1..Len(s) PROVE \E j \in 1..Len(t) : i = Len(s) + j
  <2>1. i - Len(s) \in 1..Len(t) /\ i = Len(s) + (i - Len(s))
    BY <1>1, <1>2, <1>5
  <2> QED
    BY <2>1
<1> QED
  BY <1>3, <1>4, <1>5 DEF w

LEMMA AppendIsSeq ==
  ASSUME NEW s, NEW e, IsSeq(s)
  PROVE  /\ IsSeq(Append(s, e)) /\ Len(Append(s, e)) = Len(s) + 1
         /\ \A i \in 1..Len(s) : Append(s, e)[i] = s[i]
         /\ Append(s, e)[Len(s) + 1] = e
<1>1. PICK S : s \in Seq(S)
  BY DEF IsSeq
<1>2. s \in Seq(S \cup {e})
  BY <1>1, SeqMonotonic
<1> QED
  BY <1>2, AppendProperties DEF IsSeq

LEMMA TailIsSeq ==
  ASSUME NEW s, IsSeq(s), s # <<>>
  PROVE  /\ IsSeq(Tail(s)) /\ Len(Tail(s)) = Len(s) - 1
         /\ \A i \in 1..(Len(s) - 1) : Tail(s)[i] = s[i + 1]
<1>1. PICK S : s \in Seq(S)
  BY DEF IsSeq
<1> QED
  BY <1>1, HeadTailProperties DEF IsSeq

LEMMA SubSeqIsSeq ==
  ASSUME NEW s, IsSeq(s), NEW m \in 1..(Len(s) + 1), NEW n \in 0..Len(s), m <= n + 1
  PROVE  /\ IsSeq(SubSeq(s, m, n)) /\ Len(SubSeq(s, m, n)) = n - m + 1
         /\ \A i \in 1..(n - m + 1) : SubSeq(s, m, n)[i] = s[m + i - 1]
<1>1. PICK S : s \in Seq(S)
  BY DEF IsSeq
<1>2. SubSeq(s, m, n) \in Seq(S)
  BY <1>1
<1>3. Len(SubSeq(s, m, n)) = n - m + 1 /\ \A i \in 1..(n - m + 1) : SubSeq(s, m, n)[i] = s[m + i - 1]
  BY <1>1
<1> QED
  BY <1>2, <1>3 DEF IsSeq

LEMMA FunctionIsSeq ==
  ASSUME NEW n \in Nat, NEW f, f = [i \in 1..n |-> f[i]]
  PROVE  IsSeq(f) /\ Len(f) = n
<1> DEFINE S == {f[i] : i \in 1..n}
<1>1. f \in [1..n -> S]
  OBVIOUS
<1>2. f \in Seq(S) /\ Len(f) = n
  <2> HIDE DEF S
  <2> QED
    BY <1>1
<1> QED
  BY <1>2 DEF IsSeq

LEMMA ExceptIsSeq ==
  ASSUME NEW s, IsSeq(s), NEW i \in 1..Len(s), NEW e, NEW t, t = [s EXCEPT ![i] = e]
  PROVE  /\ IsSeq(t) /\ Len(t) = Len(s)
         /\ \A j \in 1..Len(s) : t[j] = IF j = i THEN e ELSE s[j]
<1>1. PICK S : s \in Seq(S)
  BY DEF IsSeq
<1> DEFINE T == S \cup {e}
<1>2. s \in Seq(T) /\ e \in T
  BY <1>1, SeqMonotonic
<1> HIDE DEF T
<1>3. t \in Seq(T)
  BY <1>2
<1>4. Len(t) = Len(s)
  BY <1>2
<1>5. \A j \in 1..Len(s) : t[j] = IF j = i THEN e ELSE s[j]
  BY <1>2
<1> QED
  BY <1>3, <1>4, <1>5 DEF IsSeq

-----------------------------------------------------------------------------
(* Sets listed as sequences, folds and flattened sequences. *)

(* A sequence of length 1 has an element. *)
LEMMA SingleElement ==
  ASSUME NEW X, NEW o, o \in Seq(X), Len(o) = 1
  PROVE  o # <<>> /\ o[1] \in X
<1>1. \A i \in 1..Len(o) : o[i] \in X
  BY ElementOfSeq
<1>2. 1 \in 1..Len(o)
  BY SMT
<1>3. o[1] \in X
  BY <1>1, <1>2, Zenon
<1>4. IsSeq(o) /\ 1 # 0
  BY DEF IsSeq
<1>5. o # <<>>
  BY <1>4, SeqFacts, Zenon
<1> QED
  BY <1>3, <1>5

LEMMA SetToSeqLists ==
  ASSUME NEW S, IsFiniteSet(S)
  PROVE  /\ Cardinality(S) \in Nat
         /\ SetToSeq(S) \in [1..Cardinality(S) -> S]
         /\ IsInjective(SetToSeq(S))
         /\ IsSeq(SetToSeq(S)) /\ Len(SetToSeq(S)) = Cardinality(S)
<1>1. Cardinality(S) \in Nat /\ Bijection(1..Cardinality(S), S) # {}
  BY FS_CardinalityType DEF ExistsBijection
<1>2. \E f \in [1..Cardinality(S) -> S] : IsInjective(f)
  BY <1>1 DEF Bijection, Injection
<1>3. SetToSeq(S) \in [1..Cardinality(S) -> S] /\ IsInjective(SetToSeq(S))
  BY <1>2 DEF SetToSeq
<1>4. SetToSeq(S) \in Seq(S) /\ Len(SetToSeq(S)) = Cardinality(S)
  BY <1>1, <1>3
<1> QED
  BY <1>1, <1>3, <1>4 DEF IsSeq

(* The greatest number of 1..k is taken off first: what is left is the set  *)
(* of the numbers before it.                                                *)
LEMMA MaxOfInterval ==
  ASSUME NEW k \in Nat, NEW s \in SUBSET (1..k), k \in s
  PROVE  Max(s) = k /\ s \ {k} \in SUBSET (1..(k - 1))
<1>1. s \in SUBSET (0..k) /\ s # {}
  OBVIOUS
<1>2. Max(s) \in s /\ \A m \in s : m <= Max(s)
  BY <1>1, MaxIsGreatest
<1>3. Max(s) = k
  <2>1. Max(s) \in 1..k
    BY <1>2
  <2>2. k <= Max(s)
    BY <1>2
  <2> QED
    BY <2>1, <2>2
<1>4. \A m \in s \ {k} : m \in 1..(k - 1)
  OBVIOUS
<1> QED
  BY <1>3, <1>4

(* A fold is well defined on the subsets of 1..n: G[i] folds in number i.   *)
FoldsAlong(f, n, base, G) ==
    f = [s \in SUBSET (1..n) |-> IF s = {} THEN base ELSE G[Max(s)][f[s \ {Max(s)}]]]

CanFold(n, A, base, G) == \E f \in [SUBSET (1..n) -> A] : FoldsAlong(f, n, base, G)

LEMMA FoldExists ==
  ASSUME NEW n \in Nat, NEW A, NEW base \in A, NEW G \in [1..n -> [A -> A]]
  PROVE  CanFold(n, A, base, G)
<1> DEFINE S == {k \in Nat : k <= n => CanFold(k, A, base, G)}
<1>1. 0 \in S
  <2> DEFINE f == [s \in SUBSET (1..0) |-> base]
  <2>1. SUBSET (1..0) = {{}}
    OBVIOUS
  <2>2. f \in [SUBSET (1..0) -> A] /\ FoldsAlong(f, 0, base, G)
    BY <2>1 DEF FoldsAlong
  <2>3. CanFold(0, A, base, G)
    BY <2>2 DEF CanFold
  <2> QED
    BY <2>3
<1>2. ASSUME NEW k \in Nat, k \in S PROVE k + 1 \in S
  <2> SUFFICES ASSUME k + 1 <= n
               PROVE  CanFold(k + 1, A, base, G)
    OBVIOUS
  <2>1. PICK g \in [SUBSET (1..k) -> A] : FoldsAlong(g, k, base, G)
    <3>1. k <= n
      OBVIOUS
    <3>2. CanFold(k, A, base, G)
      BY <1>2, <3>1
    <3> QED
      BY <3>2 DEF CanFold
  <2>2. ASSUME NEW s \in SUBSET (1..(k + 1)), k + 1 \notin s PROVE s \in SUBSET (1..k)
    BY <2>2
  <2>3. ASSUME NEW s \in SUBSET (1..(k + 1)), k + 1 \in s
        PROVE  Max(s) = k + 1 /\ s \ {k + 1} \in SUBSET (1..k) /\ s \ {k + 1} \in SUBSET (1..(k + 1))
    <3>1. k + 1 \in Nat /\ (k + 1) - 1 = k
      OBVIOUS
    <3>2. Max(s) = k + 1 /\ s \ {k + 1} \in SUBSET (1..((k + 1) - 1))
      BY <2>3, <3>1, MaxOfInterval
    <3> QED
      BY <3>1, <3>2
  <2> DEFINE f == [s \in SUBSET (1..(k + 1)) |->
                       IF k + 1 \in s THEN G[k + 1][g[s \ {k + 1}]] ELSE g[s]]
  <2>4. G[k + 1] \in [A -> A]
    OBVIOUS
  <2>5. f \in [SUBSET (1..(k + 1)) -> A]
    <3>1. ASSUME NEW s \in SUBSET (1..(k + 1)) PROVE f[s] \in A
      <4>1. CASE k + 1 \in s
        BY <2>3, <2>4, <4>1
      <4>2. CASE k + 1 \notin s
        BY <2>2, <4>2
      <4> QED
        BY <4>1, <4>2
    <3> QED
      BY <3>1
  <2>6. ASSUME NEW s \in SUBSET (1..(k + 1))
        PROVE  f[s] = IF s = {} THEN base ELSE G[Max(s)][f[s \ {Max(s)}]]
    <3>1. CASE k + 1 \in s
      <4>1. f[s] = G[k + 1][g[s \ {k + 1}]] /\ s # {}
        BY <3>1
      <4>2. Max(s) = k + 1 /\ s \ {k + 1} \in SUBSET (1..(k + 1)) /\ k + 1 \notin s \ {k + 1}
        BY <2>3, <3>1
      <4>3. f[s \ {k + 1}] = g[s \ {k + 1}]
        BY <4>2
      <4> QED
        BY <4>1, <4>2, <4>3
    <3>2. CASE k + 1 \notin s
      <4>1. s \in SUBSET (1..k) /\ f[s] = g[s]
        BY <2>2, <3>2
      <4>2. g[s] = IF s = {} THEN base ELSE G[Max(s)][g[s \ {Max(s)}]]
        BY <2>1, <4>1 DEF FoldsAlong
      <4>3. ASSUME s # {} PROVE f[s \ {Max(s)}] = g[s \ {Max(s)}]
        <5>1. k + 1 \notin s \ {Max(s)} /\ s \ {Max(s)} \in SUBSET (1..(k + 1))
          BY <3>2
        <5> QED
          BY <5>1
      <4> QED
        BY <4>1, <4>2, <4>3
    <3> QED
      BY <3>1, <3>2
  <2>7. FoldsAlong(f, k + 1, base, G)
    <3> DEFINE F == [s \in SUBSET (1..(k + 1)) |->
                         IF s = {} THEN base ELSE G[Max(s)][f[s \ {Max(s)}]]]
    <3>1. \A s \in SUBSET (1..(k + 1)) : f[s] = F[s]
      <4> HIDE DEF f
      <4> QED
        BY <2>6
    <3>2. f = F
      <4>1. f = [s \in SUBSET (1..(k + 1)) |-> f[s]] /\ F = [s \in SUBSET (1..(k + 1)) |-> F[s]]
        OBVIOUS
      <4> HIDE DEF f, F
      <4> QED
        BY <3>1, <4>1
    <3> QED
      BY <3>2 DEF FoldsAlong
  <2> QED
    <3> HIDE DEF f
    <3> QED
      BY <2>5, <2>7 DEF CanFold
<1>3. \A k \in Nat : k \in S
  <2> HIDE DEF S
  <2> QED
    BY <1>1, <1>2, NatInd
<1> QED
  BY <1>3

(* The values on the intervals 1..k are those of a loop. *)
LEMMA FoldStep ==
  ASSUME NEW k \in Nat, k > 0
  PROVE  Max(1..k) = k /\ (1..k) \ {k} = 1..(k - 1) /\ 1..k # {}
<1>1. 1..k \in SUBSET (1..k) /\ k \in 1..k
  OBVIOUS
<1> QED
  BY <1>1, MaxOfInterval

(* Flattening goes part by part. *)
FlattensTo(f, n, seqs) ==
    f = [i \in 1..n |-> IF i = 1 THEN seqs[i] ELSE f[i - 1] \o seqs[i]]
CanFlatten(n, X, seqs) == \E f \in [1..n -> Seq(X)] : FlattensTo(f, n, seqs)

LEMMA FlattenExists ==
  ASSUME NEW X, NEW seqs, NEW n \in Nat, \A i \in 1..n : seqs[i] \in Seq(X)
  PROVE  CanFlatten(n, X, seqs)
<1> DEFINE S == {k \in Nat : k <= n => CanFlatten(k, X, seqs)}
<1>1. 0 \in S
  <2> DEFINE f == [i \in 1..0 |-> <<>>]
  <2>1. 1..0 = {}
    OBVIOUS
  <2>2. f \in [1..0 -> Seq(X)] /\ FlattensTo(f, 0, seqs)
    BY <2>1 DEF FlattensTo
  <2>3. CanFlatten(0, X, seqs)
    BY <2>2 DEF CanFlatten
  <2> QED
    BY <2>3
<1>2. ASSUME NEW k \in Nat, k \in S PROVE k + 1 \in S
  <2> SUFFICES ASSUME k + 1 <= n PROVE CanFlatten(k + 1, X, seqs)
    OBVIOUS
  <2>1. PICK g \in [1..k -> Seq(X)] : FlattensTo(g, k, seqs)
    <3>1. k <= n
      OBVIOUS
    <3>2. CanFlatten(k, X, seqs)
      BY <1>2, <3>1
    <3> QED
      BY <3>2 DEF CanFlatten
  <2> DEFINE last == IF k + 1 = 1 THEN seqs[k + 1] ELSE g[k] \o seqs[k + 1]
             f == [i \in 1..(k + 1) |-> IF i = k + 1 THEN last ELSE g[i]]
  <2>2. last \in Seq(X)
    <3>1. k + 1 \in 1..n /\ (k + 1 # 1 => k \in 1..k)
      OBVIOUS
    <3>2. seqs[k + 1] \in Seq(X) /\ (k + 1 # 1 => g[k] \in Seq(X))
      BY <3>1
    <3> QED
      BY <3>2
  <2> HIDE DEF last
  <2>3. ASSUME NEW i \in 1..(k + 1) PROVE i = k + 1 \/ i \in 1..k
    OBVIOUS
  <2>4. f \in [1..(k + 1) -> Seq(X)]
    BY <2>2, <2>3
  <2>5. ASSUME NEW i \in 1..(k + 1)
        PROVE  f[i] = IF i = 1 THEN seqs[i] ELSE f[i - 1] \o seqs[i]
    <3>1. CASE i = k + 1
      <4>1. f[i] = last
        BY <3>1
      <4>2. ASSUME i # 1 PROVE f[i - 1] = g[k]
        BY <3>1, <4>2
      <4> QED
        BY <3>1, <4>1, <4>2 DEF last
    <3>2. CASE i # k + 1
      <4>1. i \in 1..k /\ f[i] = g[i]
        BY <2>3, <3>2
      <4>2. ASSUME i # 1 PROVE f[i - 1] = g[i - 1]
        BY <4>1, <4>2
      <4>3. g[i] = IF i = 1 THEN seqs[i] ELSE g[i - 1] \o seqs[i]
        BY <2>1, <4>1 DEF FlattensTo
      <4> QED
        BY <4>1, <4>2, <4>3
    <3> QED
      BY <3>1, <3>2
  <2>6. FlattensTo(f, k + 1, seqs)
    <3>1. f = [i \in 1..(k + 1) |-> f[i]]
      OBVIOUS
    <3> HIDE DEF f
    <3> QED
      BY <2>5, <3>1 DEF FlattensTo
  <2> QED
    <3> HIDE DEF f
    <3> QED
      BY <2>4, <2>6 DEF CanFlatten
<1>3. \A k \in Nat : k \in S
  <2> HIDE DEF S
  <2> QED
    BY <1>1, <1>2, NatInd
<1> QED
  BY <1>3

(* The values on the way, from the empty sequence on. *)
LEMMA FlattenPrefixes ==
  ASSUME NEW X, NEW seqs, IsSeq(seqs), \A i \in 1..Len(seqs) : seqs[i] \in Seq(X)
  PROVE  \E P \in [0..Len(seqs) -> Seq(X)] :
            /\ P[0] = <<>>
            /\ \A k \in 1..Len(seqs) : P[k] = P[k - 1] \o seqs[k]
            /\ FlattenSeq(seqs) = P[Len(seqs)]
<1> DEFINE n == Len(seqs)
<1>1. n \in Nat /\ (seqs = <<>> <=> n = 0)
  BY SeqFacts
<1>2. CASE n = 0
  <2> DEFINE P == [k \in 0..n |-> <<>>]
  <2>1. P \in [0..n -> Seq(X)] /\ P[0] = <<>> /\ P[n] = <<>> /\ 1..n = {}
    BY <1>2
  <2>2. FlattenSeq(seqs) = <<>>
    BY <1>1, <1>2 DEF FlattenSeq
  <2> QED
    <3> HIDE DEF P
    <3> QED
      BY <2>1, <2>2
<1>3. CASE n # 0
  <2> DEFINE fs == CHOOSE f : f = [i \in 1..n |-> IF i = 1 THEN seqs[i] ELSE f[i - 1] \o seqs[i]]
  <2>1. FlattenSeq(seqs) = fs[n]
    BY <1>3 DEF FlattenSeq
  <2>2. CanFlatten(n, X, seqs)
    BY <1>1, FlattenExists
  <2>3. fs = [i \in 1..n |-> IF i = 1 THEN seqs[i] ELSE fs[i - 1] \o seqs[i]]
    BY <2>2 DEF CanFlatten, FlattensTo
  <2> HIDE DEF fs
  <2>4. /\ \A i \in 1..n : fs[i] = IF i = 1 THEN seqs[i] ELSE fs[i - 1] \o seqs[i]
        /\ DOMAIN fs = 1..n
    BY <2>3
  <2> HIDE DEF n
  <2>9. 1 \in 1..n /\ fs[1] = seqs[1]
    <3>1. 1 \in 1..n
      BY <1>1, <1>3
    <3> QED
      BY <2>4, <3>1
  <2>10. ASSUME NEW i \in 1..n, i # 1 PROVE fs[i] = fs[i - 1] \o seqs[i]
    BY <2>4, <2>10
  <2>11. \A i \in 1..n : seqs[i] \in Seq(X)
    BY DEF n
  <2>5. \A i \in 1..n : fs[i] \in Seq(X)
    <3> DEFINE S == {k \in Nat : k + 1 <= n => fs[k + 1] \in Seq(X)}
    <3>1. 0 \in S
      BY <2>9, <2>11
    <3>2. ASSUME NEW k \in Nat, k \in S PROVE k + 1 \in S
      <4> SUFFICES ASSUME k + 1 + 1 <= n PROVE fs[k + 1 + 1] \in Seq(X)
        OBVIOUS
      <4>1. PICK i : i = k + 1 + 1
        OBVIOUS
      <4>2. i \in 1..n /\ i # 1 /\ i - 1 = k + 1 /\ k + 1 <= n
        BY <1>1, <4>1
      <4>3. fs[i - 1] \in Seq(X) /\ seqs[i] \in Seq(X) /\ fs[i] = fs[i - 1] \o seqs[i]
        BY <2>10, <2>11, <3>2, <4>2
      <4>4. fs[i] \in Seq(X)
        BY <4>3
      <4> QED
        BY <4>1, <4>4
    <3>3. \A k \in Nat : k \in S
      <4> HIDE DEF S
      <4> QED
        BY <3>1, <3>2, NatInd
    <3>4. ASSUME NEW i \in 1..n PROVE fs[i] \in Seq(X)
      <4>1. i - 1 \in Nat /\ (i - 1) + 1 = i /\ i <= n
        BY <1>1
      <4>2. i - 1 \in S
        BY <3>3, <4>1
      <4> QED
        BY <4>1, <4>2
    <3> QED
      BY <3>4
  <2> DEFINE P == [k \in 0..n |-> IF k = 0 THEN <<>> ELSE fs[k]]
  <2>6. P \in [0..n -> Seq(X)]
    BY <1>1, <2>5
  <2>7. P[0] = <<>> /\ P[n] = fs[n]
    BY <1>1, <1>3
  <2>8. ASSUME NEW k \in 1..n PROVE P[k] = P[k - 1] \o seqs[k]
    <3>1. P[k] = fs[k] /\ seqs[k] \in Seq(X)
      BY <1>1, <2>11
    <3>2. CASE k = 1
      <4>1. P[k - 1] = <<>> /\ fs[k] = seqs[k]
        BY <1>1, <2>9, <3>2
      <4>2. <<>> \o seqs[k] = seqs[k]
        BY <3>1
      <4> QED
        BY <3>1, <4>1, <4>2
    <3>3. CASE k # 1
      <4>1. P[k - 1] = fs[k - 1]
        BY <1>1, <3>3
      <4> QED
        BY <2>10, <3>1, <3>3, <4>1
    <3> QED
      BY <3>2, <3>3
  <2> HIDE DEF P
  <2> QED
    BY <2>1, <2>6, <2>7, <2>8 DEF n
<1> QED
  BY <1>2, <1>3

(* Every element of the whole comes from one place of one of the first k    *)
(* parts, a place of its own, and every place of these parts is used.       *)
ComesFrom(part, place, whole, k, seqs) ==
    /\ \A j \in 1..Len(whole) : /\ part[j] \in 1..k /\ place[j] \in 1..Len(seqs[part[j]])
                                /\ whole[j] = seqs[part[j]][place[j]]
    /\ \A i, j \in 1..Len(whole) : part[i] = part[j] /\ place[i] = place[j] => i = j
    /\ \A i \in 1..k : \A m \in 1..Len(seqs[i]) :
           \E j \in 1..Len(whole) : part[j] = i /\ place[j] = m

MadeOf(whole, k, seqs) == \E part, place : ComesFrom(part, place, whole, k, seqs)

LEMMA FlattenMadeOf ==
  ASSUME NEW X, NEW seqs, IsSeq(seqs), \A i \in 1..Len(seqs) : seqs[i] \in Seq(X)
  PROVE  FlattenSeq(seqs) \in Seq(X) /\ MadeOf(FlattenSeq(seqs), Len(seqs), seqs)
<1> DEFINE n == Len(seqs)
<1>1. n \in Nat
  BY SeqFacts
<1>2. PICK P \in [0..n -> Seq(X)] : /\ P[0] = <<>>
                                    /\ \A k \in 1..n : P[k] = P[k - 1] \o seqs[k]
                                    /\ FlattenSeq(seqs) = P[n]
  BY FlattenPrefixes
<1> HIDE DEF n
<1> DEFINE S == {k \in Nat : k <= n => MadeOf(P[k], k, seqs)}
<1>3. 0 \in S
  <2>1. 1..Len(P[0]) = {} /\ 1..0 = {}
    BY <1>2, EmptyIsSeq
  <2>2. ComesFrom(<<>>, <<>>, P[0], 0, seqs)
    BY <2>1 DEF ComesFrom
  <2> QED
    BY <2>2 DEF MadeOf
<1>4. ASSUME NEW k \in Nat, k \in S PROVE k + 1 \in S
  <2> SUFFICES ASSUME k + 1 <= n PROVE MadeOf(P[k + 1], k + 1, seqs)
    OBVIOUS
  <2> DEFINE A == P[k]
             B == seqs[k + 1]
             W == P[k + 1]
  <2>1. A \in Seq(X) /\ B \in Seq(X) /\ W = A \o B
    <3>1. PICK i : i = k + 1
      OBVIOUS
    <3>2. k \in 0..n /\ i \in 1..n /\ i - 1 = k
      BY <1>1, <3>1
    <3>3. seqs[i] \in Seq(X)
      BY <3>2 DEF n
    <3>4. P[i] = P[i - 1] \o seqs[i]
      BY <1>2, <3>2
    <3> QED
      BY <3>1, <3>2, <3>3, <3>4
  <2>2. PICK part, place : ComesFrom(part, place, A, k, seqs)
    <3>1. k <= n
      BY <1>1
    <3> QED
      BY <1>4, <3>1 DEF MadeOf
  <2> HIDE DEF A, B, W
  <2>3. Len(A) \in Nat /\ Len(B) \in Nat /\ IsSeq(A) /\ IsSeq(B)
    BY <2>1 DEF IsSeq
  <2>4. /\ Len(W) = Len(A) + Len(B)
        /\ \A j \in 1..(Len(A) + Len(B)) : W[j] = IF j <= Len(A) THEN A[j] ELSE B[j - Len(A)]
    BY <2>1, <2>3, ConcatIsSeq
  <2> DEFINE part2 == [j \in 1..Len(W) |-> IF j <= Len(A) THEN part[j] ELSE k + 1]
             place2 == [j \in 1..Len(W) |-> IF j <= Len(A) THEN place[j] ELSE j - Len(A)]
  <2>5. ASSUME NEW j \in 1..Len(W), j <= Len(A)
        PROVE  /\ j \in 1..Len(A) /\ part2[j] = part[j] /\ place2[j] = place[j] /\ W[j] = A[j]
               /\ part[j] \in 1..k /\ place[j] \in 1..Len(seqs[part[j]])
               /\ A[j] = seqs[part[j]][place[j]]
    <3>1. j \in 1..Len(A) /\ part2[j] = part[j] /\ place2[j] = place[j] /\ W[j] = A[j]
      BY <2>3, <2>4, <2>5
    <3> QED
      BY <2>2, <3>1 DEF ComesFrom
  <2>6. ASSUME NEW j \in 1..Len(W), ~(j <= Len(A))
        PROVE  /\ part2[j] = k + 1 /\ place2[j] = j - Len(A) /\ W[j] = B[j - Len(A)]
               /\ j - Len(A) \in 1..Len(B)
    BY <2>3, <2>4, <2>6
  <2> HIDE DEF part2, place2
  <2>7. ASSUME NEW j \in 1..Len(W)
        PROVE  /\ part2[j] \in 1..(k + 1) /\ place2[j] \in 1..Len(seqs[part2[j]])
               /\ W[j] = seqs[part2[j]][place2[j]]
    <3>1. CASE j <= Len(A)
      BY <2>5, <3>1, SMTT(40)
    <3>2. CASE ~(j <= Len(A))
      BY <2>6, <3>2 DEF B
    <3> QED
      BY <3>1, <3>2
  <2>8. ASSUME NEW i \in 1..Len(W), NEW j \in 1..Len(W),
               part2[i] = part2[j], place2[i] = place2[j]
        PROVE  i = j
    <3>1. CASE i <= Len(A) /\ j <= Len(A)
      <4>1. i \in 1..Len(A) /\ j \in 1..Len(A) /\ part[i] = part[j] /\ place[i] = place[j]
        BY <2>5, <2>8, <3>1
      <4> QED
        BY <2>2, <4>1 DEF ComesFrom
    <3>2. CASE ~(i <= Len(A)) /\ ~(j <= Len(A))
      <4>1. i - Len(A) = j - Len(A)
        BY <2>6, <2>8, <3>2
      <4> QED
        BY <2>3, <2>4, <4>1
    <3>3. ASSUME NEW a \in 1..Len(W), NEW b \in 1..Len(W), a <= Len(A), ~(b <= Len(A))
          PROVE  part2[a] # part2[b]
      <4>1. part2[a] \in 1..k /\ part2[b] = k + 1
        BY <2>5, <2>6, <3>3
      <4> QED
        BY <4>1
    <3> QED
      BY <2>8, <3>1, <3>2, <3>3
  <2>9. ASSUME NEW i \in 1..(k + 1), NEW m \in 1..Len(seqs[i])
        PROVE  \E j \in 1..Len(W) : part2[j] = i /\ place2[j] = m
    <3>1. CASE i \in 1..k
      <4>1. PICK j \in 1..Len(A) : part[j] = i /\ place[j] = m
        BY <2>2, <3>1 DEF ComesFrom
      <4>2. j \in 1..Len(W) /\ j <= Len(A)
        BY <2>3, <2>4
      <4> QED
        BY <2>5, <4>1, <4>2
    <3>2. CASE i = k + 1
      <4>1. m \in 1..Len(B)
        BY <3>2 DEF B
      <4>2. Len(A) + m \in 1..Len(W) /\ ~(Len(A) + m <= Len(A)) /\ (Len(A) + m) - Len(A) = m
        BY <2>3, <2>4, <4>1
      <4> QED
        BY <2>6, <3>2, <4>2
    <3> QED
      BY <3>1, <3>2
  <2>10. ComesFrom(part2, place2, W, k + 1, seqs)
    BY <2>7, <2>8, <2>9 DEF ComesFrom
  <2> QED
    BY <2>10 DEF MadeOf, W
<1>5. \A k \in Nat : k \in S
  <2> HIDE DEF S
  <2> QED
    BY <1>3, <1>4, NatInd
<1>6. MadeOf(P[n], n, seqs)
  BY <1>1, <1>5
<1>7. P[n] \in Seq(X)
  BY <1>1, <1>2
<1> QED
  BY <1>2, <1>6, <1>7 DEF n

=============================================================================
