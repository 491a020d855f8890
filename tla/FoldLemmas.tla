---------------------------- MODULE FoldLemmas -----------------------------
(***************************************************************************)
(* What the proofs need of the folds of the community modules: that the    *)
(* recursive functions they choose exist, and what they are for one        *)
(* element more.  The arguments go by the least counterexample, for which  *)
(* it is enough that the order of the numbers is well-founded.             *)
(***************************************************************************)
EXTENDS Integers, Sequences, FiniteSetTheorems, SequenceTheorems, WellFoundedInduction, TLAPS

Seqs == INSTANCE SequencesExt

-----------------------------------------------------------------------------
(* Least numbers and smallest sets *)

Less == {p \in Nat \X Nat : p[1] < p[2]}

\* Every set of natural numbers has a least one.
LEMMA LeastOne ==
    ASSUME NEW T \in SUBSET Nat, T # {}
    PROVE  \E n \in T : \A m \in T : n <= m
<1>1. Less = OpToRel(<, Nat)
  BY DEF Less, OpToRel
<1>2. IsWellFoundedOn(OpToRel(<, Nat), Nat)
  BY NatLessThanWellFounded
<1>3. IsWellFoundedOn(Less, Nat)
  BY <1>1, <1>2
<1>4. PICK n \in T : \A m \in T : <<m, n>> \notin Less
  BY <1>3, WFMin
<1>5. ASSUME NEW m \in T, m < n PROVE FALSE
  BY <1>4, <1>5 DEF Less
<1>. QED BY <1>5

\* Of subsets of a finite set, one is of the least size.
LEMMA SmallestSet ==
    ASSUME NEW S, IsFiniteSet(S), NEW B \in SUBSET (SUBSET S), B # {}
    PROVE  \E s \in B : \A t \in B : Cardinality(s) <= Cardinality(t)
<1> DEFINE sizes == {Cardinality(s) : s \in B}
<1>1. \A s \in B : Cardinality(s) \in Nat
  BY FS_Subset, FS_CardinalityType
<1>2. sizes \in SUBSET Nat /\ sizes # {}
  BY <1>1
<1>3. PICK n \in sizes : \A m \in sizes : n <= m
  BY <1>2, LeastOne
<1>4. PICK s \in B : n = Cardinality(s)
  BY <1>3
<1>5. \A t \in B : Cardinality(t) \in sizes
  OBVIOUS
<1> HIDE DEF sizes
<1>. QED BY <1>3, <1>4, <1>5

LEMMA OneFewer ==
    ASSUME NEW s, IsFiniteSet(s), NEW x \in s
    PROVE  IsFiniteSet(s \ {x}) /\ Cardinality(s \ {x}) < Cardinality(s)
           /\ Cardinality(s) \in Nat /\ Cardinality(s \ {x}) \in Nat
  BY FS_RemoveElement, FS_CardinalityType

-----------------------------------------------------------------------------
(* Folds over a set *)

\* h is what a fold over the subsets of S computes: g of what is picked from a
\* set and of the rest, and base for the empty set.
Folded(h, S, pick, g, base) ==
    \A s \in SUBSET S : h[s] = IF s = {} THEN base ELSE g[pick[s]][h[s \ {pick[s]}]]

\* There is such a function.
LEMMA FoldExists ==
    ASSUME NEW S, IsFiniteSet(S), NEW V, NEW base \in V,
           NEW pick, \A s \in SUBSET S : s # {} => pick[s] \in s,
           NEW g \in [S -> [V -> V]]
    PROVE  \E h \in [SUBSET S -> V] : Folded(h, S, pick, g, base)
<1> DEFINE Fits(h, s) == h[s] = IF s = {} THEN base ELSE g[pick[s]][h[s \ {pick[s]}]]
           Bad(h) == {s \in SUBSET S : ~Fits(h, s)}
           Up(n) == \E h \in [SUBSET S -> V] : \A s \in SUBSET S : Cardinality(s) < n => Fits(h, s)
           never == {n \in Nat : ~Up(n)}
<1>1. Cardinality(S) \in Nat /\ \A s \in SUBSET S : /\ IsFiniteSet(s) /\ Cardinality(s) \in Nat
                                                  /\ Cardinality(s) < Cardinality(S) + 1
  <2>1. \A s \in SUBSET S : IsFiniteSet(s) /\ Cardinality(s) \in Nat /\ Cardinality(s) <= Cardinality(S)
    BY FS_Subset, FS_CardinalityType
  <2>. QED BY <2>1, FS_CardinalityType
<1>2. CASE never = {}
  <2>1. Up(Cardinality(S) + 1)
    <3>1. Cardinality(S) + 1 \in Nat
      BY <1>1
    <3> HIDE DEF Up
    <3>. QED BY <1>2, <3>1
  <2>. QED BY <1>1, <2>1 DEF Folded
<1>3. CASE never # {}
  <2>1. PICK n \in never : \A m \in never : n <= m
    BY <1>3, LeastOne
  <2>2. n \in Nat /\ ~Up(n)
    BY <2>1
  <2>3. n # 0
    <3>1. [s \in SUBSET S |-> base] \in [SUBSET S -> V]
      OBVIOUS
    <3>2. \A s \in SUBSET S : ~(Cardinality(s) < 0)
      BY <1>1
    <3>3. Up(0)
      BY <3>1, <3>2
    <3> HIDE DEF Up
    <3>. QED BY <2>2, <3>3
  <2>4. n - 1 \in Nat /\ n - 1 \notin never
    <3> HIDE DEF never, Up
    <3>. QED BY <2>1, <2>2, <2>3
  <2>5. PICK h \in [SUBSET S -> V] : \A s \in SUBSET S : Cardinality(s) < n - 1 => Fits(h, s)
    BY <2>4
  <2> DEFINE next == [s \in SUBSET S |-> IF s = {} THEN base ELSE g[pick[s]][h[s \ {pick[s]}]]]
  <2>6. next \in [SUBSET S -> V]
    <3>1. ASSUME NEW s \in SUBSET S, s # {} PROVE g[pick[s]][h[s \ {pick[s]}]] \in V
      <4>1. pick[s] \in S /\ s \ {pick[s]} \in SUBSET S
        BY <3>1
      <4>. QED BY <4>1
    <3>. QED BY <3>1
  <2>7. ASSUME NEW s \in SUBSET S, Cardinality(s) < n PROVE Fits(next, s)
    <3>1. CASE s = {}
      BY <3>1
    <3>2. CASE s # {}
      <4> DEFINE t == s \ {pick[s]}
      <4>1. t \in SUBSET S /\ Cardinality(t) < n - 1
        BY <1>1, <2>2, <2>7, <3>2, OneFewer
      <4>2. h[t] = IF t = {} THEN base ELSE g[pick[t]][h[t \ {pick[t]}]]
        BY <2>5, <4>1
      <4>3. next[t] = h[t]
        BY <4>1, <4>2
      <4>. QED BY <3>2, <4>3
    <3>. QED BY <3>1, <3>2
  <2>8. Up(n)
    BY <2>6, <2>7
  <2>. QED BY <2>2, <2>8
<1>. QED BY <1>2, <1>3

-----------------------------------------------------------------------------
(* Folds over a sequence, from the left *)

\* h is what FoldLeft computes for the positions of a sequence of length n.
FoldsFrom(h, n, g, base) ==
    h = [s \in SUBSET (1 .. n) |->
            IF s = {} THEN base ELSE g[Seqs!Max(s)][h[s \ {Seqs!Max(s)}]]]

LEMMA LastPosition ==
    ASSUME NEW n \in Nat, NEW s \in SUBSET (1 .. n), s # {}
    PROVE  Seqs!Max(s) \in s /\ \A i \in s : i <= Seqs!Max(s)
<1> DEFINE T == {n - i : i \in s}
<1>1. T \in SUBSET Nat /\ T # {}
  <2>1. \A i \in s : n - i \in Nat
    OBVIOUS
  <2>. QED BY <2>1
<1>2. PICK m \in T : \A j \in T : m <= j
  BY <1>1, LeastOne
<1>3. PICK i \in s : m = n - i
  BY <1>2
<1>4. ASSUME NEW j \in s PROVE i >= j
  <2>1. n - i <= n - j
    BY <1>2, <1>3, <1>4
  <2>. QED BY <1>3, <2>1
<1>5. Seqs!Max(s) \in s /\ \A j \in s : Seqs!Max(s) >= j
  BY <1>3, <1>4 DEF Seqs!Max
<1>. QED BY <1>5

LEMMA LastOfRange == ASSUME NEW j \in Nat, j # 0 PROVE Seqs!Max(1 .. j) = j
<1>1. 1 .. j \in SUBSET (1 .. j) /\ 1 .. j # {} /\ j \in 1 .. j
  OBVIOUS
<1>2. Seqs!Max(1 .. j) \in 1 .. j /\ \A i \in 1 .. j : i <= Seqs!Max(1 .. j)
  BY <1>1, LastPosition
<1>. QED BY <1>1, <1>2

LEMMA LeftFoldExists ==
    ASSUME NEW n \in Nat, NEW V, NEW base \in V, NEW g \in [1 .. n -> [V -> V]]
    PROVE  \E h \in [SUBSET (1 .. n) -> V] : FoldsFrom(h, n, g, base)
<1> DEFINE S == 1 .. n
           pick == [s \in SUBSET S |-> Seqs!Max(s)]
<1>1. IsFiniteSet(S)
  BY FS_Interval
<1>2. \A s \in SUBSET S : pick[s] = Seqs!Max(s) /\ (s # {} => pick[s] \in s)
  BY LastPosition
<1>3. g \in [S -> [V -> V]] /\ base \in V
  OBVIOUS
<1>4. \E h \in [SUBSET S -> V] : Folded(h, S, pick, g, base)
  <2> HIDE DEF pick, S
  <2>. QED BY <1>1, <1>2, <1>3, FoldExists
<1>5. PICK h \in [SUBSET S -> V] : Folded(h, S, pick, g, base)
  BY <1>4
<1>6. \A s \in SUBSET S : h[s] = IF s = {} THEN base ELSE g[Seqs!Max(s)][h[s \ {Seqs!Max(s)}]]
  <2> HIDE DEF pick, S
  <2>. QED BY <1>2, <1>5 DEF Folded
<1>. QED BY <1>5, <1>6 DEF FoldsFrom

\* What a fold is for one position more.
LEMMA LeftFoldStep ==
    ASSUME NEW n \in Nat, NEW g, NEW base, NEW h, FoldsFrom(h, n, g, base)
    PROVE  /\ h[1 .. 0] = base
           /\ \A j \in 1 .. n : h[1 .. j] = g[j][h[1 .. j - 1]]
<1>1. h[1 .. 0] = base
  <2>1. 1 .. 0 = {} /\ 1 .. 0 \in SUBSET (1 .. n)
    OBVIOUS
  <2>. QED BY <2>1 DEF FoldsFrom
<1>2. ASSUME NEW j \in 1 .. n PROVE h[1 .. j] = g[j][h[1 .. j - 1]]
  <2>1. j \in Nat /\ j # 0 /\ 1 .. j # {} /\ 1 .. j \in SUBSET (1 .. n)
        /\ (1 .. j) \ {j} = 1 .. j - 1
    OBVIOUS
  <2>2. Seqs!Max(1 .. j) = j
    BY <2>1, LastOfRange
  <2>. QED BY <2>1, <2>2 DEF FoldsFrom
<1>. QED BY <1>1, <1>2

-----------------------------------------------------------------------------
(* FlattenSeq *)

FlattensTo(f, s) ==
    f = [i \in 1 .. Len(s) |-> IF i = 1 THEN s[i] ELSE f[i - 1] \o s[i]]

LEMMA FlatIs ==
    ASSUME NEW V, NEW s \in Seq(Seq(V))
    PROVE  Seqs!FlattenSeq(s) = IF s = <<>> THEN <<>> ELSE (CHOOSE f : FlattensTo(f, s))[Len(s)]
<1>1. Len(s) = 0 <=> s = <<>>
  OBVIOUS
<1>. QED BY <1>1 DEF Seqs!FlattenSeq, FlattensTo

LEMMA FlatExists ==
    ASSUME NEW V, NEW s \in Seq(Seq(V))
    PROVE  \E f \in [1 .. Len(s) -> Seq(V)] : FlattensTo(f, s)
<1> DEFINE Fits(f, i) == f[i] = IF i = 1 THEN s[i] ELSE f[i - 1] \o s[i]
           Up(n) == \E f \in [1 .. n -> Seq(V)] : \A i \in 1 .. n : Fits(f, i)
           never == {n \in 0 .. Len(s) : ~Up(n)}
<1>1. Len(s) \in Nat /\ \A i \in 1 .. Len(s) : s[i] \in Seq(V)
  OBVIOUS
<1>2. ASSUME never # {} PROVE FALSE
  <2>1. PICK n \in never : \A m \in never : n <= m
    <3>1. never \in SUBSET Nat
      BY <1>1
    <3> HIDE DEF never
    <3>. QED BY <1>2, <3>1, LeastOne
  <2>2. n \in 0 .. Len(s) /\ ~Up(n)
    BY <2>1
  <2>3. n # 0
    <3>1. [i \in 1 .. 0 |-> <<>>] \in [1 .. 0 -> Seq(V)] /\ \A i \in 1 .. 0 : FALSE
      OBVIOUS
    <3>2. Up(0)
      BY <3>1
    <3> HIDE DEF Up
    <3>. QED BY <2>2, <3>2
  <2>4. n - 1 \in 0 .. Len(s) /\ n - 1 \notin never
    <3> HIDE DEF never
    <3>. QED BY <1>1, <2>1, <2>2, <2>3
  <2>5. PICK f \in [1 .. n - 1 -> Seq(V)] : \A i \in 1 .. n - 1 : Fits(f, i)
    BY <2>4
  <2> DEFINE last == IF n = 1 THEN s[n] ELSE f[n - 1] \o s[n]
             next == [i \in 1 .. n |-> IF i = n THEN last ELSE f[i]]
  <2>6. last \in Seq(V)
    <3>1. n \in 1 .. Len(s) /\ s[n] \in Seq(V)
      BY <1>1, <2>2, <2>3
    <3>2. n # 1 => f[n - 1] \in Seq(V)
      BY <3>1
    <3>. QED BY <3>1, <3>2
  <2> HIDE DEF last
  <2>7. \A i \in 1 .. n : i # n => i \in 1 .. n - 1
    BY <1>1, <2>2
  <2>8. next \in [1 .. n -> Seq(V)]
    BY <2>6, <2>7
  <2>9. ASSUME NEW i \in 1 .. n PROVE Fits(next, i)
    <3>1. CASE i = n
      <4>1. n # 1 => n - 1 \in 1 .. n /\ n - 1 # n
        BY <1>1, <2>2, <2>3
      <4>. QED BY <3>1, <4>1 DEF last
    <3>2. CASE i # n
      <4>1. i \in 1 .. n - 1 /\ (i # 1 => i - 1 \in 1 .. n /\ i - 1 # n)
        BY <1>1, <2>2, <3>2
      <4>2. Fits(f, i)
        BY <2>5, <4>1
      <4>. QED BY <3>2, <4>1, <4>2
    <3>. QED BY <3>1, <3>2
  <2>10. Up(n)
    <3> HIDE DEF next
    <3>. QED BY <2>8, <2>9
  <2>. QED BY <2>2, <2>10
<1>3. PICK f \in [1 .. Len(s) -> Seq(V)] : \A i \in 1 .. Len(s) : Fits(f, i)
  <2>1. Len(s) \in 0 .. Len(s)
    BY <1>1
  <2>2. Up(Len(s))
    <3> HIDE DEF Up
    <3>. QED BY <1>2, <2>1
  <2>. QED BY <2>2
<1>4. f = [i \in 1 .. Len(s) |-> IF i = 1 THEN s[i] ELSE f[i - 1] \o s[i]]
  BY <1>3
<1>. QED BY <1>4 DEF FlattensTo

Agree(s, t, n) == \A i \in 1 .. n : s[i] = t[i]

LEMMA FlatSame ==
    ASSUME NEW s, NEW t, Len(s) \in Nat, Len(t) \in Nat, NEW f, NEW g,
           FlattensTo(f, s), FlattensTo(g, t), NEW n \in Nat, n <= Len(s), n <= Len(t),
           Agree(s, t, n)
    PROVE  \A i \in 1 .. n : f[i] = g[i]
<1> DEFINE bad == {i \in 1 .. n : f[i] # g[i]}
<1>1. ASSUME bad # {} PROVE FALSE
  <2>1. PICK j \in bad : \A i \in bad : j <= i
    <3>1. bad \in SUBSET Nat
      OBVIOUS
    <3> HIDE DEF bad
    <3>. QED BY <1>1, <3>1, LeastOne
  <2>2. j \in 1 .. n /\ j \in 1 .. Len(s) /\ j \in 1 .. Len(t) /\ f[j] # g[j]
    BY <2>1
  <2>3. j # 1 => j - 1 \in 1 .. n /\ f[j - 1] = g[j - 1]
    <3>1. j # 1 => j - 1 \in 1 .. n /\ j - 1 < j
      BY <2>2
    <3>2. j # 1 => j - 1 \notin bad
      <4> HIDE DEF bad
      <4>. QED BY <2>1, <2>2, <3>1
    <3>. QED BY <3>1, <3>2
  <2>4. f[j] = IF j = 1 THEN s[j] ELSE f[j - 1] \o s[j]
    BY <2>2 DEF FlattensTo
  <2>5. g[j] = IF j = 1 THEN t[j] ELSE g[j - 1] \o t[j]
    BY <2>2 DEF FlattensTo
  <2>. QED BY <2>2, <2>3, <2>4, <2>5 DEF Agree
<1>. QED BY <1>1

LEMMA FlatBy ==
    ASSUME NEW V, NEW s \in Seq(Seq(V)), s # <<>>
    PROVE  \E f \in [1 .. Len(s) -> Seq(V)] : FlattensTo(f, s) /\ Seqs!FlattenSeq(s) = f[Len(s)]
<1>1. PICK f \in [1 .. Len(s) -> Seq(V)] : FlattensTo(f, s)
  BY FlatExists
<1>2. PICK g : FlattensTo(g, s) /\ Seqs!FlattenSeq(s) = g[Len(s)]
  BY <1>1, FlatIs
<1>3. Len(s) \in Nat /\ Len(s) # 0 /\ Len(s) \in 1 .. Len(s)
  OBVIOUS
<1>4. \A i \in 1 .. Len(s) : f[i] = g[i]
  <2>1. Agree(s, s, Len(s))
    BY DEF Agree
  <2>. QED BY <1>1, <1>2, <1>3, <2>1, FlatSame
<1>. QED BY <1>1, <1>2, <1>3, <1>4

\* Flattening gives a sequence, and its last part comes last.
LEMMA FlatEmpty == Seqs!FlattenSeq(<<>>) = <<>>
<1>1. <<>> \in Seq(Seq({}))
  OBVIOUS
<1>. QED BY <1>1, FlatIs

LEMMA FlatTyped ==
    ASSUME NEW V, NEW s \in Seq(Seq(V))
    PROVE  Seqs!FlattenSeq(s) \in Seq(V)
<1>1. CASE s = <<>>
  <2>1. <<>> \in Seq(V)
    OBVIOUS
  <2>. QED BY <1>1, <2>1, FlatEmpty
<1>2. CASE s # <<>>
  <2>1. Len(s) \in 1 .. Len(s)
    BY <1>2
  <2>. QED BY SMTT(60), <1>2, <2>1, FlatBy
<1>. QED BY <1>1, <1>2

LEMMA FlatAppend ==
    ASSUME NEW V, NEW s \in Seq(Seq(V)), NEW x \in Seq(V)
    PROVE  Seqs!FlattenSeq(Append(s, x)) = Seqs!FlattenSeq(s) \o x
<1> DEFINE t == Append(s, x)
           n == Len(s)
<1>1. n \in Nat /\ t \in Seq(Seq(V)) /\ t # <<>> /\ Len(t) = n + 1 /\ t[n + 1] = x
      /\ \A i \in 1 .. n : s[i] = t[i]
  <2>1. n \in Nat /\ t \in Seq(Seq(V)) /\ Len(t) = n + 1
    OBVIOUS
  <2>2. t # <<>>
    <3>1. t = <<>> => Len(t) = 0
      OBVIOUS
    <3> HIDE DEF t
    <3>. QED BY <2>1, <3>1
  <2>3. t[n + 1] = x /\ \A i \in 1 .. n : s[i] = t[i]
    OBVIOUS
  <2>. QED BY <2>1, <2>2, <2>3
<1> HIDE DEF t
<1>2. PICK g : FlattensTo(g, t) /\ Seqs!FlattenSeq(t) = g[n + 1]
  BY <1>1, FlatBy
<1>3. g[n + 1] = IF n + 1 = 1 THEN x ELSE g[n] \o x
  <2>1. n + 1 \in 1 .. Len(t) /\ (n + 1) - 1 = n
    BY <1>1
  <2>. QED BY <1>1, <1>2, <2>1 DEF FlattensTo
<1>4. CASE s = <<>>
  <2>1. n = 0
    BY <1>4
  <2>2. Seqs!FlattenSeq(t) = x
    BY <1>2, <1>3, <2>1
  <2>3. <<>> \o x = x
    OBVIOUS
  <2>. QED BY <1>4, <2>2, <2>3, FlatEmpty DEF t
<1>5. CASE s # <<>>
  <2>1. PICK f : FlattensTo(f, s) /\ Seqs!FlattenSeq(s) = f[n]
    BY <1>5, FlatBy
  <2>2. n # 0 /\ n \in 1 .. n
    BY <1>1, <1>5
  <2>3. n <= Len(s) /\ n <= Len(t) /\ Len(s) \in Nat /\ Len(t) \in Nat
    BY <1>1
  <2>4. \A i \in 1 .. n : f[i] = g[i]
    <3>1. Agree(s, t, n)
      BY <1>1 DEF Agree
    <3>2. n \in Nat
      BY <1>1
    <3>3. FlattensTo(f, s) /\ FlattensTo(g, t)
      BY <1>2, <2>1
    <3> HIDE DEF n
    <3>. QED BY <2>3, <3>1, <3>2, <3>3, FlatSame
  <2>5. Seqs!FlattenSeq(t) = f[n] \o x
    <3>1. n + 1 # 1 /\ g[n] = f[n]
      BY <1>1, <2>2, <2>4
    <3>. QED BY <1>2, <1>3, <3>1
  <2>. QED BY <2>1, <2>5 DEF t
<1>. QED BY <1>4, <1>5

-----------------------------------------------------------------------------
(* Flattening what a function gives for each element of a sequence *)

Maps(f, E, V) == f \in [E -> V]
Mapped(f, s) == [i \in DOMAIN s |-> f[s[i]]]
FlatMap(f, s) == Seqs!FlattenSeq(Mapped(f, s))

LEMMA SequenceIs == ASSUME NEW V, NEW q \in Seq(V) PROVE q = [k \in DOMAIN q |-> q[k]]
  OBVIOUS

LEMMA LengthIs ==
    ASSUME NEW V, NEW q \in Seq(V), NEW n \in Nat, DOMAIN q = 1 .. n
    PROVE  Len(q) = n
<1>1. DOMAIN q = 1 .. Len(q) /\ Len(q) \in Nat
  OBVIOUS
<1>2. n # 0 => n \in 1 .. Len(q)
  BY <1>1
<1>3. Len(q) # 0 => Len(q) \in 1 .. n
  BY <1>1
<1>. QED BY <1>1, <1>2, <1>3

LEMMA SameSequence ==
    ASSUME NEW V, NEW p \in Seq(V), NEW q \in Seq(V), Len(p) = Len(q),
           \A k \in 1 .. Len(q) : p[k] = q[k]
    PROVE  p = q
<1>1. DOMAIN p = 1 .. Len(p) /\ DOMAIN q = 1 .. Len(q)
  OBVIOUS
<1>2. p = [k \in DOMAIN p |-> p[k]] /\ q = [k \in DOMAIN q |-> q[k]]
  BY SequenceIs
<1>. QED BY <1>1, <1>2

LEMMA MapTyped ==
    ASSUME NEW V, NEW E, NEW f, Maps(f, E, V), NEW s \in Seq(E)
    PROVE  /\ Mapped(f, s) \in Seq(V) /\ Len(Mapped(f, s)) = Len(s)
           /\ \A i \in 1 .. Len(s) : Mapped(f, s)[i] = f[s[i]]
<1>1. Len(s) \in Nat /\ DOMAIN s = 1 .. Len(s) /\ \A i \in 1 .. Len(s) : s[i] \in E
  OBVIOUS
<1>2. Mapped(f, s) \in [1 .. Len(s) -> V] /\ \A i \in 1 .. Len(s) : Mapped(f, s)[i] = f[s[i]]
  BY <1>1 DEF Mapped, Maps
<1>3. Mapped(f, s) \in Seq(V)
  BY <1>1, <1>2
<1>. QED BY <1>1, <1>2, <1>3, LengthIs

LEMMA AppendIs ==
    ASSUME NEW V, NEW s \in Seq(V), NEW e \in V
    PROVE  /\ Len(s) \in Nat /\ DOMAIN s = 1 .. Len(s)
           /\ Append(s, e) \in Seq(V) /\ Len(Append(s, e)) = Len(s) + 1
           /\ DOMAIN Append(s, e) = 1 .. Len(s) + 1
           /\ \A i \in 1 .. Len(s) : s[i] \in V /\ Append(s, e)[i] = s[i]
           /\ Append(s, e)[Len(s) + 1] = e
  OBVIOUS

LEMMA MapAppend ==
    ASSUME NEW V, NEW E, NEW f, Maps(f, E, V), NEW s \in Seq(E), NEW e \in E
    PROVE  Mapped(f, Append(s, e)) = Append(Mapped(f, s), f[e])
<1> DEFINE t == Append(s, e)
           p == Mapped(f, s)
           q == Mapped(f, t)
           n == Len(s)
<1>1. n \in Nat /\ t \in Seq(E) /\ Len(t) = n + 1
      /\ (\A i \in 1 .. n : t[i] = s[i]) /\ t[n + 1] = e
  BY AppendIs
<1> HIDE DEF t
<1>2. p \in Seq(V) /\ Len(p) = n /\ q \in Seq(V) /\ Len(q) = n + 1 /\ f[e] \in V
      /\ (\A i \in 1 .. n : p[i] = f[s[i]]) /\ (\A i \in 1 .. n + 1 : q[i] = f[t[i]])
  <2>1. p \in Seq(V) /\ Len(p) = n /\ \A i \in 1 .. n : p[i] = f[s[i]]
    BY MapTyped
  <2>2. q \in Seq(V) /\ Len(q) = Len(t) /\ \A i \in 1 .. Len(t) : q[i] = f[t[i]]
    BY <1>1, MapTyped
  <2>3. f[e] \in V
    BY DEF Maps
  <2>. QED BY <1>1, <2>1, <2>2, <2>3
<1> HIDE DEF p, q
<1>4. Append(p, f[e]) \in Seq(V) /\ Len(Append(p, f[e])) = n + 1
      /\ (\A i \in 1 .. n : Append(p, f[e])[i] = p[i]) /\ Append(p, f[e])[n + 1] = f[e]
  BY <1>2, AppendIs
<1>5. \A i \in 1 .. n + 1 : i \in 1 .. n \/ i = n + 1
  BY <1>1
<1>6. \A i \in 1 .. n + 1 : q[i] = Append(p, f[e])[i]
  <2> HIDE DEF n
  <2>. QED BY <1>1, <1>2, <1>4, <1>5
<1>7. q = Append(p, f[e])
  <2> HIDE DEF n
  <2>. QED BY <1>2, <1>4, <1>6, SameSequence
<1>. QED BY <1>7 DEF p, q, t

LEMMA JoinThree ==
    ASSUME NEW V, NEW a \in Seq(V), NEW b \in Seq(V), NEW c \in Seq(V)
    PROVE  (a \o b) \o c = a \o (b \o c) /\ a \o b \in Seq(V)
  OBVIOUS

LEMMA FlatMapAppend ==
    ASSUME NEW V, NEW E, NEW f, Maps(f, E, Seq(V)), NEW s \in Seq(E), NEW e \in E
    PROVE  /\ FlatMap(f, Append(s, e)) = FlatMap(f, s) \o f[e]
           /\ FlatMap(f, s) \in Seq(V) /\ f[e] \in Seq(V)
<1>1. Mapped(f, s) \in Seq(Seq(V)) /\ f[e] \in Seq(V)
  BY MapTyped DEF Maps
<1>2. Mapped(f, Append(s, e)) = Append(Mapped(f, s), f[e])
  BY MapAppend
<1>3. Seqs!FlattenSeq(Append(Mapped(f, s), f[e])) = Seqs!FlattenSeq(Mapped(f, s)) \o f[e]
  BY <1>1, FlatAppend
<1>4. Seqs!FlattenSeq(Mapped(f, s)) \in Seq(V)
  BY <1>1, FlatTyped
<1>. QED BY <1>1, <1>2, <1>3, <1>4 DEF FlatMap

LEMMA FlatMapEmpty == ASSUME NEW f PROVE FlatMap(f, <<>>) = <<>>
<1>1. Mapped(f, <<>>) = <<>>
  BY DEF Mapped
<1>. QED BY <1>1, FlatEmpty DEF FlatMap

LEMMA Snoc ==
    ASSUME NEW E, NEW s \in Seq(E), s # <<>>
    PROVE  \E r \in Seq(E) : /\ s = Append(r, s[Len(s)]) /\ Len(s) = Len(r) + 1
                             /\ s[Len(s)] \in E /\ \A i \in 1 .. Len(r) : r[i] = s[i]
<1> DEFINE n == Len(s) - 1
           r == [i \in 1 .. n |-> s[i]]
<1>1. Len(s) \in Nat /\ n \in Nat /\ Len(s) = n + 1 /\ s[Len(s)] \in E /\ \A i \in 1 .. n : s[i] \in E
  OBVIOUS
<1>2. r \in [1 .. n -> E] /\ r \in Seq(E)
  BY <1>1
<1>3. Len(r) = n /\ \A i \in 1 .. n : r[i] = s[i]
  BY <1>1, <1>2, LengthIs
<1> DEFINE d == s[Len(s)]
<1>8. d \in E
  BY <1>1
<1> HIDE DEF r, d
<1>9. Append(r, d) \in Seq(E) /\ Len(Append(r, d)) = Len(r) + 1
      /\ (\A i \in 1 .. Len(r) : Append(r, d)[i] = r[i]) /\ Append(r, d)[Len(r) + 1] = d
  BY <1>2, <1>8, AppendIs
<1>4. Append(r, s[Len(s)]) \in Seq(E) /\ Len(Append(r, s[Len(s)])) = n + 1
      /\ (\A i \in 1 .. n : Append(r, s[Len(s)])[i] = r[i])
      /\ Append(r, s[Len(s)])[n + 1] = s[Len(s)]
  BY <1>3, <1>9 DEF d
<1> HIDE DEF n
<1>5. \A i \in 1 .. n + 1 : i \in 1 .. n \/ i = n + 1
  BY <1>1
<1>6. \A i \in 1 .. Len(s) : Append(r, s[Len(s)])[i] = s[i]
  BY <1>1, <1>3, <1>4, <1>5
<1>7. Append(r, s[Len(s)]) = s
  BY <1>1, <1>4, <1>6, SameSequence
<1>. QED BY <1>1, <1>2, <1>3, <1>7

Grows(f, d, e, u) == f[e] = f[d] \o u

\* The last element grows.
LEMMA FlatMapGrow ==
    ASSUME NEW V, NEW E, NEW f, Maps(f, E, Seq(V)), NEW s \in Seq(E), s # <<>>,
           NEW e \in E, NEW u \in Seq(V), Grows(f, s[Len(s)], e, u)
    PROVE  /\ FlatMap(f, [s EXCEPT ![Len(s)] = e]) = FlatMap(f, s) \o u
           /\ FlatMap(f, s) \in Seq(V)
<1>1. PICK r \in Seq(E) : /\ s = Append(r, s[Len(s)]) /\ Len(s) = Len(r) + 1
                          /\ s[Len(s)] \in E /\ \A i \in 1 .. Len(r) : r[i] = s[i]
  BY Snoc
<1> DEFINE d == s[Len(s)]
           t == [s EXCEPT ![Len(s)] = e]
<1>2. t = Append(r, e)
  <2>1. Len(s) \in Nat /\ Len(r) \in Nat /\ Len(s) \in 1 .. Len(s)
    OBVIOUS
  <2>2. t \in Seq(E) /\ Len(t) = Len(s) /\ t[Len(s)] = e
        /\ \A i \in 1 .. Len(s) : i # Len(s) => t[i] = s[i]
    BY <2>1
  <2>3. Append(r, e) \in Seq(E) /\ Len(Append(r, e)) = Len(r) + 1
        /\ (\A i \in 1 .. Len(r) : Append(r, e)[i] = r[i]) /\ Append(r, e)[Len(r) + 1] = e
    BY AppendIs
  <2>4. \A i \in 1 .. Len(s) : i # Len(s) => i \in 1 .. Len(r)
    BY <1>1, <2>1
  <2>5. \A i \in 1 .. Len(s) : t[i] = Append(r, e)[i]
    <3> HIDE DEF t
    <3>. QED BY <1>1, <2>2, <2>3, <2>4
  <2> HIDE DEF t
  <2>. QED BY <1>1, <2>2, <2>3, <2>5, SameSequence
<1> HIDE DEF t
<1>3. FlatMap(f, t) = FlatMap(f, r) \o f[e] /\ FlatMap(f, r) \in Seq(V) /\ f[e] \in Seq(V)
  BY <1>2, FlatMapAppend
<1>6. d \in E /\ s = Append(r, d)
  BY <1>1
<1> HIDE DEF d
<1>4. FlatMap(f, s) = FlatMap(f, r) \o f[d] /\ f[d] \in Seq(V)
  BY <1>6, FlatMapAppend
<1>5. (FlatMap(f, r) \o f[d]) \o u = FlatMap(f, r) \o (f[d] \o u) /\ FlatMap(f, r) \o f[d] \in Seq(V)
  BY <1>3, <1>4, JoinThree
<1>7. f[e] = f[d] \o u
  BY DEF d, Grows
<1>. QED BY <1>3, <1>4, <1>5, <1>7 DEF t

LEMMA FlatMapJoin ==
    ASSUME NEW V, NEW E, NEW f, Maps(f, E, Seq(V)), NEW s \in Seq(E), NEW t \in Seq(E)
    PROVE  FlatMap(f, s \o t) = FlatMap(f, s) \o FlatMap(f, t)
<1> DEFINE bad == {n \in Nat : \E q \in Seq(E) : Len(q) = n /\ FlatMap(f, s \o q) # FlatMap(f, s) \o FlatMap(f, q)}
<1>1. ASSUME bad # {} PROVE FALSE
  <2>1. PICK n \in bad : \A m \in bad : n <= m
    <3>1. bad \in SUBSET Nat
      OBVIOUS
    <3> HIDE DEF bad
    <3>. QED BY <1>1, <3>1, LeastOne
  <2>2. PICK q \in Seq(E) : Len(q) = n /\ FlatMap(f, s \o q) # FlatMap(f, s) \o FlatMap(f, q)
    BY <2>1
  <2>3. FlatMap(f, s) \in Seq(V)
    <3>1. Mapped(f, s) \in Seq(Seq(V))
      BY MapTyped
    <3>. QED BY <3>1, FlatTyped DEF FlatMap
  <2>4. q # <<>>
    <3>1. FlatMap(f, s) \o <<>> = FlatMap(f, s)
      BY <2>3
    <3>2. s \o <<>> = s
      OBVIOUS
    <3>. QED BY <2>2, <3>1, <3>2, FlatMapEmpty
  <2>5. PICK r \in Seq(E) : q = Append(r, q[Len(q)]) /\ Len(q) = Len(r) + 1 /\ q[Len(q)] \in E
    BY <2>4, Snoc
  <2>6. Len(r) \in Nat /\ Len(r) \notin bad
    <3>1. n \in Nat /\ Len(r) \in Nat /\ n = Len(r) + 1
      BY <2>1, <2>2, <2>5
    <3> HIDE DEF bad
    <3>. QED BY <2>1, <3>1
  <2>7. FlatMap(f, s \o r) = FlatMap(f, s) \o FlatMap(f, r)
    BY <2>5, <2>6
  <2> DEFINE e == q[Len(q)]
  <2>8. s \o q = Append(s \o r, e) /\ s \o r \in Seq(E) /\ e \in E
    <3>1. e \in E /\ q = Append(r, e)
      BY <2>5
    <3> HIDE DEF e
    <3>2. s \o Append(r, e) = Append(s \o r, e) /\ s \o r \in Seq(E)
      BY <3>1
    <3>. QED BY <3>1, <3>2
  <2>9. FlatMap(f, s \o q) = FlatMap(f, s \o r) \o f[e]
    <3> DEFINE sr == s \o r
    <3>1. sr \in Seq(E) /\ e \in E /\ s \o q = Append(sr, e)
      BY <2>8
    <3> HIDE DEF e, sr
    <3>2. FlatMap(f, Append(sr, e)) = FlatMap(f, sr) \o f[e]
      <4>1. sr \in Seq(E) /\ e \in E
        BY <3>1
      <4>. QED BY <4>1, FlatMapAppend
    <3>. QED BY <3>1, <3>2 DEF sr
  <2>10. FlatMap(f, q) = FlatMap(f, r) \o f[e] /\ FlatMap(f, r) \in Seq(V) /\ f[e] \in Seq(V)
    <3>1. q = Append(r, e)
      BY <2>5
    <3> HIDE DEF e
    <3>. QED BY <2>8, <3>1, FlatMapAppend
  <2>11. (FlatMap(f, s) \o FlatMap(f, r)) \o f[e] = FlatMap(f, s) \o (FlatMap(f, r) \o f[e])
    <3> DEFINE a == FlatMap(f, s)
               b == FlatMap(f, r)
               c == f[e]
    <3>1. a \in Seq(V) /\ b \in Seq(V) /\ c \in Seq(V)
      BY <2>3, <2>10
    <3> HIDE DEF a, b, c, bad
    <3>2. (a \o b) \o c = a \o (b \o c)
      BY <3>1, JoinThree
    <3>. QED BY <3>2 DEF a, b, c
  <2>. QED BY <2>2, <2>7, <2>9, <2>10, <2>11
<1>2. Len(t) \in Nat /\ Len(t) \notin bad
  <2> HIDE DEF bad
  <2>. QED BY <1>1
<1>. QED BY <1>2

-----------------------------------------------------------------------------
(* What is picked from a sequence, and a sequence in pieces *)

Chooser(T, E) == [e \in E |-> IF e \in T THEN <<e>> ELSE <<>>]
Positions(s, T) == {i \in 1 .. Len(s) : s[i] \in T}

LEMMA ChooserIs ==
    ASSUME NEW E, NEW T
    PROVE  Maps(Chooser(T, E), E, Seq(E))
           /\ \A e \in E : Chooser(T, E)[e] = IF e \in T THEN <<e>> ELSE <<>>
<1>1. \A e \in E : <<e>> \in Seq(E) /\ <<>> \in Seq(E)
  OBVIOUS
<1>. QED BY <1>1 DEF Chooser, Maps

LEMMA PositionsFinite ==
    ASSUME NEW E, NEW s \in Seq(E), NEW T
    PROVE  IsFiniteSet(Positions(s, T)) /\ Cardinality(Positions(s, T)) \in Nat
<1>1. IsFiniteSet(1 .. Len(s)) /\ Positions(s, T) \in SUBSET (1 .. Len(s))
  <2>1. Len(s) \in Nat
    OBVIOUS
  <2>. QED BY <2>1, FS_Interval DEF Positions
<1>. QED BY <1>1, FS_Subset, FS_CardinalityType

\* One element more is one position more, if it is picked.
LEMMA PositionsAppend ==
    ASSUME NEW E, NEW s \in Seq(E), NEW e \in E, NEW T
    PROVE  Cardinality(Positions(Append(s, e), T))
             = Cardinality(Positions(s, T)) + (IF e \in T THEN 1 ELSE 0)
<1> DEFINE n == Len(s)
           t == Append(s, e)
<1>1. n \in Nat /\ Len(t) = n + 1 /\ t[n + 1] = e /\ \A i \in 1 .. n : t[i] = s[i]
  BY AppendIs
<1>2. IsFiniteSet(Positions(s, T)) /\ Cardinality(Positions(s, T)) \in Nat /\ n + 1 \notin Positions(s, T)
  <2>1. n + 1 \notin Positions(s, T)
    BY <1>1 DEF Positions
  <2>. QED BY <2>1, PositionsFinite
<1>3. 1 .. n + 1 = (1 .. n) \cup {n + 1}
  BY <1>1
<1>4. Positions(t, T) = IF e \in T THEN Positions(s, T) \cup {n + 1} ELSE Positions(s, T)
  <2> HIDE DEF t, n
  <2>. QED BY <1>1, <1>3 DEF Positions, n
<1>5. Cardinality(Positions(s, T) \cup {n + 1}) = Cardinality(Positions(s, T)) + 1
  BY <1>2, FS_AddElement
<1>. QED BY <1>2, <1>4, <1>5

Picks(f, T, E) == f = Chooser(T, E)
HasPicked(f, s, T, E) == FlatMap(f, s) \in Seq(E) /\ Len(FlatMap(f, s)) = Cardinality(Positions(s, T))

LEMMA PickedAppend ==
    ASSUME NEW E, NEW T, NEW f, Picks(f, T, E), NEW s \in Seq(E), NEW e \in E, HasPicked(f, s, T, E)
    PROVE  HasPicked(f, Append(s, e), T, E)
<1>1. Maps(f, E, Seq(E)) /\ f[e] = IF e \in T THEN <<e>> ELSE <<>>
  BY ChooserIs DEF Picks
<1>2. FlatMap(f, Append(s, e)) = FlatMap(f, s) \o f[e] /\ FlatMap(f, s) \in Seq(E) /\ f[e] \in Seq(E)
  <2>1. Maps(f, E, Seq(E))
    BY <1>1
  <2>. QED BY <2>1, FlatMapAppend
<1> DEFINE a == FlatMap(f, s)
           b == f[e]
<1>3. a \in Seq(E) /\ b \in Seq(E) /\ FlatMap(f, Append(s, e)) = a \o b
  BY <1>2
<1>4. Len(b) = IF e \in T THEN 1 ELSE 0
  BY <1>1
<1>5. Len(a) = Cardinality(Positions(s, T))
  BY DEF HasPicked
<1>6. Cardinality(Positions(Append(s, e), T)) = Cardinality(Positions(s, T)) + (IF e \in T THEN 1 ELSE 0)
  BY PositionsAppend
<1> HIDE DEF a, b
<1>7. a \o b \in Seq(E) /\ Len(a \o b) = Len(a) + Len(b)
  BY <1>3
<1>. QED BY <1>3, <1>4, <1>5, <1>6, <1>7 DEF HasPicked

LEMMA PickedLength ==
    ASSUME NEW E, NEW T, NEW s \in Seq(E)
    PROVE  /\ FlatMap(Chooser(T, E), s) \in Seq(E)
           /\ Len(FlatMap(Chooser(T, E), s)) = Cardinality(Positions(s, T))
<1> DEFINE f == Chooser(T, E)
           bad == {n \in Nat : \E q \in Seq(E) : Len(q) = n /\ ~HasPicked(f, q, T, E)}
<1>1. Picks(f, T, E)
  BY DEF Picks
<1> HIDE DEF f
<1>2. ASSUME bad # {} PROVE FALSE
  <2>1. PICK n \in bad : \A m \in bad : n <= m
    <3>1. bad \in SUBSET Nat
      OBVIOUS
    <3> HIDE DEF bad
    <3>. QED BY <1>2, <3>1, LeastOne
  <2>2. PICK q \in Seq(E) : Len(q) = n /\ n \in Nat /\ ~HasPicked(f, q, T, E)
    BY <2>1
  <2>3. q # <<>>
    <3>1. Positions(<<>>, T) = {} /\ FlatMap(f, <<>>) = <<>> /\ <<>> \in Seq(E) /\ Len(<<>>) = 0
      BY FlatMapEmpty DEF Positions
    <3>2. HasPicked(f, <<>>, T, E)
      BY <3>1, FS_EmptySet DEF HasPicked
    <3>. QED BY <2>2, <3>2
  <2>4. PICK r \in Seq(E) : q = Append(r, q[Len(q)]) /\ Len(q) = Len(r) + 1 /\ q[Len(q)] \in E
    BY <2>3, Snoc
  <2>5. Len(r) \in Nat /\ Len(r) \notin bad
    <3>1. n \in Nat /\ Len(r) \in Nat /\ n = Len(r) + 1
      BY <2>2, <2>4
    <3> HIDE DEF bad
    <3>. QED BY <2>1, <3>1
  <2>6. HasPicked(f, r, T, E)
    BY <2>4, <2>5
  <2> DEFINE e == q[Len(q)]
  <2>7. q = Append(r, e) /\ e \in E
    BY <2>4
  <2> HIDE DEF e, bad
  <2>8. HasPicked(f, Append(r, e), T, E)
    BY <1>1, <2>6, <2>7, PickedAppend
  <2>. QED BY <2>2, <2>7, <2>8
<1>3. Len(s) \in Nat /\ Len(s) \notin bad
  <2> HIDE DEF bad
  <2>. QED BY <1>2
<1>4. HasPicked(f, s, T, E)
  BY <1>3
<1>. QED BY <1>4 DEF HasPicked, f

\* Induction up to n: what holds is given as a set of numbers.
LEMMA StepByStep ==
    ASSUME NEW n \in Nat, NEW good, 0 \in good, \A m \in 0 .. n - 1 : m \in good => m + 1 \in good
    PROVE  \A m \in 0 .. n : m \in good
<1> DEFINE bad == {m \in 0 .. n : m \notin good}
<1>1. ASSUME bad # {} PROVE FALSE
  <2>1. PICK m \in bad : \A k \in bad : m <= k
    <3>1. bad \in SUBSET Nat
      OBVIOUS
    <3> HIDE DEF bad
    <3>. QED BY <1>1, <3>1, LeastOne
  <2>2. m \in 0 .. n /\ m \notin good
    BY <2>1
  <2>3. m # 0 /\ m - 1 \in 0 .. n - 1 /\ m - 1 \in 0 .. n /\ ~(m <= m - 1)
    BY <2>2
  <2>4. m - 1 \in good
    BY <2>1, <2>3
  <2>. QED BY <2>2, <2>3, <2>4
<1>. QED BY <1>1

LEMMA FamilyAppend ==
    ASSUME NEW V, NEW g, NEW n \in Nat, \A i \in 1 .. n + 1 : g[i] \in V
    PROVE  /\ [i \in 1 .. n |-> g[i]] \in Seq(V)
           /\ [i \in 1 .. n + 1 |-> g[i]] = Append([i \in 1 .. n |-> g[i]], g[n + 1])
<1> DEFINE p == [i \in 1 .. n |-> g[i]]
           q == [i \in 1 .. n + 1 |-> g[i]]
           t == Append(p, g[n + 1])
<1>1. p \in Seq(V) /\ q \in Seq(V) /\ g[n + 1] \in V /\ DOMAIN p = 1 .. n /\ DOMAIN q = 1 .. n + 1
  OBVIOUS
<1>2. Len(p) = n /\ Len(q) = n + 1
  <2> HIDE DEF p, q
  <2>. QED BY <1>1, LengthIs
<1>3. t \in Seq(V) /\ Len(t) = n + 1 /\ t[n + 1] = g[n + 1] /\ \A i \in 1 .. n : t[i] = p[i]
  <2> HIDE DEF p
  <2>. QED BY <1>1, <1>2, AppendIs
<1>4. ASSUME NEW i \in 1 .. Len(t) PROVE q[i] = t[i]
  <2>1. CASE i = n + 1
    BY <1>3, <2>1
  <2>2. CASE i # n + 1
    <3>1. i \in 1 .. n /\ i \in 1 .. n + 1
      BY <1>3, <2>2
    <3>2. p[i] = g[i] /\ q[i] = g[i]
      BY <3>1
    <3>. QED BY <1>3, <3>1, <3>2
  <2>. QED BY <2>1, <2>2
<1> HIDE DEF p, q, t
<1>5. q = t
  BY <1>1, <1>2, <1>3, <1>4, SameSequence
<1>. QED BY <1>1, <1>5 DEF p, q, t

\* What is picked part by part, of parts that have nothing in common.
Picked(P, s, E) == [i \in DOMAIN P |-> FlatMap(Chooser(P[i], E), s)]
Joint(P, n) == UNION {P[i] : i \in 1 .. n}
Disjoint(P, n) == \A i, j \in 1 .. n : i # j => P[i] \cap P[j] = {}

LEMMA JointPositions ==
    ASSUME NEW E, NEW s \in Seq(E), NEW P, NEW m \in Nat, Disjoint(P, m + 1)
    PROVE  Cardinality(Positions(s, Joint(P, m + 1)))
             = Cardinality(Positions(s, Joint(P, m))) + Cardinality(Positions(s, P[m + 1]))
<1> DEFINE A == Positions(s, Joint(P, m))
           B == Positions(s, P[m + 1])
<1>1. IsFiniteSet(A) /\ Cardinality(A) \in Nat /\ IsFiniteSet(B) /\ Cardinality(B) \in Nat
  BY PositionsFinite
<1>2. 1 .. m + 1 = (1 .. m) \cup {m + 1} /\ m + 1 \notin 1 .. m
  OBVIOUS
<1>3. Joint(P, m + 1) = Joint(P, m) \cup P[m + 1]
  BY <1>2 DEF Joint
<1>4. Joint(P, m) \cap P[m + 1] = {}
  BY <1>2 DEF Joint, Disjoint
<1>5. Positions(s, Joint(P, m + 1)) = A \cup B
  BY <1>3 DEF Positions
<1>6. A \cap B = {}
  BY <1>4 DEF Positions
<1> HIDE DEF A, B
<1>7. Cardinality(A \cup B) = Cardinality(A) + Cardinality(B) - Cardinality(A \cap B)
  BY <1>1, FS_Union
<1>8. Cardinality(A \cap B) = 0
  <2>1. Cardinality({}) = 0
    BY FS_EmptySet
  <2>. QED BY <1>6, <2>1
<1>9. Cardinality(A \cup B) = Cardinality(A) + Cardinality(B)
  BY <1>1, <1>7, <1>8
<1>. QED BY <1>5, <1>9 DEF A, B

LEMMA PartsLength ==
    ASSUME NEW E, NEW s \in Seq(E), NEW n \in Nat, NEW P, Disjoint(P, n), 1 .. n = DOMAIN P
    PROVE  /\ Seqs!FlattenSeq(Picked(P, s, E)) \in Seq(E)
           /\ Len(Seqs!FlattenSeq(Picked(P, s, E))) = Cardinality(Positions(s, Joint(P, n)))
<1> DEFINE g == Picked(P, s, E)
           first(m) == [i \in 1 .. m |-> g[i]]
           good == {m \in 0 .. n : Len(Seqs!FlattenSeq(first(m))) = Cardinality(Positions(s, Joint(P, m)))}
<1>1. \A i \in 1 .. n : g[i] = FlatMap(Chooser(P[i], E), s) /\ g[i] \in Seq(E)
                        /\ Len(g[i]) = Cardinality(Positions(s, P[i]))
  BY PickedLength DEF Picked
<1>2. g = first(n)
  BY DEF Picked
<1> HIDE DEF g
<1>3. 0 \in good
  <2>1. 1 .. 0 = {}
    OBVIOUS
  <2>2. first(0) = <<>> /\ Positions(s, Joint(P, 0)) = {}
    BY <2>1 DEF Joint, Positions
  <2>3. Len(<<>>) = 0 /\ 0 \in 0 .. n
    OBVIOUS
  <2>4. Cardinality({}) = 0
    BY FS_EmptySet
  <2>5. Seqs!FlattenSeq(first(0)) = <<>>
    BY <2>2, FlatEmpty
  <2> HIDE DEF first
  <2>. QED BY <2>2, <2>3, <2>4, <2>5
<1>4. ASSUME NEW m \in 0 .. n - 1, m \in good PROVE m + 1 \in good
  <2>1. m \in Nat /\ m + 1 \in 1 .. n /\ \A i \in 1 .. m + 1 : g[i] \in Seq(E)
    BY <1>1
  <2>2. first(m) \in Seq(Seq(E)) /\ first(m + 1) = Append(first(m), g[m + 1])
    BY <2>1, FamilyAppend
  <2> DEFINE a == Seqs!FlattenSeq(first(m))
             b == g[m + 1]
  <2>3. a \in Seq(E) /\ b \in Seq(E) /\ Seqs!FlattenSeq(first(m + 1)) = a \o b
    <3> HIDE DEF first
    <3>1. b \in Seq(E)
      BY <2>1
    <3>. QED BY <2>2, <3>1, FlatTyped, FlatAppend
  <2>4. Len(a) = Cardinality(Positions(s, Joint(P, m))) /\ Len(b) = Cardinality(Positions(s, P[m + 1]))
    BY <1>1, <1>4, <2>1
  <2>5. Disjoint(P, m + 1)
    <3>1. \A i \in 1 .. m + 1 : i \in 1 .. n
      BY <2>1
    <3>. QED BY <3>1 DEF Disjoint
  <2>6. Cardinality(Positions(s, Joint(P, m + 1))) = Len(a) + Len(b)
    BY <2>1, <2>4, <2>5, JointPositions
  <2> HIDE DEF a, b
  <2>7. Len(a \o b) = Len(a) + Len(b)
    BY <2>3
  <2>. QED BY <2>1, <2>3, <2>6, <2>7
<1>5. n \in good
  <2>1. n \in 0 .. n
    OBVIOUS
  <2> HIDE DEF good
  <2>. QED BY <1>3, <1>4, <2>1, StepByStep
<1>6. g \in Seq(Seq(E))
  BY <1>1, <1>2
<1>7. Seqs!FlattenSeq(g) \in Seq(E)
  BY <1>6, FlatTyped
<1>. QED BY <1>2, <1>5, <1>7 DEF g

\* A sequence in pieces that follow each other.
LEMMA SubSeqIs ==
    ASSUME NEW V, NEW s \in Seq(V), NEW a \in Nat, NEW b \in Nat, a <= b, b <= Len(s)
    PROVE  /\ SubSeq(s, a + 1, b) \in Seq(V) /\ Len(SubSeq(s, a + 1, b)) = b - a
           /\ \A i \in 1 .. b - a : SubSeq(s, a + 1, b)[i] = s[a + i]
<1> DEFINE q == SubSeq(s, a + 1, b)
<1>1. DOMAIN s = 1 .. Len(s) /\ Len(s) \in Nat /\ \A i \in 1 .. Len(s) : s[i] \in V
  OBVIOUS
<1>2. q = [i \in 1 .. b - a |-> s[a + i]]
  BY <1>1
<1>3. \A i \in 1 .. b - a : a + i \in 1 .. Len(s)
  BY <1>1
<1>4. q \in Seq(V) /\ DOMAIN q = 1 .. b - a /\ b - a \in Nat
  BY <1>1, <1>2, <1>3
<1>5. \A i \in 1 .. b - a : q[i] = s[a + i]
  BY <1>2
<1> HIDE DEF q
<1>6. Len(q) = b - a
  BY <1>4, LengthIs
<1>. QED BY <1>4, <1>5, <1>6 DEF q

LEMMA JoinPieces ==
    ASSUME NEW V, NEW s \in Seq(V), NEW a \in Nat, NEW b \in Nat, a <= b, b <= Len(s)
    PROVE  SubSeq(s, 1, a) \o SubSeq(s, a + 1, b) = SubSeq(s, 1, b)
<1> DEFINE p == SubSeq(s, 1, a)
           q == SubSeq(s, a + 1, b)
           r == SubSeq(s, 1, b)
           t == p \o q
<1>0. Len(s) \in Nat /\ 0 \in Nat /\ 0 <= a /\ a <= Len(s) /\ 0 <= b /\ 0 + 1 = 1 /\ a - 0 = a /\ b - 0 = b
  OBVIOUS
<1>1. p \in Seq(V) /\ Len(p) = a /\ \A i \in 1 .. a : p[i] = s[i]
  <2>1. /\ SubSeq(s, 0 + 1, a) \in Seq(V) /\ Len(SubSeq(s, 0 + 1, a)) = a - 0
        /\ \A i \in 1 .. a - 0 : SubSeq(s, 0 + 1, a)[i] = s[0 + i]
    BY <1>0, SubSeqIs
  <2>2. \A i \in 1 .. a : 0 + i = i
    OBVIOUS
  <2>. QED BY <1>0, <2>1, <2>2
<1>2. r \in Seq(V) /\ Len(r) = b /\ \A i \in 1 .. b : r[i] = s[i]
  <2>1. /\ SubSeq(s, 0 + 1, b) \in Seq(V) /\ Len(SubSeq(s, 0 + 1, b)) = b - 0
        /\ \A i \in 1 .. b - 0 : SubSeq(s, 0 + 1, b)[i] = s[0 + i]
    BY <1>0, SubSeqIs
  <2>2. \A i \in 1 .. b : 0 + i = i
    OBVIOUS
  <2>. QED BY <1>0, <2>1, <2>2
<1>3. q \in Seq(V) /\ Len(q) = b - a /\ \A i \in 1 .. b - a : q[i] = s[a + i]
  BY SubSeqIs
<1> HIDE DEF p, q, r
<1>4. t \in Seq(V) /\ Len(t) = b
      /\ \A i \in 1 .. b : t[i] = IF i <= a THEN p[i] ELSE q[i - a]
  <2>1. t \in Seq(V) /\ Len(t) = Len(p) + Len(q)
        /\ \A i \in 1 .. Len(p) + Len(q) : t[i] = IF i <= Len(p) THEN p[i] ELSE q[i - Len(p)]
    BY ZenonT(60), <1>1, <1>3, ConcatProperties
  <2>2. Len(p) + Len(q) = b
    BY <1>1, <1>3
  <2>. QED BY <1>1, <2>1, <2>2
<1> HIDE DEF t
<1>5. ASSUME NEW i \in 1 .. b PROVE t[i] = r[i]
  <2>1. CASE i <= a
    BY <1>1, <1>2, <1>4, <2>1
  <2>2. CASE ~(i <= a)
    <3>1. i - a \in 1 .. b - a /\ a + (i - a) = i
      BY <2>2
    <3>. QED BY <1>2, <1>3, <1>4, <2>2, <3>1
  <2>. QED BY <2>1, <2>2
<1>6. t = r
  BY <1>2, <1>4, <1>5, SameSequence
<1>. QED BY <1>6 DEF p, q, r, t

\* Pieces of a sequence, from its start to b[n], each from where the last one ended.
InPieces(g, s, b, n) ==
    /\ b[0] = 0
    /\ \A i \in 1 .. n : b[i] \in Nat /\ b[i - 1] <= b[i] /\ b[i] <= Len(s)
                         /\ g[i] = SubSeq(s, b[i - 1] + 1, b[i])

LEMMA PiecesJoin ==
    ASSUME NEW V, NEW s \in Seq(V), NEW n \in Nat, NEW b, NEW g, InPieces(g, s, b, n)
    PROVE  Seqs!FlattenSeq([i \in 1 .. n |-> g[i]]) = SubSeq(s, 1, b[n])
<1> DEFINE first(m) == [i \in 1 .. m |-> g[i]]
           good == {m \in 0 .. n : Seqs!FlattenSeq(first(m)) = SubSeq(s, 1, b[m])}
<1>1. b[0] = 0 /\ \A i \in 1 .. n : b[i] \in Nat /\ b[i - 1] <= b[i] /\ b[i] <= Len(s)
                         /\ g[i] = SubSeq(s, b[i - 1] + 1, b[i])
  BY DEF InPieces
<1>2. \A i \in 0 .. n : b[i] \in Nat
  <2>1. \A i \in 0 .. n : i = 0 \/ i \in 1 .. n
    OBVIOUS
  <2>. QED BY <1>1, <2>1
<1>3. \A i \in 1 .. n : g[i] \in Seq(V)
  <2>1. ASSUME NEW i \in 1 .. n PROVE g[i] \in Seq(V)
    <3>1. i - 1 \in 0 .. n
      OBVIOUS
    <3>2. b[i - 1] \in Nat /\ b[i] \in Nat /\ b[i - 1] <= b[i] /\ b[i] <= Len(s)
          /\ g[i] = SubSeq(s, b[i - 1] + 1, b[i])
      BY <1>1, <1>2, <3>1
    <3>. QED BY <3>2, SubSeqIs
  <2>. QED BY <2>1
<1>4. 0 \in good
  <2>1. 1 .. 0 = {} /\ 0 \in 0 .. n
    OBVIOUS
  <2>2. first(0) = <<>>
    BY <2>1
  <2>3. Seqs!FlattenSeq(first(0)) = <<>>
    BY <2>2, FlatEmpty
  <2>4. SubSeq(s, 1, 0) = <<>>
    BY <2>1
  <2> HIDE DEF first
  <2>. QED BY <1>1, <2>1, <2>3, <2>4
<1>5. ASSUME NEW m \in 0 .. n - 1, m \in good PROVE m + 1 \in good
  <2>1. m \in Nat /\ m + 1 \in 1 .. n /\ m \in 0 .. n /\ m + 1 \in 0 .. n /\ (m + 1) - 1 = m
    OBVIOUS
  <2>2. \A i \in 1 .. m + 1 : g[i] \in Seq(V)
    BY <1>3, <2>1
  <2>3. first(m) \in Seq(Seq(V)) /\ first(m + 1) = Append(first(m), g[m + 1])
    BY <2>1, <2>2, FamilyAppend
  <2>4. Seqs!FlattenSeq(first(m + 1)) = Seqs!FlattenSeq(first(m)) \o g[m + 1]
    <3>1. g[m + 1] \in Seq(V)
      BY <1>3, <2>1
    <3> HIDE DEF first
    <3>. QED BY <2>3, <3>1, FlatAppend
  <2>5. b[m] \in Nat /\ b[m + 1] \in Nat /\ b[m] <= b[m + 1] /\ b[m + 1] <= Len(s)
        /\ g[m + 1] = SubSeq(s, b[m] + 1, b[m + 1])
    BY <1>1, <1>2, <2>1
  <2>6. SubSeq(s, 1, b[m]) \o SubSeq(s, b[m] + 1, b[m + 1]) = SubSeq(s, 1, b[m + 1])
    BY <2>5, JoinPieces
  <2>7. Seqs!FlattenSeq(first(m)) = SubSeq(s, 1, b[m])
    BY <1>5
  <2> HIDE DEF first
  <2>. QED BY <2>1, <2>4, <2>5, <2>6, <2>7
<1>6. n \in good
  <2>1. n \in 0 .. n
    OBVIOUS
  <2> HIDE DEF good
  <2>. QED BY <1>4, <1>5, <2>1, StepByStep
<1>. QED BY <1>6

LEMMA MultiplesGrow ==
    ASSUME NEW size \in Nat, 1 <= size, NEW p \in Nat
    PROVE  p * size \in Nat /\ (p + 1) * size = p * size + size /\ p <= p * size /\ 0 * size = 0
  OBVIOUS

\* The pages of a sequence, of one size, as many as it has elements.
PageEnd(s, size, p) == IF p * size < Len(s) THEN p * size ELSE Len(s)
PageOf(s, size, p) == SubSeq(s, (p - 1) * size + 1, PageEnd(s, size, p))

LEMMA PagesJoin ==
    ASSUME NEW V, NEW s \in Seq(V), NEW size \in Nat, 1 <= size
    PROVE  Seqs!FlattenSeq([p \in 1 .. Len(s) |-> PageOf(s, size, p)]) = s
<1> DEFINE n == Len(s)
           b == [p \in 0 .. n |-> PageEnd(s, size, p)]
           g == [p \in 1 .. n |-> PageOf(s, size, p)]
<1>1. n \in Nat /\ DOMAIN s = 1 .. n
  OBVIOUS
<1>2. b[0] = 0
  <2>1. 0 * size = 0 /\ 0 \in 0 .. n
    BY <1>1, MultiplesGrow
  <2>2. b[0] = PageEnd(s, size, 0)
    BY <2>1
  <2>. QED BY <1>1, <2>1, <2>2 DEF PageEnd
<1>3. ASSUME NEW p \in 1 .. n
      PROVE  b[p] \in Nat /\ b[p - 1] <= b[p] /\ b[p] <= n /\ g[p] = SubSeq(s, b[p - 1] + 1, b[p])
  <2>1. p - 1 \in Nat /\ p - 1 \in 0 .. n /\ p \in 0 .. n /\ (p - 1) + 1 = p
    BY <1>1
  <2> DEFINE x == (p - 1) * size
             y == p * size
  <2>2. x \in Nat /\ y = x + size
    BY <2>1, MultiplesGrow
  <2>3. b[p - 1] = (IF x < n THEN x ELSE n) /\ b[p] = (IF y < n THEN y ELSE n)
        /\ g[p] = SubSeq(s, x + 1, IF y < n THEN y ELSE n)
    BY <2>1 DEF PageEnd, PageOf
  <2> HIDE DEF x, y, b, g, n
  <2>4. CASE x < n
    BY <1>1, <2>2, <2>3, <2>4
  <2>5. CASE ~(x < n)
    <3>1. b[p - 1] = n /\ b[p] = n
      BY <1>1, <2>2, <2>3, <2>5
    <3>2. g[p] = SubSeq(s, x + 1, n)
      BY <1>1, <2>2, <2>3, <2>5
    <3>3. SubSeq(s, x + 1, n) = <<>> /\ SubSeq(s, n + 1, n) = <<>>
      <4>1. x + 1 \in Int /\ n + 1 \in Int /\ n \in Int /\ n < x + 1 /\ n < n + 1
        BY <1>1, <2>2, <2>5
      <4>. QED BY <4>1, SubSeqEmpty
    <3>4. b[p] \in Nat /\ b[p - 1] <= b[p] /\ b[p] <= n
      BY <1>1, <3>1
    <3>5. g[p] = SubSeq(s, b[p - 1] + 1, b[p])
      BY <3>1, <3>2, <3>3, Zenon
    <3>. QED BY <3>4, <3>5
  <2>. QED BY <2>4, <2>5
<1>4. InPieces(g, s, b, n)
  <2> HIDE DEF b, g
  <2>. QED BY <1>2, <1>3 DEF InPieces
<1>5. Seqs!FlattenSeq([i \in 1 .. n |-> g[i]]) = SubSeq(s, 1, b[n])
  <2> HIDE DEF b, g
  <2>. QED BY <1>1, <1>4, PiecesJoin
<1>6. g = [i \in 1 .. n |-> g[i]]
  OBVIOUS
<1>7. b[n] = n
  <2>1. n \in 0 .. n /\ n <= n * size /\ n * size \in Nat
    BY <1>1, MultiplesGrow
  <2>2. b[n] = PageEnd(s, size, n)
    BY <2>1
  <2>3. PageEnd(s, size, n) = n
    <3>1. Len(s) = n
      OBVIOUS
    <3>2. PageEnd(s, size, n) = IF n * size < n THEN n * size ELSE n
      BY <3>1 DEF PageEnd
    <3> DEFINE y == n * size
    <3>3. y \in Nat /\ n <= y /\ PageEnd(s, size, n) = IF y < n THEN y ELSE n
      BY <2>1, <3>2
    <3> HIDE DEF y, n
    <3>. QED BY <1>1, <3>3
  <2>. QED BY <2>2, <2>3
<1>8. SubSeq(s, 1, n) = s
  BY SubSeqFull
<1> HIDE DEF g, b
<1>. QED BY <1>5, <1>6, <1>7, <1>8 DEF g

-----------------------------------------------------------------------------
(* Sequences that are picked from, in two steps *)

LEMMA FlatMapTyped ==
    ASSUME NEW V, NEW E, NEW f, Maps(f, E, Seq(V)), NEW s \in Seq(E)
    PROVE  FlatMap(f, s) \in Seq(V)
<1>1. Mapped(f, s) \in Seq(Seq(V))
  BY MapTyped
<1>. QED BY <1>1, FlatTyped DEF FlatMap

\* The first n elements of a sequence.
First(s, n) == [i \in 1 .. n |-> s[i]]

LEMMA FirstIs ==
    ASSUME NEW E, NEW s \in Seq(E)
    PROVE  /\ First(s, 0) = <<>> /\ First(s, Len(s)) = s /\ Len(s) \in Nat
           /\ \A n \in 0 .. Len(s) : First(s, n) \in Seq(E)
           /\ \A n \in 0 .. Len(s) - 1 : /\ n + 1 \in 1 .. Len(s) /\ s[n + 1] \in E
                                         /\ First(s, n + 1) = Append(First(s, n), s[n + 1])
<1>1. Len(s) \in Nat /\ DOMAIN s = 1 .. Len(s) /\ \A i \in 1 .. Len(s) : s[i] \in E
  OBVIOUS
<1>2. First(s, 0) = <<>>
  BY DEF First
<1>3. First(s, Len(s)) = s
  BY <1>1, SequenceIs DEF First
<1>4. ASSUME NEW n \in 0 .. Len(s) PROVE First(s, n) \in Seq(E)
  <2>1. n \in Nat /\ \A i \in 1 .. n : s[i] \in E
    BY <1>1
  <2>. QED BY <2>1 DEF First
<1>5. ASSUME NEW n \in 0 .. Len(s) - 1
      PROVE  n + 1 \in 1 .. Len(s) /\ s[n + 1] \in E
             /\ First(s, n + 1) = Append(First(s, n), s[n + 1])
  <2>1. n \in Nat /\ n + 1 \in 1 .. Len(s) /\ \A i \in 1 .. n + 1 : s[i] \in E
    BY <1>1
  <2>2. s[n + 1] \in E
    BY <1>1, <2>1
  <2>3. [i \in 1 .. n + 1 |-> s[i]] = Append([i \in 1 .. n |-> s[i]], s[n + 1])
    BY <2>1, FamilyAppend
  <2>. QED BY <2>1, <2>2, <2>3 DEF First
<1>. QED BY <1>1, <1>2, <1>3, <1>4, <1>5

\* What a function gives for each element, when it is one value, ...
LEMMA FlatMapOnes ==
    ASSUME NEW V, NEW E, NEW f, Maps(f, E, Seq(V)), NEW s \in Seq(E), NEW w \in Seq(V),
           Len(w) = Len(s), \A i \in 1 .. Len(s) : f[s[i]] = <<w[i]>>
    PROVE  FlatMap(f, s) = w
<1> DEFINE n == Len(s)
           good == {m \in 0 .. n : FlatMap(f, First(s, m)) = First(w, m)}
<1>1. 0 \in good
  <2>1. First(s, 0) = <<>> /\ First(w, 0) = <<>> /\ n \in Nat
    BY FirstIs
  <2>2. FlatMap(f, <<>>) = <<>>
    BY FlatMapEmpty
  <2>. QED BY <2>1, <2>2
<1>2. ASSUME NEW m \in 0 .. n - 1, m \in good PROVE m + 1 \in good
  <2> DEFINE r == First(s, m)
             e == s[m + 1]
             q == First(w, m)
             d == w[m + 1]
  <2>1. r \in Seq(E) /\ m + 1 \in 1 .. n /\ e \in E /\ First(s, m + 1) = Append(r, e)
    BY FirstIs
  <2>2. q \in Seq(V) /\ d \in V /\ First(w, m + 1) = Append(q, d)
    <3>1. m \in 0 .. Len(w) - 1 /\ m \in 0 .. Len(w)
      OBVIOUS
    <3>. QED BY <3>1, FirstIs
  <2>3. f[e] = <<d>> /\ FlatMap(f, r) = q
    BY <1>2, <2>1
  <2>4. m + 1 \in 0 .. n
    BY <2>1
  <2> HIDE DEF r, e, q, d, n
  <2>5. FlatMap(f, Append(r, e)) = FlatMap(f, r) \o f[e]
    BY <2>1, FlatMapAppend
  <2>6. q \o <<d>> = Append(q, d)
    BY <2>2
  <2>7. FlatMap(f, First(s, m + 1)) = First(w, m + 1)
    BY <2>1, <2>2, <2>3, <2>5, <2>6
  <2>. QED BY <2>4, <2>7
<1>3. n \in good
  <2>1. n \in Nat /\ n \in 0 .. n
    OBVIOUS
  <2> HIDE DEF good, n
  <2>. QED BY <1>1, <1>2, <2>1, StepByStep
<1>4. First(s, n) = s /\ First(w, n) = w
  BY FirstIs
<1>. QED BY <1>3, <1>4

\* ... and when it is none.
LEMMA FlatMapNone ==
    ASSUME NEW V, NEW E, NEW f, Maps(f, E, Seq(V)), NEW s \in Seq(E),
           \A i \in 1 .. Len(s) : f[s[i]] = <<>>
    PROVE  FlatMap(f, s) = <<>>
<1> DEFINE n == Len(s)
           good == {m \in 0 .. n : FlatMap(f, First(s, m)) = <<>>}
<1>1. 0 \in good
  <2>1. First(s, 0) = <<>> /\ n \in Nat
    BY FirstIs
  <2>2. FlatMap(f, <<>>) = <<>>
    BY FlatMapEmpty
  <2>. QED BY <2>1, <2>2
<1>2. ASSUME NEW m \in 0 .. n - 1, m \in good PROVE m + 1 \in good
  <2> DEFINE r == First(s, m)
             e == s[m + 1]
  <2>1. r \in Seq(E) /\ m + 1 \in 1 .. n /\ e \in E /\ First(s, m + 1) = Append(r, e)
    BY FirstIs
  <2>2. f[e] = <<>> /\ FlatMap(f, r) = <<>>
    BY <1>2, <2>1
  <2>3. m + 1 \in 0 .. n
    BY <2>1
  <2> HIDE DEF r, e, n
  <2>4. FlatMap(f, Append(r, e)) = FlatMap(f, r) \o f[e]
    BY <2>1, FlatMapAppend
  <2>5. FlatMap(f, First(s, m + 1)) = <<>>
    <3>1. <<>> \o <<>> = <<>>
      OBVIOUS
    <3>. QED BY <2>1, <2>2, <2>4, <3>1
  <2>. QED BY <2>3, <2>5
<1>3. n \in good
  <2>1. n \in Nat /\ n \in 0 .. n
    OBVIOUS
  <2> HIDE DEF good, n
  <2>. QED BY <1>1, <1>2, <2>1, StepByStep
<1>4. First(s, n) = s
  BY FirstIs
<1>. QED BY <1>3, <1>4

\* What is picked from what is made of each element is made of each element.
LEMMA FlatMapTwice ==
    ASSUME NEW V, NEW D, NEW E, NEW f, Maps(f, E, Seq(D)), NEW g, Maps(g, D, Seq(V)),
           NEW h, Maps(h, E, Seq(V)), NEW s \in Seq(E),
           \A i \in 1 .. Len(s) : FlatMap(g, f[s[i]]) = h[s[i]]
    PROVE  FlatMap(g, FlatMap(f, s)) = FlatMap(h, s)
<1> DEFINE n == Len(s)
           good == {m \in 0 .. n : FlatMap(g, FlatMap(f, First(s, m))) = FlatMap(h, First(s, m))}
<1>1. 0 \in good
  <2>1. First(s, 0) = <<>> /\ n \in Nat
    BY FirstIs
  <2>2. FlatMap(f, <<>>) = <<>> /\ FlatMap(g, <<>>) = <<>> /\ FlatMap(h, <<>>) = <<>>
    BY FlatMapEmpty
  <2>. QED BY <2>1, <2>2
<1>2. ASSUME NEW m \in 0 .. n - 1, m \in good PROVE m + 1 \in good
  <2> DEFINE r == First(s, m)
             e == s[m + 1]
  <2>1. r \in Seq(E) /\ m + 1 \in 1 .. n /\ e \in E /\ First(s, m + 1) = Append(r, e)
    BY FirstIs
  <2>2. FlatMap(g, f[e]) = h[e] /\ FlatMap(g, FlatMap(f, r)) = FlatMap(h, r)
    BY <1>2, <2>1
  <2> HIDE DEF r, e, n
  <2>3. FlatMap(f, Append(r, e)) = FlatMap(f, r) \o f[e] /\ FlatMap(f, r) \in Seq(D) /\ f[e] \in Seq(D)
    BY <2>1, FlatMapAppend
  <2>4. FlatMap(h, Append(r, e)) = FlatMap(h, r) \o h[e]
    BY <2>1, FlatMapAppend
  <2>5. FlatMap(g, FlatMap(f, r) \o f[e]) = FlatMap(g, FlatMap(f, r)) \o FlatMap(g, f[e])
    BY <2>3, FlatMapJoin
  <2>6. m + 1 \in 0 .. n
    BY <2>1
  <2>7. FlatMap(g, FlatMap(f, First(s, m + 1))) = FlatMap(h, First(s, m + 1))
    BY <2>1, <2>2, <2>3, <2>4, <2>5
  <2>. QED BY <2>6, <2>7
<1>3. n \in good
  <2>1. n \in Nat /\ n \in 0 .. n
    OBVIOUS
  <2> HIDE DEF good, n
  <2>. QED BY <1>1, <1>2, <2>1, StepByStep
<1>4. First(s, n) = s
  BY FirstIs
<1>. QED BY <1>3, <1>4

-----------------------------------------------------------------------------
(* The values a fold of a sequence goes through *)

Run(v, s, base, op) == v[0] = base /\ \A j \in 1 .. Len(s) : v[j] = op[v[j - 1]][s[j]]

\* A run to x, and what FoldLeft computes for the positions of a sequence.
RunTo(V, s, base, op, x) == \E v \in [0 .. Len(s) -> V] : Run(v, s, base, op) /\ v[Len(s)] = x
RunFolds(h, V, s, base, op) ==
    /\ \A t \in SUBSET (1 .. Len(s)) : h[t] \in V
    /\ h = [t \in SUBSET (1 .. Len(s)) |->
              IF t = {} THEN base ELSE op[h[t \ {Seqs!Max(t)}]][s[Seqs!Max(t)]]]
RunSteps(h, V, s, base, op) ==
    /\ h[1 .. 0] = base
    /\ \A j \in 1 .. Len(s) : h[1 .. j - 1] \in V => h[1 .. j] = op[h[1 .. j - 1]][s[j]]

LEMMA RunExists ==
    ASSUME NEW V, NEW E, NEW s \in Seq(E), NEW base \in V, NEW op \in [V -> [E -> V]]
    PROVE  \E h : RunFolds(h, V, s, base, op)
<1> DEFINE n == Len(s)
           g == [i \in 1 .. n |-> [x \in V |-> op[x][s[i]]]]
<1>1. n \in Nat /\ \A i \in 1 .. n : s[i] \in E
  OBVIOUS
<1>2. g \in [1 .. n -> [V -> V]] /\ \A i \in 1 .. n : \A x \in V : g[i][x] = op[x][s[i]]
  BY <1>1
<1>3. PICK h \in [SUBSET (1 .. n) -> V] : FoldsFrom(h, n, g, base)
  <2> HIDE DEF g, n
  <2>. QED BY <1>1, <1>2, LeftFoldExists
<1>4. ASSUME NEW t \in SUBSET (1 .. n)
      PROVE  h[t] = IF t = {} THEN base ELSE op[h[t \ {Seqs!Max(t)}]][s[Seqs!Max(t)]]
  <2>1. h[t] = IF t = {} THEN base ELSE g[Seqs!Max(t)][h[t \ {Seqs!Max(t)}]]
    BY <1>3 DEF FoldsFrom
  <2>2. t # {} => Seqs!Max(t) \in 1 .. n
    BY <1>1, LastPosition
  <2>3. h[t \ {Seqs!Max(t)}] \in V
    OBVIOUS
  <2> HIDE DEF g, n
  <2>. QED BY <1>2, <2>1, <2>2, <2>3
<1>. QED BY <1>3, <1>4 DEF RunFolds

LEMMA RunOf ==
    ASSUME NEW V, NEW E, NEW s \in Seq(E), NEW base \in V, NEW op \in [V -> [E -> V]], NEW h,
           RunSteps(h, V, s, base, op)
    PROVE  RunTo(V, s, base, op, h[1 .. Len(s)])
<1> DEFINE n == Len(s)
           v == [j \in 0 .. n |-> h[1 .. j]]
           good == {m \in 0 .. n : h[1 .. m] \in V}
<1>1. n \in Nat /\ \A i \in 1 .. n : s[i] \in E
  OBVIOUS
<1>2. 0 \in good
  BY <1>1 DEF RunSteps
<1>3. ASSUME NEW m \in 0 .. n - 1, m \in good PROVE m + 1 \in good
  <2>1. m + 1 \in 1 .. n /\ (m + 1) - 1 = m /\ m + 1 \in 0 .. n
    BY <1>1
  <2>2. h[1 .. m + 1] = op[h[1 .. m]][s[m + 1]]
    BY <1>3, <2>1 DEF RunSteps
  <2>3. h[1 .. m] \in V /\ s[m + 1] \in E
    BY <1>1, <1>3, <2>1
  <2>4. h[1 .. m + 1] \in V
    BY <2>2, <2>3
  <2>. QED BY <2>1, <2>4
<1>4. \A m \in 0 .. n : m \in good
  <2> HIDE DEF good, n
  <2>. QED BY <1>1, <1>2, <1>3, StepByStep
<1>5. v \in [0 .. n -> V]
  BY <1>4
<1>6. ASSUME NEW j \in 1 .. n PROVE v[j] = op[v[j - 1]][s[j]]
  <2>1. j \in 0 .. n /\ j - 1 \in 0 .. n
    BY <1>1
  <2>2. h[1 .. j - 1] \in V
    BY <1>4, <2>1
  <2>3. h[1 .. j] = op[h[1 .. j - 1]][s[j]]
    BY <2>2 DEF RunSteps
  <2>. QED BY <2>1, <2>3
<1>7. v[0] = base /\ v[n] = h[1 .. n]
  BY <1>1 DEF RunSteps
<1> HIDE DEF v
<1>. QED BY <1>5, <1>6, <1>7 DEF Run, RunTo

=============================================================================
