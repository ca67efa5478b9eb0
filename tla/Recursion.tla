------------------------------ MODULE Recursion ------------------------------
(***************************************************************************)
(* Induction on the natural numbers and definitions by recursion, in terms *)
(* of sets and functions, and what follows for the sequences, the folds    *)
(* and the divisions that the models are built from.                       *)
(***************************************************************************)
EXTENDS Integers, Sequences, SequencesExt, SequenceTheorems,
        FiniteSetTheorems, WellFoundedInduction, TLAPS

----------------------------------------------------------------------------
(* A set of natural numbers has a least one. *)
LEMMA LeastNumber ==
  ASSUME NEW T, T \subseteq Nat, T # {}
  PROVE  \E x \in T : \A y \in T : x <= y
<1> DEFINE below == {0..n : n \in T}
           R == StrictSubsetOrdering(Nat)
<1>1. below # {} /\ below \subseteq FiniteSubsetsOf(Nat)
  <2>1. \A n \in T : 0..n \in SUBSET Nat /\ IsFiniteSet(0..n)
    BY FS_Interval
  <2> QED
    BY <2>1 DEF FiniteSubsetsOf
<1>2. PICK s \in below : \A t \in below : <<t, s>> \notin R
  <2> HIDE DEF below, R
  <2>1. IsWellFoundedOn(R, FiniteSubsetsOf(Nat))
    BY FS_StrictSubsetOrderingWellFounded DEF R
  <2> QED
    BY <1>1, <2>1, WFMin
<1>3. PICK x \in T : s = 0..x
  OBVIOUS
<1>4. ASSUME NEW y \in T, y < x
      PROVE  FALSE
  <2>1. 0..y \in below /\ 0..y \subseteq 0..x /\ x \in 0..x /\ x \notin 0..y
    BY <1>4
  <2>2. <<0..y, 0..x>> \in R
    BY <2>1 DEF StrictSubsetOrdering
  <2> QED
    BY <1>2, <1>3, <2>1, <2>2
<1> QED
  BY <1>4

(* A set with 0, and with n + 1 if it has n, has all natural numbers. *)
LEMMA Induction ==
  ASSUME NEW S, 0 \in S, \A n \in Nat : n \in S => n + 1 \in S
  PROVE  Nat \subseteq S
<1> SUFFICES ASSUME Nat \ S # {}
             PROVE  FALSE
  OBVIOUS
<1>1. PICK x \in Nat \ S : \A y \in Nat \ S : x <= y
  BY LeastNumber
<1>2. x # 0 /\ x - 1 \in Nat /\ x - 1 < x
  BY <1>1
<1>3. x - 1 \in S
  BY <1>1, <1>2
<1> QED
  BY <1>1, <1>2, <1>3

(* The same, up to a number. *)
LEMMA InductionUpTo ==
  ASSUME NEW m \in Nat, NEW S, 0 \in S,
         \A n \in 0..(m - 1) : n \in S => n + 1 \in S
  PROVE  0..m \subseteq S
<1> DEFINE T == {n \in Nat : n <= m => n \in S}
<1>1. 0 \in T
  OBVIOUS
<1>2. \A n \in Nat : n \in T => n + 1 \in T
  OBVIOUS
<1>3. Nat \subseteq T
  <2> HIDE DEF T
  <2> QED
    BY <1>1, <1>2, Induction
<1> QED
  BY <1>3

----------------------------------------------------------------------------
LEMMA InductionFromOne ==
  ASSUME NEW m \in Nat, NEW S, 1 \in S,
         \A n \in 1..(m - 1) : n \in S => n + 1 \in S
  PROVE  1..m \subseteq S
<1> DEFINE T == {n \in Nat : n + 1 <= m => n + 1 \in S}
<1>1. 0 \in T
  OBVIOUS
<1>2. \A n \in Nat : n \in T => n + 1 \in T
  OBVIOUS
<1>3. Nat \subseteq T
  <2> HIDE DEF T
  <2> QED
    BY <1>1, <1>2, Induction
<1>4. ASSUME NEW i \in 1..m
      PROVE  i \in S
  <2>1. i - 1 \in Nat /\ (i - 1) + 1 = i /\ i <= m
    OBVIOUS
  <2> QED
    BY <1>3, <2>1
<1> QED
  BY <1>4

(* The first n values that a base and a step determine. *)
IsIterated(f, n, base, step) ==
  f[0] = base /\ \A i \in 0..(n - 1) : f[i + 1] = step[i][f[i]]

(* Two functions that are defined by the same recursion are the same. *)
LEMMA IteratedOnce ==
  ASSUME NEW base, NEW step, NEW f, NEW g,
         NEW n \in Nat, NEW m \in Nat, n <= m,
         IsIterated(f, n, base, step), IsIterated(g, m, base, step)
  PROVE  \A i \in 0..n : f[i] = g[i]
<1> DEFINE S == {i \in 0..n : f[i] = g[i]}
<1>1. 0 \in S
  BY DEF IsIterated
<1>2. ASSUME NEW i \in 0..(n - 1), i \in S
      PROVE  i + 1 \in S
  <2>1. i \in 0..(m - 1) /\ i + 1 \in 0..n /\ f[i] = g[i]
    BY <1>2
  <2>2. f[i + 1] = step[i][f[i]]
    BY DEF IsIterated
  <2>3. g[i + 1] = step[i][g[i]]
    BY <2>1 DEF IsIterated
  <2> QED
    BY <2>1, <2>2, <2>3
<1>3. 0..n \subseteq S
  <2> HIDE DEF S
  <2> QED
    BY <1>1, <1>2, InductionUpTo
<1> QED
  BY <1>3

(* There is a function with a given value at 0 and a given step. *)
Iterates(f, V, base, step) ==
  /\ f \in [Nat -> V]
  /\ f[0] = base
  /\ \A n \in Nat : f[n + 1] = step[n][f[n]]

(* What a recursion defines exists. *)
LEMMA IterationExists ==
  ASSUME NEW V, NEW base, NEW step, base \in V,
         \A n \in Nat : \A x \in V : step[n][x] \in V
  PROVE  \E f : Iterates(f, V, base, step)
<1> DEFINE Upto(n, f) == f \in [0..n -> V] /\ IsIterated(f, n, base, step)
           S == {n \in Nat : \E f : Upto(n, f)}
<1>1. 0 \in S
  <2>1. Upto(0, [i \in 0..0 |-> base])
    BY DEF IsIterated
  <2> QED
    BY <2>1
<1>2. ASSUME NEW n \in Nat, n \in S
      PROVE  n + 1 \in S
  <2>1. PICK f : Upto(n, f)
    BY <1>2
  <2> DEFINE g == [i \in 0..(n + 1) |->
                     IF i = n + 1 THEN step[n][f[n]] ELSE f[i]]
  <2>2. f[n] \in V /\ step[n][f[n]] \in V
    BY <2>1
  <2>3. g \in [0..(n + 1) -> V]
    BY <2>1, <2>2
  <2>4. g[0] = base
    BY <2>1 DEF IsIterated
  <2>5. ASSUME NEW i \in 0..n
        PROVE  g[i + 1] = step[i][g[i]]
    <3>1. CASE i = n
      <4>1. g[n + 1] = step[n][f[n]] /\ g[n] = f[n]
        OBVIOUS
      <4> QED
        BY <3>1, <4>1, Zenon
    <3>2. CASE i # n
      <4>1. i \in 0..(n - 1) /\ g[i] = f[i] /\ g[i + 1] = f[i + 1]
        BY <3>2
      <4> QED
        BY <2>1, <4>1 DEF IsIterated
    <3> QED
      BY <3>1, <3>2
  <2>6. (n + 1) - 1 = n
    OBVIOUS
  <2>7. Upto(n + 1, g)
    <3> HIDE DEF g
    <3> QED
      BY <2>3, <2>4, <2>5, <2>6 DEF IsIterated
  <2> QED
    BY <2>7
<1>3. \A n \in Nat : \E f : Upto(n, f)
  <2>1. Nat \subseteq S
    <3> HIDE DEF S
    <3> QED
      BY <1>1, <1>2, Induction
  <2> QED
    BY <2>1
<1> DEFINE F(n) == CHOOSE f : Upto(n, f)
           h == [n \in Nat |-> F(n)[n]]
<1>4. \A n \in Nat : Upto(n, F(n))
  BY <1>3
<1> HIDE DEF F
<1>5. h \in [Nat -> V]
  BY <1>4
<1>6. h[0] = base
  BY <1>4 DEF IsIterated
<1>7. ASSUME NEW n \in Nat
      PROVE  h[n + 1] = step[n][h[n]]
  <2>1. IsIterated(F(n), n, base, step)
        /\ IsIterated(F(n + 1), n + 1, base, step)
    BY <1>4
  <2>2. F(n)[n] = F(n + 1)[n]
    <3>1. ASSUME NEW m \in Nat, m = n + 1, NEW f, NEW g,
                 IsIterated(f, n, base, step), IsIterated(g, m, base, step)
          PROVE  f[n] = g[n]
      <4>1. n <= m /\ n \in 0..n
        BY <3>1
      <4>2. \A i \in 0..n : f[i] = g[i]
        BY <3>1, <4>1, IteratedOnce
      <4> QED
        BY <4>1, <4>2
    <3> QED
      BY <2>1, <3>1
  <2>3. F(n + 1)[n + 1] = step[n][F(n + 1)[n]]
    BY <2>1 DEF IsIterated
  <2> QED
    BY <2>2, <2>3
<1> QED
  BY <1>5, <1>6, <1>7 DEF Iterates

----------------------------------------------------------------------------
LEMMA FunctionIsSeq ==
  ASSUME NEW T, NEW n \in Nat, NEW f \in [1..n -> T]
  PROVE  f \in Seq(T) /\ Len(f) = n
<1>1. f \in Seq(T)
  BY SeqDef
<1>2. Len(f) \in Nat /\ DOMAIN f = 1..Len(f) /\ DOMAIN f = 1..n
  BY <1>1, LenProperties
<1> QED
  BY <1>1, <1>2

(* What FlattenSeq computes, from left to right. *)
Flattens(f, s, T) ==
  /\ f \in [1..Len(s) -> Seq(T)]
  /\ f[1] = s[1]
  /\ \A i \in 1..(Len(s) - 1) : f[i + 1] = f[i] \o s[i + 1]

(* The recursive function by which FlattenSeq is defined. *)
LEMMA FlattenFunction ==
  ASSUME NEW T, NEW s \in Seq(Seq(T)), s # <<>>
  PROVE  \E f : Flattens(f, s, T) /\ FlattenSeq(s) = f[Len(s)]
<1> DEFINE n == Len(s)
           IsIt(f) == f = [i \in 1..Len(s) |->
                             IF i = 1 THEN s[i] ELSE f[i - 1] \o s[i]]
<1>1. n \in Nat \ {0} /\ \A i \in 1..n : s[i] \in Seq(T)
  BY EmptySeq, ElementOfSeq
<1>2. \E f : IsIt(f)
  <2> DEFINE step == [i \in Nat |-> [x \in Seq(T) |->
                      IF i + 2 \in 1..n THEN x \o s[i + 2] ELSE x]]
  <2>1. /\ s[1] \in Seq(T)
        /\ \A i \in Nat : \A x \in Seq(T) : step[i][x] \in Seq(T)
    BY <1>1, ConcatProperties
  <2>2. PICK h : Iterates(h, Seq(T), s[1], step)
    <3> HIDE DEF step
    <3> QED
      BY <2>1, IterationExists
  <2> DEFINE f == [i \in 1..n |-> h[i - 1]]
  <2>3. ASSUME NEW i \in 1..n
        PROVE  f[i] = IF i = 1 THEN s[i] ELSE f[i - 1] \o s[i]
    <3>1. CASE i = 1
      BY <2>2, <3>1 DEF Iterates
    <3>2. CASE i # 1
      <4>1. i - 2 \in Nat /\ i - 1 \in 1..n /\ (i - 2) + 1 = i - 1
            /\ (i - 2) + 2 = i /\ (i - 1) - 1 = i - 2
        BY <1>1, <3>2
      <4>2. h[i - 1] = step[i - 2][h[i - 2]] /\ h[i - 2] \in Seq(T)
        <5> HIDE DEF step
        <5> QED
          BY <2>2, <4>1 DEF Iterates
      <4>3. step[i - 2][h[i - 2]] = h[i - 2] \o s[i]
        BY <4>1, <4>2
      <4> QED
        BY <3>2, <4>1, <4>2, <4>3
    <3> QED
      BY <3>1, <3>2
  <2>4. f = [i \in 1..n |-> IF i = 1 THEN s[i] ELSE f[i - 1] \o s[i]]
    <3>1. f = [i \in 1..n |-> f[i]]
      OBVIOUS
    <3> HIDE DEF f
    <3> QED
      BY <2>3, <3>1
  <2>5. IsIt(f)
    BY <2>4
  <2> QED
    BY <2>5
<1> DEFINE g == CHOOSE f : IsIt(f)
<1>3. IsIt(g)
  BY <1>2
<1>4. FlattenSeq(s) = g[n]
  BY <1>1 DEF FlattenSeq
<1> HIDE DEF g
<1>5. \A i \in 1..n : g[i] = IF i = 1 THEN s[i] ELSE g[i - 1] \o s[i]
  BY <1>3
<1>6. g[1] = s[1]
  BY <1>1, <1>5
<1>7. ASSUME NEW i \in 1..(n - 1)
      PROVE  g[i + 1] = g[i] \o s[i + 1]
  <2>1. i + 1 \in 1..n /\ i + 1 # 1 /\ (i + 1) - 1 = i
    BY <1>1
  <2> QED
    BY <1>5, <2>1
<1>8. \A i \in 1..n : g[i] \in Seq(T)
  <2> DEFINE S == {i \in 1..n : g[i] \in Seq(T)}
  <2>1. 1 \in S
    BY <1>1, <1>6
  <2>2. ASSUME NEW i \in 1..(n - 1), i \in S
        PROVE  i + 1 \in S
    <3>1. i + 1 \in 1..n /\ s[i + 1] \in Seq(T) /\ g[i] \in Seq(T)
      BY <1>1, <2>2
    <3>2. g[i] \o s[i + 1] \in Seq(T)
      BY <3>1, ConcatProperties
    <3> QED
      BY <1>7, <3>1, <3>2
  <2>3. 1..n \subseteq S
    <3> HIDE DEF S
    <3> QED
      BY <1>1, <2>1, <2>2, InductionFromOne
  <2> QED
    BY <2>3
<1>9. g \in [1..n -> Seq(T)]
  <2>1. g = [i \in 1..n |-> g[i]]
    BY <1>3
  <2> QED
    BY <1>8, <2>1
<1> QED
  BY <1>4, <1>6, <1>7, <1>9 DEF Flattens

(* What is flattened from the left, of a beginning of the sequence. *)
LEMMA FlattenOfFirst ==
  ASSUME NEW T, NEW s \in Seq(Seq(T)), NEW f, Flattens(f, s, T),
         NEW k \in 1..Len(s)
  PROVE  FlattenSeq(SubSeq(s, 1, k)) = f[k]
<1> DEFINE t == SubSeq(s, 1, k)
<1>1. Len(s) \in Nat /\ \A i \in 1..Len(s) : s[i] \in Seq(T)
  BY LenProperties, ElementOfSeq
<1>2. /\ t \in Seq(Seq(T)) /\ Len(t) = k
      /\ \A i \in 1..k : t[i] = s[i]
  <2>1. \A i \in 1..k : s[i] \in Seq(T)
    BY <1>1
  <2>2. 1 \in Int /\ k \in Int /\ 1 <= k /\ k - 1 + 1 = k
        /\ \A i \in Int : 1 + i - 1 = i
    BY <1>1
  <2> QED
    BY <2>1, <2>2, SubSeqProperties
<1> HIDE DEF t
<1>3. t # <<>> /\ k \in Nat
  BY <1>1, <1>2, EmptySeq
<1>4. PICK g : Flattens(g, t, T) /\ FlattenSeq(t) = g[Len(t)]
  BY <1>2, <1>3, FlattenFunction
<1>5. 1..k \subseteq {i \in 1..k : f[i] = g[i]}
  <2> DEFINE S == {i \in 1..k : f[i] = g[i]}
  <2>1. 1 \in S
    BY <1>1, <1>2, <1>4 DEF Flattens
  <2>2. ASSUME NEW i \in 1..(k - 1), i \in S
        PROVE  i + 1 \in S
    <3>1. i + 1 \in 1..k /\ i \in 1..(Len(s) - 1) /\ f[i] = g[i]
      BY <1>1, <2>2
    <3>2. f[i + 1] = f[i] \o s[i + 1]
      BY <3>1 DEF Flattens
    <3>3. g[i + 1] = g[i] \o t[i + 1]
      BY <1>2, <1>4 DEF Flattens
    <3> QED
      BY <1>2, <3>1, <3>2, <3>3
  <2> HIDE DEF S
  <2> QED
    BY <1>3, <2>1, <2>2, InductionFromOne DEF S
<1> QED
  BY <1>2, <1>4, <1>5 DEF t

LEMMA FlattenEmpty ==
  FlattenSeq(<<>>) = <<>>
BY DEF FlattenSeq

LEMMA FlattenType ==
  ASSUME NEW T, NEW s \in Seq(Seq(T))
  PROVE  FlattenSeq(s) \in Seq(T)
<1>1. CASE s = <<>>
  BY <1>1, FlattenEmpty, EmptySeq
<1>2. CASE s # <<>>
  <2>1. Len(s) \in Nat \ {0}
    BY <1>2, EmptySeq
  <2>2. PICK f : Flattens(f, s, T) /\ FlattenSeq(s) = f[Len(s)]
    BY <1>2, FlattenFunction
  <2> QED
    BY <2>1, <2>2, SMTT(30) DEF Flattens
<1> QED
  BY <1>1, <1>2

LEMMA FlattenOne ==
  ASSUME NEW T, NEW e \in Seq(T)
  PROVE  FlattenSeq(<<e>>) = e
<1>1. <<e>> \in Seq(Seq(T)) /\ <<e>> # <<>> /\ Len(<<e>>) = 1
      /\ <<e>>[1] = e
  OBVIOUS
<1>2. PICK f : Flattens(f, <<e>>, T) /\ FlattenSeq(<<e>>) = f[Len(<<e>>)]
  BY <1>1, FlattenFunction
<1> QED
  BY <1>1, <1>2 DEF Flattens

LEMMA FlattenAppend ==
  ASSUME NEW T, NEW s \in Seq(Seq(T)), NEW e \in Seq(T)
  PROVE  FlattenSeq(Append(s, e)) = FlattenSeq(s) \o e
<1> DEFINE t == Append(s, e)
<1>1. /\ t \in Seq(Seq(T)) /\ Len(t) = Len(s) + 1 /\ Len(s) \in Nat
      /\ \A i \in 1..Len(s) : t[i] = s[i]
      /\ t[Len(s) + 1] = e
      /\ t # <<>>
  <2>1. Len(s) \in Nat
    BY LenProperties
  <2>2. /\ t \in Seq(Seq(T)) /\ Len(t) = Len(s) + 1
        /\ \A i \in 1..Len(s) : t[i] = s[i]
        /\ t[Len(s) + 1] = e
    BY <2>1, AppendProperties
  <2> HIDE DEF t
  <2> QED
    BY <2>1, <2>2, EmptySeq
<1>2. CASE s = <<>>
  <2>1. t = <<e>>
    BY <1>2
  <2>2. FlattenSeq(s) \o e = e
    BY <1>2, FlattenEmpty, ConcatEmptySeq
  <2> QED
    BY <2>1, <2>2, FlattenOne
<1>3. CASE s # <<>>
  <2>0. Len(s) \in Nat \ {0}
    BY <1>3, EmptySeq
  <2>1. SubSeq(t, 1, Len(s)) = s
    <3>1. Len(s) \in 1..Len(t) /\ 1 \in 1..Len(t)
      BY <1>1, <2>0
    <3>2. \A i \in 1..Len(s) : t[i] \in Seq(T)
      BY <1>1, ElementOfSeq
    <3>3. /\ SubSeq(t, 1, Len(s)) \in Seq(Seq(T))
          /\ Len(SubSeq(t, 1, Len(s))) = Len(s)
          /\ \A i \in 1..Len(s) : SubSeq(t, 1, Len(s))[i] = t[i]
      <4> HIDE DEF t
      <4>1. 1 <= Len(s) /\ Len(s) - 1 + 1 = Len(s)
            /\ \A i \in Int : 1 + i - 1 = i
        BY <2>0
      <4> QED
        BY <2>0, <3>2, <4>1, SubSeqProperties
    <3> HIDE DEF t
    <3> QED
      BY <1>1, <3>3, SeqEqual
  <2> HIDE DEF t
  <2>2. PICK f : Flattens(f, t, T) /\ FlattenSeq(t) = f[Len(t)]
    BY <1>1, FlattenFunction
  <2>3. FlattenSeq(s) = f[Len(s)]
    <3>1. Len(s) \in 1..Len(t)
      BY <1>1, <2>0
    <3> QED
      BY <1>1, <2>1, <2>2, <3>1, FlattenOfFirst, ZenonT(30)
  <2>4. f[Len(s) + 1] = f[Len(s)] \o t[Len(s) + 1]
    <3>1. Len(s) \in 1..(Len(t) - 1)
      BY <1>1, <2>0
    <3> QED
      BY <2>2, <3>1 DEF Flattens
  <2> QED
    BY <1>1, <2>2, <2>3, <2>4 DEF t
<1> QED
  BY <1>2, <1>3

(* The sequence of sequences s \o t. *)
LEMMA FlattenConcat ==
  ASSUME NEW T, NEW s \in Seq(Seq(T)), NEW t \in Seq(Seq(T))
  PROVE  FlattenSeq(s \o t) = FlattenSeq(s) \o FlattenSeq(t)
<1> DEFINE S == {n \in Nat : \A u \in Seq(Seq(T)) :
                   Len(u) = n =>
                     FlattenSeq(s \o u) = FlattenSeq(s) \o FlattenSeq(u)}
<1>1. 0 \in S
  <2>1. ASSUME NEW u \in Seq(Seq(T)), Len(u) = 0
        PROVE  FlattenSeq(s \o u) = FlattenSeq(s) \o FlattenSeq(u)
    <3>1. u = <<>>
      BY <2>1, EmptySeq
    <3>2. s \o u = s
      BY <3>1, ConcatEmptySeq
    <3>3. FlattenSeq(s) \o <<>> = FlattenSeq(s)
      BY FlattenType, ConcatEmptySeq
    <3> QED
      BY <3>1, <3>2, <3>3, FlattenEmpty
  <2> QED
    BY <2>1
<1>2. ASSUME NEW n \in Nat, n \in S
      PROVE  n + 1 \in S
  <2>1. ASSUME NEW u \in Seq(Seq(T)), Len(u) = n + 1
        PROVE  FlattenSeq(s \o u) = FlattenSeq(s) \o FlattenSeq(u)
    <3>1. PICK w \in Seq(Seq(T)), e \in Seq(T) : u = Append(w, e)
      <4>1. u # <<>>
        BY <2>1
      <4> QED
        BY <4>1, SequenceEmptyOrAppend
    <3>2. Len(w) = n
      <4>1. Len(u) = Len(w) + 1 /\ Len(w) \in Nat
        BY <3>1, AppendProperties, LenProperties
      <4> QED
        BY <2>1, <4>1
    <3>3. FlattenSeq(s \o w) = FlattenSeq(s) \o FlattenSeq(w)
      BY <1>2, <3>2
    <3>4. s \o u = Append(s \o w, e) /\ s \o w \in Seq(Seq(T))
      <4>1. <<e>> \in Seq(Seq(T)) /\ u = w \o <<e>>
        BY <3>1, AppendIsConcat
      <4>2. s \o w \in Seq(Seq(T))
        BY ConcatProperties
      <4>3. (s \o w) \o <<e>> = s \o (w \o <<e>>)
        BY <4>1, ConcatAssociative, SMTT(30)
      <4>4. Append(s \o w, e) = (s \o w) \o <<e>>
        BY <4>2, AppendIsConcat
      <4> QED
        BY <4>1, <4>2, <4>3, <4>4
    <3>5. FlattenSeq(s \o u) = (FlattenSeq(s) \o FlattenSeq(w)) \o e
      BY <3>3, <3>4, FlattenAppend
    <3>6. FlattenSeq(u) = FlattenSeq(w) \o e
      BY <3>1, FlattenAppend
    <3>7. FlattenSeq(s) \in Seq(T) /\ FlattenSeq(w) \in Seq(T)
      BY FlattenType
    <3>8. (FlattenSeq(s) \o FlattenSeq(w)) \o e
            = FlattenSeq(s) \o (FlattenSeq(w) \o e)
      BY <3>7, ConcatAssociative, SMTT(30)
    <3> QED
      BY <3>5, <3>6, <3>8
  <2> QED
    BY <2>1
<1>3. Nat \subseteq S
  <2> HIDE DEF S
  <2> QED
    BY <1>1, <1>2, Induction
<1>4. Len(t) \in S
  BY <1>3, LenProperties
<1> QED
  BY <1>4

(* Sequences of the same length n, one after the other. *)
IsUniform(t, s, n) ==
  /\ Len(t) = Len(s) * n
  /\ \A i \in 1..Len(s), j \in 1..n : t[(i - 1) * n + j] = s[i][j]

(* Sequences of the same length, one after the other. *)
LEMMA FlattenUniform ==
  ASSUME NEW T, NEW n, NEW s, n \in Nat, s \in Seq(Seq(T)),
         \A i \in 1..Len(s) : Len(s[i]) = n
  PROVE  IsUniform(FlattenSeq(s), s, n)
<1> DEFINE S == {m \in Nat : \A u \in Seq(Seq(T)) :
                   Len(u) = m /\ (\A i \in 1..Len(u) : Len(u[i]) = n) =>
                     /\ Len(FlattenSeq(u)) = m * n
                     /\ \A i \in 1..m, j \in 1..n :
                          FlattenSeq(u)[(i - 1) * n + j] = u[i][j]}
<1>1. 0 \in S
  <2>1. ASSUME NEW u \in Seq(Seq(T)), Len(u) = 0
        PROVE  Len(FlattenSeq(u)) = 0 * n
    <3>1. u = <<>>
      BY <2>1, EmptySeq
    <3> QED
      BY <3>1, FlattenEmpty
  <2> QED
    BY <2>1
<1>2. ASSUME NEW m \in Nat, m \in S
      PROVE  m + 1 \in S
  <2>1. ASSUME NEW u \in Seq(Seq(T)), Len(u) = m + 1,
               \A i \in 1..Len(u) : Len(u[i]) = n
        PROVE  /\ Len(FlattenSeq(u)) = (m + 1) * n
               /\ \A i \in 1..(m + 1), j \in 1..n :
                    FlattenSeq(u)[(i - 1) * n + j] = u[i][j]
    <3>1. PICK w \in Seq(Seq(T)), e \in Seq(T) : u = Append(w, e)
      <4>1. u # <<>>
        BY <2>1
      <4> QED
        BY <4>1, SequenceEmptyOrAppend
    <3>2. /\ Len(w) = m /\ u[m + 1] = e
          /\ \A i \in 1..m : u[i] = w[i]
      <4>1. Len(u) = Len(w) + 1 /\ Len(w) \in Nat
        BY <3>1, AppendProperties, LenProperties
      <4>2. Len(w) = m
        BY <2>1, <4>1
      <4> QED
        BY <3>1, <4>2, AppendProperties
    <3>3. \A i \in 1..Len(w) : Len(w[i]) = n
      <4>1. \A i \in 1..m : i \in 1..(m + 1)
        OBVIOUS
      <4> QED
        BY <2>1, <3>2, <4>1
    <3>4. Len(e) = n
      <4>1. m + 1 \in 1..(m + 1)
        OBVIOUS
      <4> QED
        BY <2>1, <3>2, <4>1
    <3>5. /\ Len(FlattenSeq(w)) = m * n
          /\ \A i \in 1..m, j \in 1..n :
               FlattenSeq(w)[(i - 1) * n + j] = w[i][j]
      BY <1>2, <3>2, <3>3
    <3>6. FlattenSeq(u) = FlattenSeq(w) \o e
      BY <3>1, FlattenAppend
    <3>7. FlattenSeq(w) \in Seq(T) /\ m * n \in Nat /\ (m + 1) * n = m * n + n
      BY FlattenType
    <3>8. /\ Len(FlattenSeq(w) \o e) = m * n + n
          /\ \A k \in 1..(m * n + n) : (FlattenSeq(w) \o e)[k] =
               IF k <= m * n THEN FlattenSeq(w)[k] ELSE e[k - m * n]
      <4>1. /\ Len(FlattenSeq(w) \o e) = Len(FlattenSeq(w)) + Len(e)
            /\ \A k \in 1..(Len(FlattenSeq(w)) + Len(e)) :
                 (FlattenSeq(w) \o e)[k] =
                   IF k <= Len(FlattenSeq(w)) THEN FlattenSeq(w)[k]
                   ELSE e[k - Len(FlattenSeq(w))]
        BY <3>7, ConcatProperties
      <4>2. Len(FlattenSeq(w)) = m * n
        BY <3>5
      <4> QED
        BY <3>4, <4>1, <4>2, Zenon
    <3>9. ASSUME NEW i \in 1..(m + 1), NEW j \in 1..n
          PROVE  FlattenSeq(u)[(i - 1) * n + j] = u[i][j]
      <4>1. CASE i = m + 1
        <5>1. (i - 1) * n = m * n
          BY <4>1
        <5>2. /\ m * n + j \in 1..(m * n + n) /\ ~(m * n + j <= m * n)
              /\ m * n + j - m * n = j
          <6>1. \A x \in Nat : x + j \in 1..(x + n) /\ ~(x + j <= x)
                               /\ x + j - x = j
            OBVIOUS
          <6> QED
            BY <3>7, <6>1
        <5>3. (FlattenSeq(w) \o e)[m * n + j] = e[j]
          <6>1. (FlattenSeq(w) \o e)[m * n + j] =
                  IF m * n + j <= m * n THEN FlattenSeq(w)[m * n + j]
                  ELSE e[m * n + j - m * n]
            BY <3>8, <5>2
          <6> QED
            BY <5>2, <6>1
        <5> QED
          BY <3>2, <3>6, <4>1, <5>1, <5>3, Zenon
      <4>2. CASE i # m + 1
        <5>1. i \in 1..m
          BY <4>2
        <5>2. (i - 1) * n + j \in 1..(m * n)
          <6>1. PICK d \in Nat : m = i + d
            <7>1. m - i \in Nat /\ m = i + (m - i)
              BY <5>1
            <7> QED
              BY <7>1
          <6>2. /\ m * n = (i - 1) * n + n + d * n
                /\ (i - 1) * n \in Nat /\ d * n \in Nat
            BY <5>1, <6>1
          <6>3. \A a, b, c \in Nat : c = a + n + b => a + j \in 1..c
            OBVIOUS
          <6> QED
            BY <3>7, <6>2, <6>3
        <5>3. (i - 1) * n + j \in 1..(m * n + n) /\ (i - 1) * n + j <= m * n
          <6>1. \A x, y \in Nat : \A k \in 1..x : k \in 1..(x + y) /\ k <= x
            OBVIOUS
          <6> QED
            BY <3>7, <5>2, <6>1
        <5>4. FlattenSeq(u)[(i - 1) * n + j] = FlattenSeq(w)[(i - 1) * n + j]
          BY <3>6, <3>8, <5>3
        <5>5. FlattenSeq(w)[(i - 1) * n + j] = w[i][j]
          BY <3>5, <5>1
        <5> QED
          BY <3>2, <5>1, <5>4, <5>5
      <4> QED
        BY <4>1, <4>2
    <3> QED
      BY <3>6, <3>7, <3>8, <3>9
  <2> QED
    BY <2>1
<1>3. Nat \subseteq S
  <2> HIDE DEF S
  <2> QED
    BY <1>1, <1>2, Induction
<1>4. Len(s) \in S
  BY <1>3, LenProperties
<1> QED
  BY <1>4 DEF IsUniform

----------------------------------------------------------------------------
(* The sequences that a function has for the elements of a sequence. *)
Images(d, s) == [i \in 1..Len(s) |-> d[s[i]]]

HasImages(d, s, A, T) == d \in [A -> T] /\ s \in Seq(A)
AreImages(t, d, s, T) ==
  /\ t \in Seq(T)
  /\ Len(t) = Len(s)
  /\ \A i \in 1..Len(s) : t[i] = d[s[i]]

LEMMA ImagesType ==
  ASSUME NEW A, NEW T, NEW d, NEW s, HasImages(d, s, A, T)
  PROVE  AreImages(Images(d, s), d, s, T)
<1>0. d \in [A -> T] /\ s \in Seq(A)
  BY DEF HasImages
<1>1. Len(s) \in Nat /\ \A i \in 1..Len(s) : s[i] \in A
  BY <1>0, LenProperties, ElementOfSeq
<1>2. Images(d, s) \in [1..Len(s) -> T]
      /\ \A i \in 1..Len(s) : Images(d, s)[i] = d[s[i]]
  BY <1>0, <1>1 DEF Images
<1>3. Images(d, s) \in Seq(T) /\ Len(Images(d, s)) = Len(s)
  BY <1>1, <1>2, FunctionIsSeq
<1> QED
  BY <1>2, <1>3 DEF AreImages

LEMMA ImagesConcat ==
  ASSUME NEW A, NEW T, NEW d, NEW s, NEW t,
         HasImages(d, s, A, T), HasImages(d, t, A, T)
  PROVE  Images(d, s \o t) = Images(d, s) \o Images(d, t)
<1>0. d \in [A -> T] /\ s \in Seq(A) /\ t \in Seq(A)
  BY DEF HasImages
<1>1. /\ s \o t \in Seq(A) /\ Len(s \o t) = Len(s) + Len(t)
      /\ Len(s) \in Nat /\ Len(t) \in Nat
      /\ \A i \in 1..(Len(s) + Len(t)) :
           (s \o t)[i] = IF i <= Len(s) THEN s[i] ELSE t[i - Len(s)]
  BY <1>0, ConcatProperties, LenProperties
<1>2. /\ Images(d, s) \in Seq(T) /\ Len(Images(d, s)) = Len(s)
      /\ \A i \in 1..Len(s) : Images(d, s)[i] = d[s[i]]
  BY ImagesType DEF AreImages
<1>3. /\ Images(d, t) \in Seq(T) /\ Len(Images(d, t)) = Len(t)
      /\ \A i \in 1..Len(t) : Images(d, t)[i] = d[t[i]]
  BY ImagesType DEF AreImages
<1>4. /\ Images(d, s \o t) \in Seq(T)
      /\ Len(Images(d, s \o t)) = Len(s) + Len(t)
      /\ \A i \in 1..(Len(s) + Len(t)) :
           Images(d, s \o t)[i] = d[(s \o t)[i]]
  <2>1. HasImages(d, s \o t, A, T)
    BY <1>0, <1>1 DEF HasImages
  <2>2. AreImages(Images(d, s \o t), d, s \o t, T)
    BY <2>1, ImagesType
  <2> QED
    BY <1>1, <2>2 DEF AreImages
<1>5. /\ Images(d, s) \o Images(d, t) \in Seq(T)
      /\ Len(Images(d, s) \o Images(d, t)) = Len(s) + Len(t)
      /\ \A i \in 1..(Len(s) + Len(t)) :
           (Images(d, s) \o Images(d, t))[i] =
             IF i <= Len(s) THEN Images(d, s)[i] ELSE Images(d, t)[i - Len(s)]
  <2>1. ASSUME NEW u \in Seq(T), NEW w \in Seq(T),
               Len(u) = Len(s), Len(w) = Len(t)
        PROVE  /\ u \o w \in Seq(T)
               /\ Len(u \o w) = Len(s) + Len(t)
               /\ \A i \in 1..(Len(s) + Len(t)) :
                    (u \o w)[i] = IF i <= Len(s) THEN u[i] ELSE w[i - Len(s)]
    <3>1. /\ u \o w \in Seq(T)
          /\ Len(u \o w) = Len(u) + Len(w)
          /\ \A i \in 1..(Len(u) + Len(w)) :
               (u \o w)[i] = IF i <= Len(u) THEN u[i] ELSE w[i - Len(u)]
      BY ConcatProperties
    <3> QED
      BY <2>1, <3>1
  <2> QED
    BY <1>2, <1>3, <2>1
<1>6. ASSUME NEW i \in 1..(Len(s) + Len(t))
      PROVE  Images(d, s \o t)[i] = (Images(d, s) \o Images(d, t))[i]
  <2>1. CASE i <= Len(s)
    <3>1. i \in 1..Len(s)
      BY <1>1, <2>1
    <3>2. Images(d, s \o t)[i] = d[s[i]]
      BY <1>1, <1>4, <2>1
    <3>3. (Images(d, s) \o Images(d, t))[i] = Images(d, s)[i]
      BY <1>5, <2>1
    <3> QED
      BY <1>2, <3>1, <3>2, <3>3
  <2>2. CASE ~(i <= Len(s))
    <3>1. i - Len(s) \in 1..Len(t)
      BY <1>1, <2>2
    <3> QED
      BY <1>1, <1>3, <1>4, <1>5, <2>2, <3>1
  <2> QED
    BY <2>1, <2>2
<1> QED
  BY <1>4, <1>5, <1>6, SeqEqual

(* A part of a sequence. *)
LEMMA PartOfSeq ==
  ASSUME NEW A, NEW s, s \in Seq(A), NEW i, NEW j,
         i \in 1..(Len(s) + 1), j \in (i - 1)..Len(s)
  PROVE  /\ SubSeq(s, i, j) \in Seq(A)
         /\ Len(SubSeq(s, i, j)) = j - i + 1
         /\ \A k \in 1..(j - i + 1) : SubSeq(s, i, j)[k] = s[i + k - 1]
<1>1. Len(s) \in Nat /\ \A k \in 1..Len(s) : s[k] \in A
  BY LenProperties, ElementOfSeq
<1>2. i \in Int /\ j \in Int /\ \A k \in i..j : s[k] \in A
  BY <1>1
<1> QED
  BY <1>1, <1>2, SubSeqProperties

(* The images of a sequence, flattened, from the k-th on. *)
Splits(d, s, k) ==
  FlattenSeq(Images(d, s)) = FlattenSeq(Images(d, SubSeq(s, 1, k)))
                             \o FlattenSeq(Images(d, SubSeq(s, k + 1, Len(s))))

LEMMA FlattenSplit ==
  ASSUME NEW A, NEW T, NEW d, NEW s, NEW k, HasImages(d, s, A, Seq(T)),
         k \in 0..Len(s)
  PROVE  Splits(d, s, k)
<1>0. d \in [A -> Seq(T)] /\ s \in Seq(A)
  BY DEF HasImages
<1>1. Len(s) \in Nat
  BY <1>0, LenProperties
<1>2. SubSeq(s, 1, k) \in Seq(A) /\ SubSeq(s, k + 1, Len(s)) \in Seq(A)
  BY <1>0, <1>1, PartOfSeq
<1>3. s = SubSeq(s, 1, k) \o SubSeq(s, k + 1, Len(s))
  <2>1. 1 \in 1..(Len(s) + 1) /\ k \in 0..Len(s) /\ 1 - 1 = 0
        /\ Len(s) \in k..Len(s)
    BY <1>1
  <2>2. SubSeq(s, 1, k) \o SubSeq(s, k + 1, Len(s)) = SubSeq(s, 1, Len(s))
    BY <1>0, <2>1, ConcatAdjacentSubSeq
  <2>3. SubSeq(s, 1, Len(s)) = s
    BY <1>0, SubSeqFull
  <2> QED
    BY <2>2, <2>3
<1>4. Images(d, s) = Images(d, SubSeq(s, 1, k))
                     \o Images(d, SubSeq(s, k + 1, Len(s)))
  <2>1. ASSUME NEW u \in Seq(A), NEW w \in Seq(A), s = u \o w
        PROVE  Images(d, s) = Images(d, u) \o Images(d, w)
    <3>1. HasImages(d, u, A, Seq(T)) /\ HasImages(d, w, A, Seq(T))
      BY <1>0 DEF HasImages
    <3> QED
      BY <2>1, <3>1, ImagesConcat
  <2> QED
    BY <1>2, <1>3, <2>1
<1>5. /\ Images(d, SubSeq(s, 1, k)) \in Seq(Seq(T))
      /\ Images(d, SubSeq(s, k + 1, Len(s))) \in Seq(Seq(T))
  BY <1>0, <1>2, ImagesType DEF HasImages, AreImages
<1> QED
  BY <1>4, <1>5, FlattenConcat DEF Splits

SplitsFirst(d, s, k) ==
  FlattenSeq(Images(d, SubSeq(s, k, Len(s)))) =
    d[s[k]] \o FlattenSeq(Images(d, SubSeq(s, k + 1, Len(s))))

LEMMA FlattenFirst ==
  ASSUME NEW A, NEW T, NEW d, NEW s, NEW k, HasImages(d, s, A, Seq(T)),
         k \in 1..Len(s)
  PROVE  SplitsFirst(d, s, k)
<1>0. d \in [A -> Seq(T)] /\ s \in Seq(A)
  BY DEF HasImages
<1>1. Len(s) \in Nat /\ s[k] \in A
  BY <1>0, LenProperties, ElementOfSeq
<1>2. SubSeq(s, k + 1, Len(s)) \in Seq(A) /\ <<s[k]>> \in Seq(A)
  BY <1>0, <1>1, PartOfSeq
<1>3. SubSeq(s, k, Len(s)) = <<s[k]>> \o SubSeq(s, k + 1, Len(s))
  <2>1. Len(s) \in k..Len(s)
    BY <1>1
  <2> QED
    BY <1>0, <2>1, SubSeqRecursiveFirst
<1>4. Images(d, SubSeq(s, k, Len(s))) =
        Images(d, <<s[k]>>) \o Images(d, SubSeq(s, k + 1, Len(s)))
  <2>1. HasImages(d, <<s[k]>>, A, Seq(T))
        /\ HasImages(d, SubSeq(s, k + 1, Len(s)), A, Seq(T))
    BY <1>0, <1>2 DEF HasImages
  <2>2. Images(d, <<s[k]>> \o SubSeq(s, k + 1, Len(s))) =
          Images(d, <<s[k]>>) \o Images(d, SubSeq(s, k + 1, Len(s)))
    <3>1. ASSUME NEW u, NEW w, HasImages(d, u, A, Seq(T)),
                 HasImages(d, w, A, Seq(T))
          PROVE  Images(d, u \o w) = Images(d, u) \o Images(d, w)
      BY <3>1, ImagesConcat
    <3> QED
      BY <2>1, <3>1, Zenon
  <2> QED
    BY <1>3, <2>2
<1>5. /\ Images(d, <<s[k]>>) = <<d[s[k]]>> /\ d[s[k]] \in Seq(T)
      /\ Images(d, <<s[k]>>) \in Seq(Seq(T))
      /\ Images(d, SubSeq(s, k + 1, Len(s))) \in Seq(Seq(T))
  <2>1. Images(d, <<s[k]>>) = <<d[s[k]]>>
    BY DEF Images
  <2>2. d[s[k]] \in Seq(T)
    BY <1>0, <1>1
  <2>3. Images(d, SubSeq(s, k + 1, Len(s))) \in Seq(Seq(T))
    BY <1>0, <1>2, ImagesType DEF HasImages, AreImages
  <2>4. \A x \in Seq(T) : <<x>> \in Seq(Seq(T))
    OBVIOUS
  <2> QED
    BY <2>1, <2>2, <2>3, <2>4
<1>6. FlattenSeq(<<d[s[k]]>>) = d[s[k]]
  BY <1>5, FlattenOne
<1>7. FlattenSeq(<<d[s[k]]>> \o Images(d, SubSeq(s, k + 1, Len(s)))) =
        FlattenSeq(<<d[s[k]]>>)
        \o FlattenSeq(Images(d, SubSeq(s, k + 1, Len(s))))
  <2>1. ASSUME NEW u \in Seq(Seq(T)), NEW w \in Seq(Seq(T))
        PROVE  FlattenSeq(u \o w) = FlattenSeq(u) \o FlattenSeq(w)
    BY FlattenConcat
  <2>2. <<d[s[k]]>> \in Seq(Seq(T))
    BY <1>5, Zenon
  <2> QED
    BY <1>5, <2>1, <2>2, Zenon
<1> QED
  BY <1>4, <1>5, <1>6, <1>7 DEF SplitsFirst

LEMMA FlattenImagesType ==
  ASSUME NEW A, NEW T, NEW d, NEW s, HasImages(d, s, A, Seq(T))
  PROVE  FlattenSeq(Images(d, s)) \in Seq(T)
<1>1. Images(d, s) \in Seq(Seq(T))
  BY ImagesType DEF AreImages
<1> QED
  BY <1>1, FlattenType

----------------------------------------------------------------------------
(* What FoldLeft computes of a sum, from the last term of a set of them. *)
IsSum(f, n, base, v) ==
  f = [S \in SUBSET (1..n) |->
         IF S = {} THEN base ELSE f[S \ {Max(S)}] + v[Max(S)]]

(* A nonempty set of numbers up to n has a greatest one. *)
LEMMA LastOfSome ==
  ASSUME NEW n \in Nat, NEW S \in SUBSET (1..n), S # {}
  PROVE  Max(S) \in S /\ \A y \in S : Max(S) >= y
<1> DEFINE T == {n - x : x \in S}
<1>1. T \subseteq Nat /\ T # {}
  <2>1. \A x \in S : n - x \in Nat
    <3>1. \A x \in 1..n : n - x \in Nat
      OBVIOUS
    <3> QED
      BY <3>1
  <2>2. PICK x : x \in S
    OBVIOUS
  <2>3. n - x \in T
    BY <2>2
  <2> QED
    BY <2>1, <2>3
<1>2. PICK t \in T : \A y \in T : t <= y
  <2> HIDE DEF T
  <2> QED
    BY <1>1, LeastNumber
<1>3. PICK x \in S : t = n - x
  OBVIOUS
<1>4. x \in S /\ \A y \in S : x >= y
  <2>1. ASSUME NEW y \in S
        PROVE  x >= y
    <3>1. n - y \in T
      OBVIOUS
    <3>2. n - x <= n - y /\ x \in Int /\ y \in Int
      BY <1>2, <1>3, <3>1
    <3> QED
      BY <3>2
  <2> QED
    BY <2>1
<1>5. \E z \in S : \A y \in S : z >= y
  BY <1>3, <1>4
<1> QED
  BY <1>5, Zenon DEF Max

(* The recursive function by which a fold of a sum is defined. *)
LEMMA SumExists ==
  ASSUME NEW n \in Nat, NEW base \in Int, NEW v \in [1..n -> Int]
  PROVE  \E f : IsSum(f, n, base, v)
<1> DEFINE V == [SUBSET (1..n) -> Int]
           start == [S \in SUBSET (1..n) |-> base]
           step == [i \in Nat |-> [g \in V |->
                     [S \in SUBSET (1..n) |->
                       IF S = {} THEN base ELSE g[S \ {Max(S)}] + v[Max(S)]]]]
<1>0. \A S \in SUBSET (1..n) :
        S # {} => Max(S) \in S /\ S \ {Max(S)} \in SUBSET (1..n)
  BY LastOfSome
<1>1. start \in V
  OBVIOUS
<1>2. ASSUME NEW i \in Nat, NEW g \in V
      PROVE  step[i][g] \in V
  <2>1. step[i][g] = [S \in SUBSET (1..n) |->
                   IF S = {} THEN base ELSE g[S \ {Max(S)}] + v[Max(S)]]
    OBVIOUS
  <2>2. ASSUME NEW S \in SUBSET (1..n)
        PROVE  (IF S = {} THEN base ELSE g[S \ {Max(S)}] + v[Max(S)]) \in Int
    <3>1. CASE S = {}
      BY <3>1
    <3>2. CASE S # {}
      <4>1. Max(S) \in 1..n /\ S \ {Max(S)} \in SUBSET (1..n)
        BY <1>0, <3>2
      <4>2. v[Max(S)] \in Int /\ g[S \ {Max(S)}] \in Int
        BY <4>1
      <4> QED
        BY <3>2, <4>2
    <3> QED
      BY <3>1, <3>2
  <2> HIDE DEF step
  <2> QED
    BY <2>1, <2>2
<1>3. PICK h : Iterates(h, V, start, step)
  <2> HIDE DEF V, start, step
  <2> QED
    BY <1>1, <1>2, IterationExists
<1> DEFINE f == [S \in SUBSET (1..n) |-> h[Cardinality(S)][S]]
<1>4. ASSUME NEW S \in SUBSET (1..n)
      PROVE  f[S] = IF S = {} THEN base ELSE f[S \ {Max(S)}] + v[Max(S)]
  <2>1. IsFiniteSet(1..n)
    BY FS_Interval
  <2>2. IsFiniteSet(S) /\ Cardinality(S) \in Nat
    BY <2>1, FS_Subset, FS_CardinalityType
  <2>3. CASE S = {}
    <3>1. Cardinality(S) = 0
      BY <2>3, FS_EmptySet
    <3>2. h[0] = start
      BY <1>3 DEF Iterates
    <3> QED
      BY <2>3, <3>1, <3>2
  <2>4. CASE S # {}
    <3>1. Max(S) \in S /\ S \ {Max(S)} \in SUBSET (1..n)
      BY <1>0, <2>4
    <3>2. /\ IsFiniteSet(S \ {Max(S)})
          /\ Cardinality(S \ {Max(S)}) = Cardinality(S) - 1
      BY <2>2, <3>1, FS_RemoveElement
    <3>3. PICK k \in Nat : k = Cardinality(S \ {Max(S)})
      BY <3>2, FS_CardinalityType
    <3>4. Cardinality(S) = k + 1
      BY <2>2, <3>2, <3>3
    <3>5. h[k + 1] = step[k][h[k]] /\ h[k] \in V
      <4> HIDE DEF V, start, step
      <4> QED
        BY <1>3 DEF Iterates
    <3>6. step[k][h[k]] = [Q \in SUBSET (1..n) |->
             IF Q = {} THEN base ELSE h[k][Q \ {Max(Q)}] + v[Max(Q)]]
      BY <3>5
    <3>7. h[k + 1][S] = h[k][S \ {Max(S)}] + v[Max(S)]
      BY <2>4, <3>5, <3>6
    <3>8. f[S] = h[k + 1][S] /\ f[S \ {Max(S)}] = h[k][S \ {Max(S)}]
      BY <3>1, <3>3, <3>4
    <3> QED
      BY <2>4, <3>7, <3>8
  <2> QED
    BY <2>3, <2>4
<1>5. f = [S \in SUBSET (1..n) |->
             IF S = {} THEN base ELSE f[S \ {Max(S)}] + v[Max(S)]]
  <2>1. f = [S \in SUBSET (1..n) |-> f[S]]
    OBVIOUS
  <2> HIDE DEF f
  <2> QED
    BY <1>4, <2>1
<1> QED
  BY <1>5 DEF IsSum

(* The sum of the first terms, and of one more. *)
SumsUp(f, n, base, v) ==
  /\ f[1..0] = base
  /\ \A k \in 0..n : f[1..k] \in Int
  /\ \A k \in 1..n : f[1..k] = f[1..(k - 1)] + v[k]

LEMMA SumOfFirst ==
  ASSUME NEW n, NEW base, NEW v, NEW f, n \in Nat, base \in Int,
         v \in [1..n -> Int], IsSum(f, n, base, v)
  PROVE  SumsUp(f, n, base, v)
<1>1. \A S \in SUBSET (1..n) :
        f[S] = IF S = {} THEN base ELSE f[S \ {Max(S)}] + v[Max(S)]
  BY DEF IsSum
<1>2. 1..0 = {} /\ f[1..0] = base
  <2>1. 1..0 = {} /\ 1..0 \in SUBSET (1..n)
    OBVIOUS
  <2> QED
    BY <1>1, <2>1
<1>3. ASSUME NEW k \in 1..n
      PROVE  f[1..k] = f[1..(k - 1)] + v[k]
  <2>1. /\ 1..k \in SUBSET (1..n) /\ 1..k # {} /\ k \in 1..k
        /\ (1..k) \ {k} = 1..(k - 1)
    <3>1. 1..k \in SUBSET (1..n)
      OBVIOUS
    <3>2. (1..k) \ {k} = 1..(k - 1)
      OBVIOUS
    <3>3. k \in 1..k
      OBVIOUS
    <3> QED
      BY <3>1, <3>2, <3>3, Zenon
  <2>2. Max(1..k) \in 1..k /\ Max(1..k) >= k
    <3>1. Max(1..k) \in 1..k /\ \A y \in 1..k : Max(1..k) >= y
      BY <2>1, LastOfSome
    <3> QED
      BY <2>1, <3>1
  <2>3. Max(1..k) = k
    BY <2>2
  <2> QED
    BY <1>1, <2>1, <2>3
<1>4. 0..n \subseteq {k \in Nat : f[1..k] \in Int}
  <2> DEFINE S == {k \in Nat : f[1..k] \in Int}
  <2>1. 0 \in S
    BY <1>2
  <2>2. ASSUME NEW k \in 0..(n - 1), k \in S
        PROVE  k + 1 \in S
    <3>1. k + 1 \in 1..n /\ (k + 1) - 1 = k /\ f[1..k] \in Int
      BY <2>2
    <3>2. f[1..(k + 1)] = f[1..k] + v[k + 1] /\ v[k + 1] \in Int
      BY <1>3, <3>1
    <3> QED
      BY <3>1, <3>2
  <2> HIDE DEF S
  <2>3. 0..n \subseteq S
    BY <2>1, <2>2, InductionUpTo
  <2> QED
    BY <2>3 DEF S
<1> QED
  BY <1>2, <1>3, <1>4 DEF SumsUp

----------------------------------------------------------------------------
(* The numbers that a quotient and a remainder are of. *)
LEMMA Division ==
  ASSUME NEW a \in Int, NEW b \in Nat \ {0}
  PROVE  /\ a \div b \in Int /\ a % b \in 0..(b - 1)
         /\ a = b * (a \div b) + (a % b)
OBVIOUS

LEMMA DivisionIsUnique ==
  ASSUME NEW b \in Nat \ {0}, NEW q \in Int, NEW r \in 0..(b - 1)
  PROVE  (b * q + r) \div b = q /\ (b * q + r) % b = r
<1>1. PICK a \in Int : a = b * q + r
  OBVIOUS
<1>2. PICK x \in Int, y \in 0..(b - 1) :
        a \div b = x /\ a % b = y /\ a = b * x + y
  BY Division
<1>3. b * q - b * x = y - r
  BY <1>1, <1>2
<1>4. PICK d \in Int : q = x + d
  <2>1. q - x \in Int /\ q = x + (q - x)
    OBVIOUS
  <2> QED
    BY <2>1
<1>5. b * q = b * x + b * d
  BY <1>4
<1>6. b * d = y - r
  <2>1. \A bq, bx, bd \in Int : bq - bx = y - r /\ bq = bx + bd => bd = y - r
    OBVIOUS
  <2> QED
    BY <1>3, <1>5, <2>1
<1>7. ~(d >= 1)
  <2>1. d >= 1 => b * d >= b
    OBVIOUS
  <2> QED
    BY <1>6, <2>1
<1>8. ~(d <= -1)
  <2>1. d <= -1 => b * d <= 0 - b
    OBVIOUS
  <2> QED
    BY <1>6, <2>1
<1>9. d = 0
  BY <1>7, <1>8
<1>10. q = x /\ y = r
  <2>1. b * 0 = 0
    OBVIOUS
  <2> QED
    BY <1>4, <1>6, <1>9, <2>1
<1> QED
  BY <1>1, <1>2, <1>10

LEMMA Remainder ==
  ASSUME NEW a \in Nat, NEW b \in Nat \ {0}, a < b
  PROVE  a % b = a
<1>1. a \in 0..(b - 1) /\ b * 0 + a = a
  OBVIOUS
<1> QED
  BY <1>1, DivisionIsUnique
=============================================================================
