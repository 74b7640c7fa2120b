---------------------------- MODULE MrkdwnProofs ----------------------------
(***************************************************************************)
(* Theorems about Mrkdwn, for texts of any length: what the conversion     *)
(* takes out of a reply comes back (CodeComesBack), and so do the tables   *)
(* (TablesComeBack). What a fold computes is proved by induction over the  *)
(* sequence: the fold's recursive function exists (FoldExists), so what    *)
(* CHOOSE picks goes through one step per element (FoldPath, TraceStep).   *)
(* DataPathProofs uses the same lemmas.                                    *)
(***************************************************************************)
EXTENDS Mrkdwn, SequenceTheorems, FunctionTheorems, FiniteSetTheorems, TLAPS

-----------------------------------------------------------------------------
(* Induction and folds.                                                     *)

\* A set with 0 that is closed under successors has every natural number: an
\* injection of a finite set into itself is onto, so there is no least gap.
LEMMA Induction ==
  ASSUME NEW S, 0 \in S, \A n \in Nat : n \in S => n + 1 \in S
  PROVE  Nat \subseteq S
<1> SUFFICES ASSUME NEW m \in Nat, m \notin S PROVE FALSE
  OBVIOUS
<1> DEFINE T == S \cap (0..m)
           f == [n \in T |-> n + 1]
<1>1. IsFiniteSet(T)
  <2>1. IsFiniteSet(0..m) BY FS_Interval
  <2> QED BY <2>1, FS_Subset
<1>2. f \in [T -> T] /\ \A a, b \in T : f[a] = f[b] => a = b
  OBVIOUS
<1>3. f \in Injection(T, T)
  BY <1>2, Fun_IsInj
<1>4. f \in Surjection(T, T)
  BY <1>1, <1>3, FS_Injection
<1>5. 0 \in T
  OBVIOUS
<1>6. \E n \in T : f[n] = 0
  BY <1>4, <1>5 DEF Surjection
<1> QED BY <1>6

\* The maximum of a set of places is one of them, and no other is larger.
LEMMA MaxOf ==
  ASSUME NEW n \in Nat, NEW T \in SUBSET (1..n), T # {}
  PROVE  Max(T) \in T /\ \A k \in T : k <= Max(T)
<1> DEFINE S == {k \in Nat : \A U \in SUBSET (1..k) :
                   U # {} => \E m \in U : \A i \in U : m >= i}
<1>1. 0 \in S
  <2>1. 1..0 = {} OBVIOUS
  <2> QED BY <2>1
<1>2. ASSUME NEW k \in Nat, k \in S PROVE k + 1 \in S
  <2> SUFFICES ASSUME NEW U \in SUBSET (1..(k + 1)), U # {}
               PROVE  \E m \in U : \A i \in U : m >= i
    OBVIOUS
  <2>1. CASE k + 1 \in U
    BY <2>1
  <2>2. CASE k + 1 \notin U
    <3>1. U \in SUBSET (1..k) BY <2>2
    <3> QED BY <1>2, <3>1
  <2> QED BY <2>1, <2>2
<1>3. n \in S
  <2> HIDE DEF S
  <2> QED BY <1>1, <1>2, Induction
<1>4. \E m \in T : \A i \in T : m >= i
  BY <1>3
<1>5. Max(T) \in T /\ \A i \in T : Max(T) >= i
  BY <1>4 DEF Max
<1> QED BY <1>5

\* g folds F over the elements of s whose places are in T, in their order, as
\* FoldLeft of the community modules does.
IsFold(g, F, b, s) ==
  \A T \in SUBSET (1..Len(s)) :
    g[T] = IF T = {} THEN b ELSE F[<<g[T \ {Max(T)}], s[Max(T)]>>]

\* Such a function exists for every sequence.
LEMMA FoldExists ==
  ASSUME NEW St, NEW E, NEW F \in [St \X E -> St], NEW b \in St, NEW s \in Seq(E)
  PROVE  \E g \in [SUBSET (1..Len(s)) -> St] : IsFold(g, F, b, s)
<1> DEFINE Run(n, g) == \A T \in SUBSET (1..n) :
             g[T] = IF T = {} THEN b ELSE F[<<g[T \ {Max(T)}], s[Max(T)]>>]
           P(n) == \E g \in [SUBSET (1..n) -> St] : Run(n, g)
           S == {n \in Nat : n <= Len(s) => P(n)}
<1>0. Len(s) \in Nat
  BY LenProperties
<1>1. 0 \in S
  <2>1. [T \in SUBSET (1..0) |-> b] \in [SUBSET (1..0) -> St]
    OBVIOUS
  <2>2. Run(0, [T \in SUBSET (1..0) |-> b])
    <3>1. 1..0 = {} OBVIOUS
    <3> QED BY <3>1
  <2>3. P(0) BY <2>1, <2>2
  <2> HIDE DEF P
  <2> QED BY <2>3
<1>2. ASSUME NEW n \in Nat, n \in S PROVE n + 1 \in S
  <2> SUFFICES ASSUME n + 1 <= Len(s) PROVE P(n + 1)
    <3> HIDE DEF P
    <3> QED OBVIOUS
  <2>0. P(n)
    <3> HIDE DEF P
    <3> QED BY <1>0, <1>2
  <2>1. PICK g \in [SUBSET (1..n) -> St] : Run(n, g)
    BY <2>0
  <2> DEFINE h == [T \in SUBSET (1..(n + 1)) |->
                     IF n + 1 \in T THEN F[<<g[T \ {n + 1}], s[n + 1]>>] ELSE g[T]]
  <2> HIDE DEF S
  <2>2. ASSUME NEW T \in SUBSET (1..(n + 1)), n + 1 \in T
        PROVE  Max(T) = n + 1 /\ T \ {n + 1} \in SUBSET (1..n)
    <3>1. Max(T) \in T /\ \A k \in T : k <= Max(T)
      <4>1. n + 1 \in Nat /\ T # {} BY <2>2
      <4> QED BY <4>1, MaxOf
    <3>2. Max(T) \in 1..(n + 1) BY <3>1
    <3>3. Max(T) = n + 1 BY <2>2, <3>1, <3>2
    <3>4. T \ {n + 1} \in SUBSET (1..n) OBVIOUS
    <3> QED BY <3>3, <3>4
  <2>3. ASSUME NEW T \in SUBSET (1..(n + 1)), n + 1 \notin T
        PROVE  T \in SUBSET (1..n)
    BY <2>3
  <2>4. s[n + 1] \in E
    BY ElementOfSeq
  <2>5. h \in [SUBSET (1..(n + 1)) -> St]
    <3> SUFFICES ASSUME NEW T \in SUBSET (1..(n + 1))
                 PROVE  (IF n + 1 \in T THEN F[<<g[T \ {n + 1}], s[n + 1]>>] ELSE g[T]) \in St
      OBVIOUS
    <3>1. CASE n + 1 \in T
      <4>1. g[T \ {n + 1}] \in St BY <2>2, <3>1
      <4> QED BY <2>4, <3>1, <4>1
    <3>2. CASE n + 1 \notin T
      BY <2>3, <3>2
    <3> QED BY <3>1, <3>2
  <2>6. Run(n + 1, h)
    <3> SUFFICES ASSUME NEW T \in SUBSET (1..(n + 1))
                 PROVE  h[T] = IF T = {} THEN b ELSE F[<<h[T \ {Max(T)}], s[Max(T)]>>]
      OBVIOUS
    <3>1. CASE n + 1 \in T
      <4>1. Max(T) = n + 1 /\ T \ {n + 1} \in SUBSET (1..n) BY <2>2, <3>1
      <4>2. h[T \ {n + 1}] = g[T \ {n + 1}] BY <4>1
      <4>3. h[T] = F[<<g[T \ {n + 1}], s[n + 1]>>] BY <3>1
      <4> HIDE DEF h
      <4> QED BY <3>1, <4>1, <4>2, <4>3
    <3>2. CASE n + 1 \notin T
      <4>1. T \in SUBSET (1..n) BY <2>3, <3>2
      <4>2. h[T] = g[T] BY <3>2
      <4>3. CASE T = {}
        BY <2>1, <4>1, <4>2, <4>3
      <4>4. CASE T # {}
        <5>1. T \ {Max(T)} \in SUBSET (1..n) BY <4>1
        <5>2. h[T \ {Max(T)}] = g[T \ {Max(T)}] BY <3>2, <5>1
        <5> HIDE DEF h
        <5> QED BY <2>1, <4>1, <4>2, <4>4, <5>2
      <4> QED BY <4>3, <4>4
    <3> QED BY <3>1, <3>2
  <2> HIDE DEF h
  <2> QED BY <2>5, <2>6
<1>3. Len(s) \in S
  <2> HIDE DEF S
  <2> QED BY <1>0, <1>1, <1>2, Induction
<1>4. P(Len(s))
  <2> HIDE DEF P
  <2> QED BY <1>0, <1>3
<1> QED BY <1>4 DEF IsFold

\* The first n places without the last are the first n - 1.
LEMMA FirstOnes ==
  ASSUME NEW k \in Nat, NEW n \in 1..k
  PROVE  /\ 1..n \in SUBSET (1..k) /\ 1..n # {}
         /\ Max(1..n) = n
         /\ (1..n) \ {n} = 1..(n - 1)
<1>1. 1..n \in SUBSET (1..n) /\ 1..n # {} /\ n \in Nat
  OBVIOUS
<1>2. Max(1..n) \in 1..n /\ \A i \in 1..n : i <= Max(1..n)
  BY <1>1, MaxOf
<1> QED BY <1>2

\* What is known of a function CHOOSE has picked: F only where it is applied to
\* a state.
Folds(g, St, F, b, s) ==
  \A T \in SUBSET (1..Len(s)) :
    \/ T = {} /\ g[T] = b
    \/ T # {} /\ (g[T \ {Max(T)}] \in St => g[T] = F[<<g[T \ {Max(T)}], s[Max(T)]>>])

\* r is what has been computed after each element.
Path(r, g, F, b, s) ==
  /\ r[0] = b
  /\ \A n \in 1..Len(s) : r[n] = F[<<r[n - 1], s[n]>>]
  /\ \A n \in 0..Len(s) : r[n] = g[1..n]

\* A fold goes through one state of St after another.
LEMMA FoldPath ==
  ASSUME NEW St, NEW E, NEW F \in [St \X E -> St], NEW b \in St, NEW s \in Seq(E), NEW g,
         Folds(g, St, F, b, s)
  PROVE  \E r \in [0..Len(s) -> St] : Path(r, g, F, b, s)
<1>1. Len(s) \in Nat
  BY LenProperties
<1>2. g[1..0] = b
  <2>1. 1..0 = {} /\ 1..0 \in SUBSET (1..Len(s)) OBVIOUS
  <2> QED BY <2>1 DEF Folds
<1>3. ASSUME NEW n \in 1..Len(s), g[1..(n - 1)] \in St
      PROVE  g[1..n] = F[<<g[1..(n - 1)], s[n]>>] /\ g[1..n] \in St
  <2>1. /\ 1..n \in SUBSET (1..Len(s)) /\ 1..n # {}
        /\ Max(1..n) = n
        /\ (1..n) \ {n} = 1..(n - 1)
    BY <1>1, FirstOnes
  <2>2. g[1..n] = F[<<g[1..(n - 1)], s[n]>>]
    BY <1>3, <2>1 DEF Folds
  <2>3. s[n] \in E
    BY ElementOfSeq
  <2> QED BY <1>3, <2>2, <2>3
<1>4. ASSUME NEW n \in 0..Len(s) PROVE g[1..n] \in St
  <2> DEFINE S == {k \in Nat : k <= Len(s) => g[1..k] \in St}
  <2>1. 0 \in S BY <1>2
  <2>2. ASSUME NEW k \in Nat, k \in S PROVE k + 1 \in S
    <3> SUFFICES ASSUME k + 1 <= Len(s) PROVE g[1..(k + 1)] \in St
      OBVIOUS
    <3>1. k + 1 \in 1..Len(s) /\ (k + 1) - 1 = k BY <1>1
    <3>2. g[1..k] \in St BY <1>1, <2>2
    <3> QED BY <1>3, <3>1, <3>2
  <2> HIDE DEF S
  <2>3. n \in Nat BY <1>1
  <2>4. n \in S BY <2>1, <2>2, <2>3, Induction
  <2> QED BY <1>1, <2>4 DEF S
<1> DEFINE r == [n \in 0..Len(s) |-> g[1..n]]
<1>5. r \in [0..Len(s) -> St]
  BY <1>4
<1>6. ASSUME NEW n \in 1..Len(s) PROVE r[n] = F[<<r[n - 1], s[n]>>]
  <2>1. n \in 0..Len(s) /\ n - 1 \in 0..Len(s) BY <1>1
  <2>2. g[1..n] = F[<<g[1..(n - 1)], s[n]>>] BY <1>3, <1>4, <2>1
  <2> QED BY <2>1, <2>2
<1>7. r[0] = b /\ \A n \in 0..Len(s) : r[n] = g[1..n]
  BY <1>1, <1>2
<1> HIDE DEF r
<1> QED BY <1>5, <1>6, <1>7 DEF Path

-----------------------------------------------------------------------------
(* Sequences.                                                               *)

\* A set of sequences with the empty one that is closed under Append has them all.
LEMMA SeqInduction ==
  ASSUME NEW E, NEW P, <<>> \in P,
         \A s \in Seq(E) : \A e \in E : s \in P => Append(s, e) \in P
  PROVE  Seq(E) \subseteq P
<1> DEFINE S == {n \in Nat : \A s \in Seq(E) : Len(s) = n => s \in P}
<1>1. 0 \in S
  BY EmptySeq
<1>2. ASSUME NEW n \in Nat, n \in S PROVE n + 1 \in S
  <2> SUFFICES ASSUME NEW s \in Seq(E), Len(s) = n + 1 PROVE s \in P
    OBVIOUS
  <2>1. s # <<>>
    BY EmptySeq
  <2>2. PICK t \in Seq(E), e \in E : s = Append(t, e)
    BY <2>1, SequenceEmptyOrAppend
  <2>3. Len(t) \in Nat /\ Len(s) = Len(t) + 1
    BY <2>2, LenProperties, AppendProperties
  <2>4. Len(t) = n
    BY <2>3
  <2> QED BY <1>2, <2>2, <2>4
<1> SUFFICES ASSUME NEW s \in Seq(E) PROVE s \in P
  OBVIOUS
<1>3. Len(s) \in Nat
  BY LenProperties
<1>4. Len(s) \in S
  <2> HIDE DEF S
  <2> QED BY <1>1, <1>2, <1>3, Induction
<1> QED BY <1>4

\* Append goes to the second of two sequences.
LEMMA AppendToConcat ==
  ASSUME NEW E, NEW s \in Seq(E), NEW t \in Seq(E), NEW e \in E
  PROVE  s \o Append(t, e) = Append(s \o t, e)
<1>1. Append(t, e) = t \o <<e>> /\ <<e>> \in Seq(E)
  BY AppendIsConcat
<1>2. s \o t \in Seq(E)
  BY ConcatProperties
<1>3. Append(s \o t, e) = (s \o t) \o <<e>>
  BY <1>2, AppendIsConcat
<1>4. (s \o t) \o <<e>> = s \o (t \o <<e>>)
  BY <1>1, ConcatAssociative
<1> QED BY <1>1, <1>3, <1>4

\* r holds the results of folding the first elements of s with F, from b on.
Trace(r, F, b, s, St) ==
  /\ r \in [0..Len(s) -> St]
  /\ r[0] = b
  /\ \A n \in 1..Len(s) : r[n] = F[<<r[n - 1], s[n]>>]

\* t is s with one element more.
Longer(t, s, e) == t = Append(s, e)

\* What q holds in the end is one step from what r holds.
OneStep(q, t, r, s, e, F, St) == r[Len(s)] \in St /\ q[Len(t)] = F[<<r[Len(s)], e>>]

\* One element more takes the computation one step further.
LEMMA TraceStep ==
  ASSUME NEW St, NEW E, NEW F, NEW b, NEW s \in Seq(E), NEW e \in E, NEW t, Longer(t, s, e),
         NEW r, Trace(r, F, b, s, St), NEW q, Trace(q, F, b, t, St)
  PROVE  OneStep(q, t, r, s, e, F, St)
<1>1. Len(s) \in Nat /\ t \in Seq(E) /\ Len(t) = Len(s) + 1
  BY LenProperties, AppendProperties DEF Longer
<1>2. t[Len(s) + 1] = e /\ \A n \in 1..Len(s) : t[n] = s[n]
  BY AppendProperties DEF Longer
<1>3. Trace(q, F, b, t, St)
  OBVIOUS
<1> DEFINE S == {n \in Nat : n <= Len(s) => q[n] = r[n]}
<1>4. 0 \in S
  BY <1>3 DEF Trace
<1>5. ASSUME NEW n \in Nat, n \in S PROVE n + 1 \in S
  <2> SUFFICES ASSUME n + 1 <= Len(s) PROVE q[n + 1] = r[n + 1]
    OBVIOUS
  <2>1. n + 1 \in 1..Len(s) /\ n + 1 \in 1..Len(t) /\ (n + 1) - 1 = n /\ q[n] = r[n]
    BY <1>1, <1>5
  <2>2. r[n + 1] = F[<<r[n], s[n + 1]>>]
    BY <2>1 DEF Trace
  <2>3. q[n + 1] = F[<<q[n], t[n + 1]>>]
    BY <1>3, <2>1 DEF Trace
  <2> QED BY <1>2, <2>1, <2>2, <2>3
<1>6. q[Len(s)] = r[Len(s)]
  <2> HIDE DEF S
  <2>1. Len(s) \in S BY <1>1, <1>4, <1>5, Induction
  <2> QED BY <1>1, <2>1 DEF S
<1>7. q[Len(t)] = F[<<q[Len(s)], t[Len(t)]>>]
  <2>1. Len(s) + 1 \in 1..Len(t) /\ (Len(s) + 1) - 1 = Len(s) BY <1>1
  <2>2. q[Len(s) + 1] = F[<<q[Len(s)], t[Len(s) + 1]>>] BY <1>3, <2>1 DEF Trace
  <2> QED BY <1>1, <2>2
<1>8. r[Len(s)] \in St
  <2>1. Len(s) \in 0..Len(s) BY <1>1
  <2> QED BY <2>1 DEF Trace
<1>9. q[Len(t)] = F[<<r[Len(s)], e>>]
  BY <1>1, <1>2, <1>6, <1>7
<1> QED BY <1>8, <1>9 DEF OneStep

\* Every atom a of t replaced by sub[a].
Expand(t, sub) == FoldLeft(LAMBDA out, a : out \o sub[a], <<>>, t)

\* How often a is in t.
Count(t, a) == FoldLeft(LAMBDA n, x : IF x = a THEN n + 1 ELSE n, 0, t)

\* The step of Expand as a function.
ExpandFun(A, sub) == [p \in Seq(A) \X A |-> p[1] \o sub[p[2]]]

\* Expand is computed element by element.
LEMMA ExpandRun ==
  ASSUME NEW A, NEW sub \in [A -> Seq(A)], NEW s \in Seq(A)
  PROVE  \E r : Trace(r, ExpandFun(A, sub), <<>>, s, Seq(A)) /\ Expand(s, sub) = r[Len(s)]
<1> DEFINE F == ExpandFun(A, sub)
           Step(g) == [T \in SUBSET DOMAIN s |->
                         IF T = {} THEN <<>> ELSE g[T \ {Max(T)}] \o sub[s[Max(T)]]]
           it == CHOOSE g : g = Step(g)
<1>1. Len(s) \in Nat /\ DOMAIN s = 1..Len(s)
  BY LenProperties
<1>2. ASSUME NEW x \in Seq(A), NEW y \in A PROVE x \o sub[y] \in Seq(A)
  <2>1. sub[y] \in Seq(A) OBVIOUS
  <2> QED BY <2>1, ConcatProperties
<1>3. F \in [Seq(A) \X A -> Seq(A)]
  BY <1>2 DEF ExpandFun
<1>4. ASSUME NEW x \in Seq(A), NEW y \in A PROVE F[<<x, y>>] = x \o sub[y]
  BY DEF ExpandFun
<1>5. ASSUME NEW T \in SUBSET (1..Len(s)), T # {} PROVE s[Max(T)] \in A
  <2>1. Max(T) \in 1..Len(s) BY <1>1, <1>5, MaxOf
  <2> QED BY <2>1, ElementOfSeq
<1>6. <<>> \in Seq(A)
  BY EmptySeq
<1> HIDE DEF F
<1>7. \E g : g = Step(g)
  <2>1. PICK g \in [SUBSET (1..Len(s)) -> Seq(A)] : IsFold(g, F, <<>>, s)
    BY <1>3, <1>6, FoldExists
  <2>2. ASSUME NEW T \in SUBSET (1..Len(s)), T # {}
        PROVE  F[<<g[T \ {Max(T)}], s[Max(T)]>>] = g[T \ {Max(T)}] \o sub[s[Max(T)]]
    BY <1>4, <1>5, <2>2
  <2>3. g = Step(g) BY <1>1, <2>1, <2>2 DEF IsFold
  <2> QED BY <2>3
<1>8. it = Step(it)
  <2> HIDE DEF Step
  <2> QED BY <1>7
<1>9. Expand(s, sub) = it[DOMAIN s]
  BY DEF FoldLeft, MapThenFoldSet, Expand
<1> HIDE DEF it
<1>10. Folds(it, Seq(A), F, <<>>, s)
  <2>1. ASSUME NEW T \in SUBSET (1..Len(s))
        PROVE  it[T] = IF T = {} THEN <<>> ELSE it[T \ {Max(T)}] \o sub[s[Max(T)]]
    BY <1>1, <1>8
  <2> QED BY <1>4, <1>5, <2>1 DEF Folds
<1>11. PICK r \in [0..Len(s) -> Seq(A)] : Path(r, it, F, <<>>, s)
  BY <1>3, <1>6, <1>10, FoldPath, ZenonT(60)
<1>12. Trace(r, F, <<>>, s, Seq(A)) /\ it[1..Len(s)] = r[Len(s)]
  <2>1. Len(s) \in 0..Len(s) BY <1>1
  <2> QED BY <1>11, <2>1 DEF Path, Trace
<1>13. Expand(s, sub) = r[Len(s)]
  BY <1>1, <1>9, <1>12
<1> QED BY <1>12, <1>13 DEF F

\* What Expand does with one atom more.
LEMMA ExpandStep ==
  ASSUME NEW A, NEW sub \in [A -> Seq(A)], NEW s \in Seq(A), NEW e \in A
  PROVE  Expand(s, sub) \in Seq(A) /\ Expand(Append(s, e), sub) = Expand(s, sub) \o sub[e]
<1> DEFINE F == ExpandFun(A, sub)
           t == Append(s, e)
<1>1. PICK r : Trace(r, F, <<>>, s, Seq(A)) /\ Expand(s, sub) = r[Len(s)]
  BY ExpandRun
<1>2. t \in Seq(A) /\ Longer(t, s, e)
  BY AppendProperties DEF Longer
<1> HIDE DEF t
<1>3. PICK q : Trace(q, F, <<>>, t, Seq(A)) /\ Expand(t, sub) = q[Len(t)]
  BY <1>2, ExpandRun
<1> HIDE DEF F
<1>4. r[Len(s)] \in Seq(A) /\ q[Len(t)] = F[<<r[Len(s)], e>>]
  <2>1. OneStep(q, t, r, s, e, F, Seq(A)) BY <1>1, <1>2, <1>3, TraceStep
  <2> QED BY <2>1 DEF OneStep
<1>5. ASSUME NEW x \in Seq(A) PROVE F[<<x, e>>] = x \o sub[e]
  BY DEF F, ExpandFun
<1>6. Expand(s, sub) \in Seq(A) /\ F[<<Expand(s, sub), e>>] = Expand(s, sub) \o sub[e]
  BY <1>1, <1>4, <1>5
<1>7. Expand(t, sub) = F[<<Expand(s, sub), e>>]
  BY <1>1, <1>3, <1>4
<1>8. Expand(t, sub) = Expand(s, sub) \o sub[e]
  BY <1>6, <1>7
<1> QED BY <1>6, <1>8 DEF t

\* The empty text expands to itself.
LEMMA ExpandBase ==
  ASSUME NEW A, NEW sub \in [A -> Seq(A)]
  PROVE  Expand(<<>>, sub) = <<>>
<1> DEFINE t == <<>>
<1>1. t \in Seq(A) /\ Len(t) = 0
  BY EmptySeq
<1> HIDE DEF t
<1>2. PICK r : Trace(r, ExpandFun(A, sub), <<>>, t, Seq(A)) /\ Expand(t, sub) = r[Len(t)]
  BY <1>1, ExpandRun
<1>3. Expand(t, sub) = <<>>
  BY <1>1, <1>2 DEF Trace
<1> QED BY <1>3 DEF t

\* The step of Count as a function.
CountFun(A, a) == [p \in Nat \X A |-> (IF p[2] = a THEN p[1] + 1 ELSE p[1])]

\* Count is computed element by element.
LEMMA CountRun ==
  ASSUME NEW A, NEW a, NEW s \in Seq(A)
  PROVE  \E r : Trace(r, CountFun(A, a), 0, s, Nat) /\ Count(s, a) = r[Len(s)]
<1> DEFINE F == CountFun(A, a)
           Step(g) == [T \in SUBSET DOMAIN s |->
                         IF T = {} THEN 0 ELSE (IF s[Max(T)] = a THEN g[T \ {Max(T)}] + 1 ELSE g[T \ {Max(T)}])]
           it == CHOOSE g : g = Step(g)
<1>1. Len(s) \in Nat /\ DOMAIN s = 1..Len(s)
  BY LenProperties
<1>2. ASSUME NEW x \in Nat, NEW y \in A PROVE (IF y = a THEN x + 1 ELSE x) \in Nat
  OBVIOUS
<1>3. F \in [Nat \X A -> Nat]
  BY <1>2 DEF CountFun
<1>4. ASSUME NEW x \in Nat, NEW y \in A PROVE F[<<x, y>>] = (IF y = a THEN x + 1 ELSE x)
  BY DEF CountFun
<1>5. ASSUME NEW T \in SUBSET (1..Len(s)), T # {} PROVE s[Max(T)] \in A
  <2>1. Max(T) \in 1..Len(s) BY <1>1, <1>5, MaxOf
  <2> QED BY <2>1, ElementOfSeq
<1>6. 0 \in Nat
  OBVIOUS
<1> HIDE DEF F
<1>7. \E g : g = Step(g)
  <2>1. PICK g \in [SUBSET (1..Len(s)) -> Nat] : IsFold(g, F, 0, s)
    BY <1>3, <1>6, FoldExists
  <2>2. ASSUME NEW T \in SUBSET (1..Len(s)), T # {}
        PROVE  F[<<g[T \ {Max(T)}], s[Max(T)]>>] = (IF s[Max(T)] = a THEN g[T \ {Max(T)}] + 1 ELSE g[T \ {Max(T)}])
    BY <1>4, <1>5, <2>2
  <2>3. g = Step(g) BY <1>1, <2>1, <2>2 DEF IsFold
  <2> QED BY <2>3
<1>8. it = Step(it)
  <2> HIDE DEF Step
  <2> QED BY <1>7
<1>9. Count(s, a) = it[DOMAIN s]
  BY DEF FoldLeft, MapThenFoldSet, Count
<1> HIDE DEF it
<1>10. Folds(it, Nat, F, 0, s)
  <2>1. ASSUME NEW T \in SUBSET (1..Len(s))
        PROVE  it[T] = IF T = {} THEN 0 ELSE (IF s[Max(T)] = a THEN it[T \ {Max(T)}] + 1 ELSE it[T \ {Max(T)}])
    BY <1>1, <1>8
  <2> QED BY <1>4, <1>5, <2>1 DEF Folds
<1>11. PICK r \in [0..Len(s) -> Nat] : Path(r, it, F, 0, s)
  BY <1>3, <1>6, <1>10, FoldPath
<1>12. Trace(r, F, 0, s, Nat) /\ it[1..Len(s)] = r[Len(s)]
  <2>1. Len(s) \in 0..Len(s) BY <1>1
  <2> QED BY <1>11, <2>1 DEF Path, Trace
<1>13. Count(s, a) = r[Len(s)]
  BY <1>1, <1>9, <1>12
<1> QED BY <1>12, <1>13 DEF F

\* What Count does with one atom more.
LEMMA CountStep ==
  ASSUME NEW A, NEW a, NEW s \in Seq(A), NEW e \in A
  PROVE  Count(s, a) \in Nat /\ Count(Append(s, e), a) = (IF e = a THEN Count(s, a) + 1 ELSE Count(s, a))
<1> DEFINE F == CountFun(A, a)
           t == Append(s, e)
<1>1. PICK r : Trace(r, F, 0, s, Nat) /\ Count(s, a) = r[Len(s)]
  BY CountRun
<1>2. t \in Seq(A) /\ Longer(t, s, e)
  BY AppendProperties DEF Longer
<1> HIDE DEF t
<1>3. PICK q : Trace(q, F, 0, t, Nat) /\ Count(t, a) = q[Len(t)]
  BY <1>2, CountRun
<1> HIDE DEF F
<1>4. r[Len(s)] \in Nat /\ q[Len(t)] = F[<<r[Len(s)], e>>]
  <2>1. OneStep(q, t, r, s, e, F, Nat) BY <1>1, <1>2, <1>3, TraceStep
  <2> QED BY <2>1 DEF OneStep
<1>5. ASSUME NEW x \in Nat PROVE F[<<x, e>>] = (IF e = a THEN x + 1 ELSE x)
  BY DEF F, CountFun
<1>6. Count(s, a) \in Nat /\ F[<<Count(s, a), e>>] = (IF e = a THEN Count(s, a) + 1 ELSE Count(s, a))
  BY <1>1, <1>4, <1>5
<1>7. Count(t, a) = F[<<Count(s, a), e>>]
  BY <1>1, <1>3, <1>4
<1>8. Count(t, a) = (IF e = a THEN Count(s, a) + 1 ELSE Count(s, a))
  BY <1>6, <1>7
<1> QED BY <1>6, <1>8 DEF t

\* Nothing is in the empty text.
LEMMA CountBase ==
  ASSUME NEW A, NEW a
  PROVE  Count(<<>>, a) = 0
<1> DEFINE t == <<>>
<1>1. t \in Seq(A) /\ Len(t) = 0
  BY EmptySeq
<1> HIDE DEF t
<1>2. PICK r : Trace(r, CountFun(A, a), 0, t, Nat) /\ Count(t, a) = r[Len(t)]
  BY <1>1, CountRun
<1>3. Count(t, a) = 0
  BY <1>1, <1>2 DEF Trace
<1> QED BY <1>3 DEF t

\* A text of one atom.
LEMMA OneElement ==
  ASSUME NEW A, NEW e \in A
  PROVE  <<e>> \in Seq(A) /\ <<>> \in Seq(A) /\ <<e>> = Append(<<>>, e)
<1>1. <<>> \in Seq(A)
  BY EmptySeq
<1>2. Append(<<>>, e) = <<>> \o <<e>> /\ <<e>> \in Seq(A)
  BY <1>1, AppendIsConcat
<1> QED BY <1>1, <1>2, ConcatEmptySeq

\* One atom expands to what it stands for.
LEMMA ExpandOne ==
  ASSUME NEW A, NEW sub \in [A -> Seq(A)], NEW e \in A
  PROVE  Expand(<<e>>, sub) = sub[e]
<1>1. <<>> \in Seq(A) /\ <<e>> = Append(<<>>, e)
  BY OneElement
<1>2. Expand(<<>>, sub) = <<>>
  BY ExpandBase
<1>3. Expand(Append(<<>>, e), sub) = Expand(<<>>, sub) \o sub[e]
  BY <1>1, ExpandStep
<1>4. <<>> \o sub[e] = sub[e]
  BY ConcatEmptySeq
<1> QED BY <1>1, <1>2, <1>3, <1>4

\* An expanded text is a text.
LEMMA ExpandType ==
  ASSUME NEW A, NEW sub \in [A -> Seq(A)], NEW t \in Seq(A)
  PROVE  Expand(t, sub) \in Seq(A)
<1>1. CASE t = <<>>
  <2>1. Expand(<<>>, sub) = <<>> /\ <<>> \in Seq(A) BY ExpandBase, EmptySeq
  <2> QED BY <1>1, <2>1
<1>2. CASE t # <<>>
  <2>1. PICK v \in Seq(A), e \in A : t = Append(v, e) BY <1>2, SequenceEmptyOrAppend
  <2>2. Expand(v, sub) \in Seq(A) /\ Expand(t, sub) = Expand(v, sub) \o sub[e]
    BY <2>1, ExpandStep, ZenonT(60)
  <2>3. sub[e] \in Seq(A) OBVIOUS
  <2> QED BY <2>2, <2>3, ConcatProperties
<1> QED BY <1>1, <1>2

\* Two texts are expanded one after the other.
LEMMA ExpandConcat ==
  ASSUME NEW A, NEW sub \in [A -> Seq(A)], NEW s \in Seq(A), NEW t \in Seq(A)
  PROVE  Expand(s \o t, sub) = Expand(s, sub) \o Expand(t, sub)
<1> DEFINE P == {u \in Seq(A) : Expand(s \o u, sub) = Expand(s, sub) \o Expand(u, sub)}
<1>1. \A u \in Seq(A) : Expand(u, sub) \in Seq(A)
  BY ExpandType
<1>2. <<>> \in P
  <2>1. <<>> \in Seq(A) /\ s \o <<>> = s BY EmptySeq, ConcatEmptySeq
  <2>2. Expand(<<>>, sub) = <<>> BY ExpandBase
  <2>3. Expand(s, sub) \o <<>> = Expand(s, sub) BY <1>1, ConcatEmptySeq
  <2> QED BY <2>1, <2>2, <2>3
<1>3. ASSUME NEW u \in Seq(A), NEW e \in A, u \in P PROVE Append(u, e) \in P
  <2>1. s \o Append(u, e) = Append(s \o u, e) /\ s \o u \in Seq(A) /\ Append(u, e) \in Seq(A)
    BY AppendToConcat, ConcatProperties, AppendProperties
  <2>2. Expand(Append(s \o u, e), sub) = Expand(s \o u, sub) \o sub[e]
    BY <2>1, ExpandStep, ZenonT(60)
  <2>3. Expand(Append(u, e), sub) = Expand(u, sub) \o sub[e]
    BY ExpandStep
  <2>4. Expand(s, sub) \in Seq(A) /\ Expand(u, sub) \in Seq(A) /\ sub[e] \in Seq(A)
    BY <1>1
  <2>5. (Expand(s, sub) \o Expand(u, sub)) \o sub[e] = Expand(s, sub) \o (Expand(u, sub) \o sub[e])
    BY <2>4, ConcatAssociative, SMTT(60)
  <2>6. Expand(s \o u, sub) = Expand(s, sub) \o Expand(u, sub)
    BY <1>3
  <2> QED BY <2>1, <2>2, <2>3, <2>5, <2>6
<1> HIDE DEF P
<1>4. Seq(A) \subseteq P
  BY <1>2, <1>3, SeqInduction
<1>5. t \in P
  BY <1>4
<1> QED BY <1>5 DEF P

\* sub and then by do what both does.
Composed(A, sub, by, both) == \A x \in A : Expand(sub[x], by) = both[x]

\* Expanding twice is expanding once by what both do together.
LEMMA ExpandTwice ==
  ASSUME NEW A, NEW sub \in [A -> Seq(A)], NEW by \in [A -> Seq(A)], NEW both \in [A -> Seq(A)],
         Composed(A, sub, by, both),
         NEW t \in Seq(A)
  PROVE  Expand(Expand(t, sub), by) = Expand(t, both)
<1> DEFINE P == {u \in Seq(A) : Expand(Expand(u, sub), by) = Expand(u, both)}
<1>1. <<>> \in P
  <2>1. Expand(<<>>, sub) = <<>> BY ExpandBase
  <2>2. Expand(<<>>, by) = <<>> BY ExpandBase
  <2>3. Expand(<<>>, both) = <<>> BY ExpandBase
  <2>4. <<>> \in Seq(A) BY EmptySeq
  <2> QED BY <2>1, <2>2, <2>3, <2>4
<1>2. ASSUME NEW u \in Seq(A), NEW e \in A, u \in P PROVE Append(u, e) \in P
  <2>1. Expand(u, sub) \in Seq(A) /\ Expand(Append(u, e), sub) = Expand(u, sub) \o sub[e]
    BY ExpandStep, ZenonT(60)
  <2>2. Expand(Append(u, e), both) = Expand(u, both) \o both[e]
    BY ExpandStep, ZenonT(60)
  <2>3. sub[e] \in Seq(A)
    OBVIOUS
  <2>4. Expand(Expand(u, sub) \o sub[e], by) = Expand(Expand(u, sub), by) \o Expand(sub[e], by)
    BY <2>1, <2>3, ExpandConcat
  <2>5. Append(u, e) \in Seq(A)
    BY AppendProperties
  <2>6. Expand(sub[e], by) = both[e]
    BY DEF Composed
  <2> QED BY <1>2, <2>1, <2>2, <2>4, <2>5, <2>6
<1> HIDE DEF P
<1>3. Seq(A) \subseteq P
  BY <1>1, <1>2, SeqInduction
<1>4. t \in P
  BY <1>3
<1> QED BY <1>4 DEF P

\* sub and by do the same to the elements of B.
Alike(A, B, sub, by) ==
  /\ sub \in [A -> Seq(A)] /\ by \in [A -> Seq(A)]
  /\ B \in SUBSET A /\ \A x \in B : sub[x] = by[x]

\* Substitutions that agree on a text's atoms expand it to the same.
LEMMA ExpandSame ==
  ASSUME NEW A, NEW B, NEW sub, NEW by, Alike(A, B, sub, by),
         NEW t \in Seq(B)
  PROVE  Expand(t, sub) = Expand(t, by)
<1> DEFINE P == {u \in Seq(A) : Expand(u, sub) = Expand(u, by)}
<1>0. sub \in [A -> Seq(A)] /\ by \in [A -> Seq(A)] /\ B \in SUBSET A
  BY DEF Alike
<1>1. <<>> \in P
  <2>1. Expand(<<>>, sub) = <<>> BY <1>0, ExpandBase
  <2>2. Expand(<<>>, by) = <<>> BY <1>0, ExpandBase
  <2>3. <<>> \in Seq(A) BY EmptySeq
  <2> QED BY <2>1, <2>2, <2>3
<1>2. ASSUME NEW u \in Seq(B), NEW e \in B, u \in P PROVE Append(u, e) \in P
  <2>1. u \in Seq(A) /\ e \in A
    BY <1>0
  <2>2. Expand(Append(u, e), sub) = Expand(u, sub) \o sub[e]
    BY <1>0, <2>1, ExpandStep, ZenonT(60)
  <2>3. Expand(Append(u, e), by) = Expand(u, by) \o by[e]
    BY <1>0, <2>1, ExpandStep, ZenonT(60)
  <2>4. Append(u, e) \in Seq(A)
    BY <2>1, AppendProperties
  <2>5. sub[e] = by[e]
    BY DEF Alike
  <2> QED BY <1>2, <2>2, <2>3, <2>4, <2>5
<1> HIDE DEF P
<1>3. Seq(B) \subseteq P
  BY <1>1, <1>2, SeqInduction
<1>4. t \in P
  BY <1>3
<1> QED BY <1>4 DEF P

\* A text of atoms that stand for themselves is its own expansion.
LEMMA ExpandNone ==
  ASSUME NEW A, NEW sub \in [A -> Seq(A)], NEW B \in SUBSET A, \A x \in B : sub[x] = <<x>>,
         NEW t \in Seq(B)
  PROVE  Expand(t, sub) = t
<1> DEFINE P == {u \in Seq(A) : Expand(u, sub) = u}
<1>1. <<>> \in P
  <2>1. Expand(<<>>, sub) = <<>> BY ExpandBase
  <2>2. <<>> \in Seq(A) BY EmptySeq
  <2> QED BY <2>1, <2>2
<1>2. ASSUME NEW u \in Seq(B), NEW e \in B, u \in P PROVE Append(u, e) \in P
  <2>1. u \in Seq(A) /\ e \in A
    BY <1>2
  <2>2. Expand(Append(u, e), sub) = Expand(u, sub) \o sub[e]
    BY <2>1, ExpandStep, ZenonT(60)
  <2>3. Append(u, e) \in Seq(A) /\ Append(u, e) = u \o <<e>>
    BY <2>1, AppendProperties, AppendIsConcat
  <2>4. sub[e] = <<e>> /\ Expand(u, sub) = u
    BY <1>2
  <2> QED BY <2>2, <2>3, <2>4
<1> HIDE DEF P
<1>3. Seq(B) \subseteq P
  BY <1>1, <1>2, SeqInduction
<1>4. t \in P
  BY <1>3
<1> QED BY <1>4 DEF P

\* An atom is once in itself, and in no other.
LEMMA CountOne ==
  ASSUME NEW A, NEW a, NEW e \in A
  PROVE  Count(<<e>>, a) = IF e = a THEN 1 ELSE 0
<1>1. <<>> \in Seq(A) /\ <<e>> = Append(<<>>, e)
  BY OneElement
<1>2. Count(<<>>, a) = 0
  BY CountBase
<1>3. Count(Append(<<>>, e), a) = IF e = a THEN Count(<<>>, a) + 1 ELSE Count(<<>>, a)
  BY <1>1, CountStep
<1> QED BY <1>1, <1>2, <1>3

\* A count is a natural number.
LEMMA CountType ==
  ASSUME NEW A, NEW a, NEW t \in Seq(A)
  PROVE  Count(t, a) \in Nat
<1>1. CASE t = <<>>
  BY <1>1, CountBase
<1>2. CASE t # <<>>
  <2>1. PICK v \in Seq(A), e \in A : t = Append(v, e) BY <1>2, SequenceEmptyOrAppend
  <2>2. /\ Count(v, a) \in Nat
        /\ Count(Append(v, e), a) = IF e = a THEN Count(v, a) + 1 ELSE Count(v, a)
    BY CountStep
  <2> QED BY <2>1, <2>2
<1> QED BY <1>1, <1>2

\* Counts of two texts add up.
LEMMA CountConcat ==
  ASSUME NEW A, NEW a, NEW s \in Seq(A), NEW t \in Seq(A)
  PROVE  Count(s \o t, a) = Count(s, a) + Count(t, a)
<1> DEFINE P == {u \in Seq(A) : Count(s \o u, a) = Count(s, a) + Count(u, a)}
<1>1. ASSUME NEW u \in Seq(A), NEW e \in A
      PROVE  /\ Count(u, a) \in Nat
             /\ Count(Append(u, e), a) = IF e = a THEN Count(u, a) + 1 ELSE Count(u, a)
  BY CountStep
<1>2. Count(s, a) \in Nat
  BY CountType
<1>3. <<>> \in P
  <2>1. <<>> \in Seq(A) /\ s \o <<>> = s BY EmptySeq, ConcatEmptySeq
  <2>2. Count(<<>>, a) = 0 BY CountBase
  <2> QED BY <1>2, <2>1, <2>2
<1>4. ASSUME NEW u \in Seq(A), NEW e \in A, u \in P PROVE Append(u, e) \in P
  <2>1. s \o Append(u, e) = Append(s \o u, e) /\ s \o u \in Seq(A) /\ Append(u, e) \in Seq(A)
    BY AppendToConcat, ConcatProperties, AppendProperties
  <2>2. Count(Append(s \o u, e), a) = IF e = a THEN Count(s \o u, a) + 1 ELSE Count(s \o u, a)
    BY <1>1, <2>1
  <2>3. /\ Count(u, a) \in Nat
        /\ Count(Append(u, e), a) = IF e = a THEN Count(u, a) + 1 ELSE Count(u, a)
    BY <1>1
  <2>4. Count(s \o u, a) = Count(s, a) + Count(u, a)
    BY <1>4
  <2>5. Count(s \o Append(u, e), a) = Count(s, a) + Count(Append(u, e), a)
    BY <1>2, <2>1, <2>2, <2>3, <2>4
  <2> QED BY <2>1, <2>5
<1> HIDE DEF P
<1>5. Seq(A) \subseteq P
  BY <1>3, <1>4, SeqInduction
<1>6. t \in P
  BY <1>5
<1> QED BY <1>6 DEF P

\* An atom of another alphabet is not in the text.
LEMMA CountNone ==
  ASSUME NEW A, NEW a, a \notin A, NEW t \in Seq(A)
  PROVE  Count(t, a) = 0
<1> DEFINE P == {u \in Seq(A) : Count(u, a) = 0}
<1>1. <<>> \in P
  BY CountBase, EmptySeq
<1>2. ASSUME NEW u \in Seq(A), NEW e \in A, u \in P PROVE Append(u, e) \in P
  <2>1. Count(Append(u, e), a) = IF e = a THEN Count(u, a) + 1 ELSE Count(u, a)
    BY CountStep
  <2>2. e # a /\ Append(u, e) \in Seq(A)
    BY AppendProperties
  <2> QED BY <1>2, <2>1, <2>2
<1> HIDE DEF P
<1>3. Seq(A) \subseteq P
  BY <1>1, <1>2, SeqInduction
<1>4. t \in P
  BY <1>3
<1> QED BY <1>4 DEF P

\* A text without an atom is one over the alphabet without it.
LEMMA CountZero ==
  ASSUME NEW A, NEW a, NEW t \in Seq(A), Count(t, a) = 0
  PROVE  t \in Seq(A \ {a})
<1> DEFINE B == A \ {a}
           P == {u \in Seq(A) : Count(u, a) = 0 => u \in Seq(B)}
<1> HIDE DEF B
<1>1. <<>> \in P
  BY EmptySeq
<1>2. ASSUME NEW u \in Seq(A), NEW e \in A, u \in P PROVE Append(u, e) \in P
  <2>1. /\ Count(u, a) \in Nat
        /\ Count(Append(u, e), a) = IF e = a THEN Count(u, a) + 1 ELSE Count(u, a)
    BY CountStep
  <2>2. Append(u, e) \in Seq(A)
    BY AppendProperties
  <2>3. ASSUME Count(Append(u, e), a) = 0 PROVE Append(u, e) \in Seq(B)
    <3>1. e # a /\ Count(u, a) = 0 BY <2>1, <2>3
    <3>2. e \in B /\ u \in Seq(B) BY <1>2, <3>1 DEF B
    <3> QED BY <3>2, AppendProperties
  <2> QED BY <2>2, <2>3
<1> HIDE DEF P
<1>3. Seq(A) \subseteq P
  BY <1>1, <1>2, SeqInduction
<1>4. t \in P
  BY <1>3
<1> QED BY <1>4 DEF P, B

\* An expansion that makes no copies of an atom has no more of them.
LEMMA CountExpandLe ==
  ASSUME NEW A, NEW sub \in [A -> Seq(A)], NEW a,
         \A x \in A : Count(sub[x], a) <= IF x = a THEN 1 ELSE 0,
         NEW t \in Seq(A)
  PROVE  Count(Expand(t, sub), a) <= Count(t, a)
<1> DEFINE P == {u \in Seq(A) : Count(Expand(u, sub), a) <= Count(u, a)}
<1>1. <<>> \in P
  <2>1. Expand(<<>>, sub) = <<>> BY ExpandBase
  <2>2. Count(<<>>, a) = 0 BY CountBase
  <2>3. <<>> \in Seq(A) BY EmptySeq
  <2>4. Count(Expand(<<>>, sub), a) = 0 BY <2>1, <2>2
  <2> QED BY <2>2, <2>3, <2>4
<1>2. ASSUME NEW u \in Seq(A), NEW e \in A, u \in P PROVE Append(u, e) \in P
  <2>1. Expand(u, sub) \in Seq(A) /\ Expand(Append(u, e), sub) = Expand(u, sub) \o sub[e]
    BY ExpandStep
  <2>2. sub[e] \in Seq(A) /\ Append(u, e) \in Seq(A)
    BY AppendProperties
  <2>3. Count(Expand(u, sub) \o sub[e], a) = Count(Expand(u, sub), a) + Count(sub[e], a)
    BY <2>1, <2>2, CountConcat
  <2>4. /\ Count(u, a) \in Nat
        /\ Count(Append(u, e), a) = IF e = a THEN Count(u, a) + 1 ELSE Count(u, a)
    BY CountStep
  <2>5. Count(Expand(u, sub), a) \in Nat /\ Count(sub[e], a) \in Nat
    BY <2>1, <2>2, CountType
  <2>6. Count(sub[e], a) <= IF e = a THEN 1 ELSE 0
    OBVIOUS
  <2>7. Count(Expand(u, sub), a) <= Count(u, a)
    BY <1>2
  <2>8. Count(Expand(Append(u, e), sub), a) = Count(Expand(u, sub), a) + Count(sub[e], a)
    BY <2>1, <2>3
  <2>9. Count(Expand(Append(u, e), sub), a) <= Count(Append(u, e), a)
    BY <2>4, <2>5, <2>6, <2>7, <2>8
  <2> QED BY <2>2, <2>9
<1> HIDE DEF P
<1>3. Seq(A) \subseteq P
  BY <1>1, <1>2, SeqInduction
<1>4. t \in P
  BY <1>3
<1> QED BY <1>4 DEF P

\* An expansion that leaves an atom alone has no fewer of them.
LEMMA CountExpandGe ==
  ASSUME NEW A, NEW sub \in [A -> Seq(A)], NEW a \in A, sub[a] = <<a>>, NEW t \in Seq(A)
  PROVE  Count(t, a) <= Count(Expand(t, sub), a)
<1> DEFINE P == {u \in Seq(A) : Count(u, a) <= Count(Expand(u, sub), a)}
<1>1. <<>> \in P
  <2>1. Expand(<<>>, sub) = <<>> BY ExpandBase
  <2>2. Count(<<>>, a) = 0 BY CountBase
  <2>3. <<>> \in Seq(A) BY EmptySeq
  <2>4. Count(Expand(<<>>, sub), a) = 0 BY <2>1, <2>2
  <2> QED BY <2>2, <2>3, <2>4
<1>2. ASSUME NEW u \in Seq(A), NEW e \in A, u \in P PROVE Append(u, e) \in P
  <2>1. Expand(u, sub) \in Seq(A) /\ Expand(Append(u, e), sub) = Expand(u, sub) \o sub[e]
    BY ExpandStep, ZenonT(60)
  <2>2. sub[e] \in Seq(A) /\ Append(u, e) \in Seq(A)
    BY AppendProperties
  <2>3. Count(Expand(u, sub) \o sub[e], a) = Count(Expand(u, sub), a) + Count(sub[e], a)
    BY <2>1, <2>2, CountConcat
  <2>4. /\ Count(u, a) \in Nat
        /\ Count(Append(u, e), a) = IF e = a THEN Count(u, a) + 1 ELSE Count(u, a)
    BY CountStep
  <2>5. Count(Expand(u, sub), a) \in Nat /\ Count(sub[e], a) \in Nat
    BY <2>1, <2>2, CountType
  <2>6. e = a => Count(sub[e], a) = 1
    <3>1. Count(<<a>>, a) = 1 BY CountOne
    <3> QED BY <3>1
  <2>7. Count(u, a) <= Count(Expand(u, sub), a)
    BY <1>2
  <2>8. Count(Expand(Append(u, e), sub), a) = Count(Expand(u, sub), a) + Count(sub[e], a)
    BY <2>1, <2>3
  <2>9. Count(Append(u, e), a) <= Count(Expand(Append(u, e), sub), a)
    BY <2>4, <2>5, <2>6, <2>7, <2>8
  <2> QED BY <2>2, <2>9
<1> HIDE DEF P
<1>3. Seq(A) \subseteq P
  BY <1>1, <1>2, SeqInduction
<1>4. t \in P
  BY <1>3
<1> QED BY <1>4 DEF P

-----------------------------------------------------------------------------
(* Tables.                                                                  *)

\* The step of Without as a function.
WithoutFun(E, dropped) == [p \in Seq(E) \X E |-> (IF p[2] \in dropped THEN p[1] ELSE Append(p[1], p[2]))]

\* Without is computed element by element.
LEMMA WithoutRun ==
  ASSUME NEW E, NEW dropped, NEW s \in Seq(E)
  PROVE  \E r : Trace(r, WithoutFun(E, dropped), <<>>, s, Seq(E)) /\ Without(s, dropped) = r[Len(s)]
<1> DEFINE F == WithoutFun(E, dropped)
           Step(g) == [T \in SUBSET DOMAIN s |->
                         IF T = {} THEN <<>> ELSE (IF s[Max(T)] \in dropped THEN g[T \ {Max(T)}] ELSE Append(g[T \ {Max(T)}], s[Max(T)]))]
           it == CHOOSE g : g = Step(g)
<1>1. Len(s) \in Nat /\ DOMAIN s = 1..Len(s)
  BY LenProperties
<1>2. ASSUME NEW x \in Seq(E), NEW y \in E PROVE (IF y \in dropped THEN x ELSE Append(x, y)) \in Seq(E)
  BY AppendProperties
<1>3. F \in [Seq(E) \X E -> Seq(E)]
  BY <1>2 DEF WithoutFun
<1>4. ASSUME NEW x \in Seq(E), NEW y \in E PROVE F[<<x, y>>] = (IF y \in dropped THEN x ELSE Append(x, y))
  BY DEF WithoutFun
<1>5. ASSUME NEW T \in SUBSET (1..Len(s)), T # {} PROVE s[Max(T)] \in E
  <2>1. Max(T) \in 1..Len(s) BY <1>1, <1>5, MaxOf
  <2> QED BY <2>1, ElementOfSeq
<1>6. <<>> \in Seq(E)
  BY EmptySeq
<1> HIDE DEF F
<1>7. \E g : g = Step(g)
  <2>1. PICK g \in [SUBSET (1..Len(s)) -> Seq(E)] : IsFold(g, F, <<>>, s)
    BY <1>3, <1>6, FoldExists
  <2>2. ASSUME NEW T \in SUBSET (1..Len(s)), T # {}
        PROVE  F[<<g[T \ {Max(T)}], s[Max(T)]>>] = (IF s[Max(T)] \in dropped THEN g[T \ {Max(T)}] ELSE Append(g[T \ {Max(T)}], s[Max(T)]))
    BY <1>4, <1>5, <2>2
  <2>3. g = Step(g) BY <1>1, <2>1, <2>2 DEF IsFold
  <2> QED BY <2>3
<1>8. it = Step(it)
  <2> HIDE DEF Step
  <2> QED BY <1>7
<1>9. Without(s, dropped) = it[DOMAIN s]
  BY DEF FoldLeft, MapThenFoldSet, Without
<1> HIDE DEF it
<1>10. Folds(it, Seq(E), F, <<>>, s)
  <2>1. ASSUME NEW T \in SUBSET (1..Len(s))
        PROVE  it[T] = IF T = {} THEN <<>> ELSE (IF s[Max(T)] \in dropped THEN it[T \ {Max(T)}] ELSE Append(it[T \ {Max(T)}], s[Max(T)]))
    BY <1>1, <1>8
  <2> QED BY <1>4, <1>5, <2>1 DEF Folds
<1>11. PICK r \in [0..Len(s) -> Seq(E)] : Path(r, it, F, <<>>, s)
  BY <1>3, <1>6, <1>10, FoldPath
<1>12. Trace(r, F, <<>>, s, Seq(E)) /\ it[1..Len(s)] = r[Len(s)]
  <2>1. Len(s) \in 0..Len(s) BY <1>1
  <2> QED BY <1>11, <2>1 DEF Path, Trace
<1>13. Without(s, dropped) = r[Len(s)]
  BY <1>1, <1>9, <1>12
<1> QED BY <1>12, <1>13 DEF F

\* What Without does with one line more.
LEMMA WithoutStep ==
  ASSUME NEW E, NEW dropped, NEW s \in Seq(E), NEW e \in E
  PROVE  Without(s, dropped) \in Seq(E) /\ Without(Append(s, e), dropped) = (IF e \in dropped THEN Without(s, dropped) ELSE Append(Without(s, dropped), e))
<1> DEFINE F == WithoutFun(E, dropped)
           t == Append(s, e)
<1>1. PICK r : Trace(r, F, <<>>, s, Seq(E)) /\ Without(s, dropped) = r[Len(s)]
  BY WithoutRun
<1>2. t \in Seq(E) /\ Longer(t, s, e)
  BY AppendProperties DEF Longer
<1> HIDE DEF t
<1>3. PICK q : Trace(q, F, <<>>, t, Seq(E)) /\ Without(t, dropped) = q[Len(t)]
  BY <1>2, WithoutRun
<1> HIDE DEF F
<1>4. r[Len(s)] \in Seq(E) /\ q[Len(t)] = F[<<r[Len(s)], e>>]
  <2>1. OneStep(q, t, r, s, e, F, Seq(E)) BY <1>1, <1>2, <1>3, TraceStep
  <2> QED BY <2>1 DEF OneStep
<1>5. ASSUME NEW x \in Seq(E) PROVE F[<<x, e>>] = (IF e \in dropped THEN x ELSE Append(x, e))
  BY DEF F, WithoutFun
<1>6. Without(s, dropped) \in Seq(E) /\ F[<<Without(s, dropped), e>>] = (IF e \in dropped THEN Without(s, dropped) ELSE Append(Without(s, dropped), e))
  BY <1>1, <1>4, <1>5
<1>7. Without(t, dropped) = F[<<Without(s, dropped), e>>]
  BY <1>1, <1>3, <1>4
<1>8. Without(t, dropped) = (IF e \in dropped THEN Without(s, dropped) ELSE Append(Without(s, dropped), e))
  BY <1>6, <1>7
<1> QED BY <1>6, <1>8 DEF t

\* The empty text has nothing to drop.
LEMMA WithoutBase ==
  ASSUME NEW E, NEW dropped
  PROVE  Without(<<>>, dropped) = <<>>
<1> DEFINE t == <<>>
<1>1. t \in Seq(E) /\ Len(t) = 0
  BY EmptySeq
<1> HIDE DEF t
<1>2. PICK r : Trace(r, WithoutFun(E, dropped), <<>>, t, Seq(E)) /\ Without(t, dropped) = r[Len(t)]
  BY <1>1, WithoutRun
<1>3. Without(t, dropped) = <<>>
  BY <1>1, <1>2 DEF Trace
<1> QED BY <1>3 DEF t

\* What is left is a text.
LEMMA WithoutType ==
  ASSUME NEW E, NEW dropped, NEW s \in Seq(E)
  PROVE  Without(s, dropped) \in Seq(E)
<1>1. CASE s = <<>>
  BY <1>1, WithoutBase, EmptySeq
<1>2. CASE s # <<>>
  <2>1. PICK v \in Seq(E), e \in E : s = Append(v, e) BY <1>2, SequenceEmptyOrAppend
  <2>2. /\ Without(v, dropped) \in Seq(E)
        /\ Without(s, dropped) = IF e \in dropped THEN Without(v, dropped)
                                 ELSE Append(Without(v, dropped), e)
    BY <2>1, WithoutStep
  <2> QED BY <2>2, AppendProperties
<1> QED BY <1>1, <1>2

\* Lines are dropped from two texts one after the other.
LEMMA WithoutConcat ==
  ASSUME NEW E, NEW dropped, NEW s \in Seq(E), NEW t \in Seq(E)
  PROVE  Without(s \o t, dropped) = Without(s, dropped) \o Without(t, dropped)
<1> DEFINE P == {u \in Seq(E) : Without(s \o u, dropped) = Without(s, dropped) \o Without(u, dropped)}
<1>1. Without(s, dropped) \in Seq(E)
  BY WithoutType
<1>2. <<>> \in P
  <2>1. <<>> \in Seq(E) /\ s \o <<>> = s BY EmptySeq, ConcatEmptySeq
  <2>2. Without(<<>>, dropped) = <<>> BY WithoutBase
  <2>3. Without(s, dropped) \o <<>> = Without(s, dropped) BY <1>1, ConcatEmptySeq
  <2> QED BY <2>1, <2>2, <2>3
<1>3. ASSUME NEW u \in Seq(E), NEW e \in E, u \in P PROVE Append(u, e) \in P
  <2>1. s \o Append(u, e) = Append(s \o u, e) /\ s \o u \in Seq(E) /\ Append(u, e) \in Seq(E)
    BY AppendToConcat, ConcatProperties, AppendProperties
  <2>2. Without(Append(s \o u, e), dropped) =
          IF e \in dropped THEN Without(s \o u, dropped) ELSE Append(Without(s \o u, dropped), e)
    <3> DEFINE w == s \o u
    <3>1. w \in Seq(E) BY <2>1
    <3> HIDE DEF w
    <3>2. Without(Append(w, e), dropped) =
            IF e \in dropped THEN Without(w, dropped) ELSE Append(Without(w, dropped), e)
      BY <3>1, WithoutStep
    <3> QED BY <3>2 DEF w
  <2>3. /\ Without(u, dropped) \in Seq(E)
        /\ Without(Append(u, e), dropped) =
             IF e \in dropped THEN Without(u, dropped) ELSE Append(Without(u, dropped), e)
    BY WithoutStep
  <2>4. Without(s \o u, dropped) = Without(s, dropped) \o Without(u, dropped)
    BY <1>3
  <2>5. Without(s, dropped) \o Append(Without(u, dropped), e) =
          Append(Without(s, dropped) \o Without(u, dropped), e)
    BY <1>1, <2>3, AppendToConcat
  <2>6. Without(s \o Append(u, e), dropped) = Without(s, dropped) \o Without(Append(u, e), dropped)
    BY <2>1, <2>2, <2>3, <2>4, <2>5
  <2> QED BY <2>1, <2>6
<1> HIDE DEF P
<1>4. Seq(E) \subseteq P
  BY <1>2, <1>3, SeqInduction
<1>5. t \in P
  BY <1>4
<1> QED BY <1>5 DEF P

\* Nothing is dropped from a text without such lines.
LEMMA WithoutNone ==
  ASSUME NEW E, NEW dropped, \A x \in E : x \notin dropped, NEW s \in Seq(E)
  PROVE  Without(s, dropped) = s
<1> DEFINE P == {u \in Seq(E) : Without(u, dropped) = u}
<1>1. <<>> \in P
  BY WithoutBase, EmptySeq
<1>2. ASSUME NEW u \in Seq(E), NEW e \in E, u \in P PROVE Append(u, e) \in P
  <2>1. Without(Append(u, e), dropped) =
             IF e \in dropped THEN Without(u, dropped) ELSE Append(Without(u, dropped), e)
    BY WithoutStep
  <2>2. Append(u, e) \in Seq(E)
    BY AppendProperties
  <2> QED BY <1>2, <2>1, <2>2
<1> HIDE DEF P
<1>3. Seq(E) \subseteq P
  BY <1>1, <1>2, SeqInduction
<1>4. s \in P
  BY <1>3
<1> QED BY <1>4 DEF P

\* What is dropped depends on the text's own lines only.
LEMMA WithoutSame ==
  ASSUME NEW E, NEW dropped, NEW others, \A x \in E : x \in dropped <=> x \in others,
         NEW s \in Seq(E)
  PROVE  Without(s, dropped) = Without(s, others)
<1> DEFINE P == {u \in Seq(E) : Without(u, dropped) = Without(u, others)}
<1>1. <<>> \in P
  <2>1. Without(<<>>, dropped) = <<>> BY WithoutBase
  <2>2. Without(<<>>, others) = <<>> BY WithoutBase
  <2> QED BY <2>1, <2>2, EmptySeq
<1>2. ASSUME NEW u \in Seq(E), NEW e \in E, u \in P PROVE Append(u, e) \in P
  <2>1. Without(Append(u, e), dropped) =
             IF e \in dropped THEN Without(u, dropped) ELSE Append(Without(u, dropped), e)
    BY WithoutStep
  <2>2. Without(Append(u, e), others) =
             IF e \in others THEN Without(u, others) ELSE Append(Without(u, others), e)
    BY WithoutStep
  <2>3. Append(u, e) \in Seq(E)
    BY AppendProperties
  <2> QED BY <1>2, <2>1, <2>2, <2>3
<1> HIDE DEF P
<1>3. Seq(E) \subseteq P
  BY <1>1, <1>2, SeqInduction
<1>4. s \in P
  BY <1>3
<1> QED BY <1>4 DEF P

\* The lines of a reply, and of the converted one.
TextLine == {"row", "separator", "text"} \X Nat
\* The rows, what the result is made of, and the lines that go away.
Row == {"row"} \X Nat
OutLine == TextLine \cup {FenceLine}
Separator == {l \in TextLine : l[1] = "separator"}

\* A table as a code block.
Block(rows) == <<FenceLine>> \o rows \o <<FenceLine>>

\* ConvertTables' loop body, its state, and the loop.
TableState == [out : Seq(OutLine), table : BOOLEAN, rows : Seq(Row)]
\* ConvertTables, step by step: one line, the state before the first, and the
\* state after all of them.
TableStep(s, l) ==
  CASE l[1] = "separator" -> [s EXCEPT !.table = TRUE]
    [] l[1] = "row" -> [s EXCEPT !.table = TRUE, !.rows = Append(@, l)]
    [] OTHER -> [out |-> s.out \o (IF s.table THEN Block(s.rows) ELSE <<>>) \o <<l>>,
                 table |-> FALSE, rows |-> <<>>]
NoTable == [out |-> <<>>, table |-> FALSE, rows |-> <<>>]
ReadLines(lines) == FoldLeft(TableStep, NoTable, lines)

\* ConvertTables is these steps, and the table at the end of the text.
LEMMA TablesAreRead ==
  ASSUME NEW lines
  PROVE  ConvertTables(lines) =
           IF ReadLines(lines).rows # <<>>
           THEN ReadLines(lines).out \o Block(ReadLines(lines).rows)
           ELSE ReadLines(lines).out
BY DEF ConvertTables, ReadLines, TableStep, NoTable, Block

\* The lines of a text are told apart by their kind.
LEMMA LineKinds ==
  /\ \A l \in TextLine : l \in OutLine /\ l # FenceLine
  /\ \A l \in TextLine : l[1] = "row" => l \in Row
  /\ \A l \in Row : l \in OutLine /\ l \in TextLine /\ l # FenceLine /\ l[1] = "row" /\ l \notin Separator
  /\ FenceLine \in OutLine /\ FenceLine[1] = "fence"
<1>1. \A l \in TextLine : l = <<l[1], l[2]>> /\ l[1] \in {"row", "separator", "text"} /\ l[2] \in Nat
  BY DEF TextLine
<1>2. \A l \in Row : l = <<l[1], l[2]>> /\ l[1] = "row" /\ l[2] \in Nat
  BY DEF Row
<1>3. FenceLine[1] = "fence"
  BY DEF FenceLine
<1>4. \A l \in TextLine : l \in OutLine /\ l # FenceLine
  BY <1>1, <1>3 DEF OutLine
<1>5. \A l \in TextLine : l[1] = "row" => l \in Row
  BY <1>1 DEF Row
<1>6. \A l \in Row : l \in TextLine
  BY <1>2 DEF TextLine
<1> QED BY <1>2, <1>3, <1>4, <1>5, <1>6 DEF OutLine, Separator

\* A block is a sequence of lines.
LEMMA BlockType ==
  ASSUME NEW rows \in Seq(Row)
  PROVE  /\ Block(rows) = Append(<<FenceLine>> \o rows, FenceLine)
         /\ <<FenceLine>> \in Seq(OutLine) /\ <<FenceLine>> \o rows \in Seq(OutLine)
         /\ Block(rows) \in Seq(OutLine) /\ rows \in Seq(OutLine)
<1>1. rows \in Seq(OutLine) /\ FenceLine \in OutLine
  BY LineKinds
<1>2. <<FenceLine>> \in Seq(OutLine)
  BY <1>1, OneElement
<1>3. <<FenceLine>> \o rows \in Seq(OutLine)
  BY <1>1, <1>2, ConcatProperties
<1>4. Append(<<FenceLine>> \o rows, FenceLine) = (<<FenceLine>> \o rows) \o <<FenceLine>>
  BY <1>1, <1>3, AppendIsConcat
<1>5. Append(<<FenceLine>> \o rows, FenceLine) \in Seq(OutLine)
  BY <1>1, <1>3, AppendProperties
<1>6. Block(rows) = Append(<<FenceLine>> \o rows, FenceLine)
  BY <1>4 DEF Block
<1> QED BY <1>1, <1>2, <1>3, <1>5, <1>6

\* What each kind of line does to the state.
LEMMA TableStepIs ==
  ASSUME NEW s \in TableState, NEW l \in TextLine
  PROVE  /\ TableStep(s, l) \in TableState
         /\ l[1] = "separator" => TableStep(s, l) = [out |-> s.out, table |-> TRUE, rows |-> s.rows]
         /\ l[1] = "row" => TableStep(s, l) = [out |-> s.out, table |-> TRUE, rows |-> Append(s.rows, l)]
         /\ l[1] = "text" /\ s.table =>
              TableStep(s, l) = [out |-> Append(s.out \o Block(s.rows), l), table |-> FALSE, rows |-> <<>>]
         /\ l[1] = "text" /\ ~s.table =>
              TableStep(s, l) = [out |-> Append(s.out, l), table |-> FALSE, rows |-> <<>>]
<1>1. l[1] \in {"row", "separator", "text"}
  BY DEF TextLine
<1>2. s.out \in Seq(OutLine) /\ s.table \in BOOLEAN /\ s.rows \in Seq(Row) /\ l \in OutLine
  BY LineKinds DEF TableState
<1>3. s = [out |-> s.out, table |-> s.table, rows |-> s.rows]
  BY DEF TableState
<1>4. CASE l[1] = "separator"
  <2>1. TableStep(s, l) = [s EXCEPT !.table = TRUE] BY <1>4 DEF TableStep
  <2>2. TableStep(s, l) = [out |-> s.out, table |-> TRUE, rows |-> s.rows] BY <1>3, <2>1
  <2> QED BY <1>2, <1>4, <2>2 DEF TableState
<1>5. CASE l[1] = "row"
  <2>1. TableStep(s, l) = [s EXCEPT !.table = TRUE, !.rows = Append(@, l)] BY <1>5 DEF TableStep
  <2>2. TableStep(s, l) = [out |-> s.out, table |-> TRUE, rows |-> Append(s.rows, l)] BY <1>3, <2>1
  <2>3. l \in Row BY <1>5, LineKinds
  <2>4. Append(s.rows, l) \in Seq(Row) BY <1>2, <2>3, AppendProperties
  <2> QED BY <1>2, <1>5, <2>2, <2>4 DEF TableState
<1>6. CASE l[1] = "text"
  <2>1. TableStep(s, l) = [out |-> s.out \o (IF s.table THEN Block(s.rows) ELSE <<>>) \o <<l>>,
                          table |-> FALSE, rows |-> <<>>]
    BY <1>6 DEF TableStep
  <2>2. <<>> \in Seq(Row) BY EmptySeq
  <2>3. CASE s.table
    <3>1. Block(s.rows) \in Seq(OutLine) BY <1>2, BlockType
    <3>2. s.out \o Block(s.rows) \in Seq(OutLine) BY <1>2, <3>1, ConcatProperties
    <3>3. (s.out \o Block(s.rows)) \o <<l>> = Append(s.out \o Block(s.rows), l)
      BY <1>2, <3>2, AppendIsConcat
    <3>4. Append(s.out \o Block(s.rows), l) \in Seq(OutLine) BY <1>2, <3>2, AppendProperties
    <3>5. TableStep(s, l) = [out |-> Append(s.out \o Block(s.rows), l), table |-> FALSE, rows |-> <<>>]
      BY <2>1, <2>3, <3>3
    <3> QED BY <1>6, <2>2, <2>3, <3>4, <3>5 DEF TableState
  <2>4. CASE ~s.table
    <3>1. s.out \o <<>> = s.out BY <1>2, ConcatEmptySeq
    <3>2. s.out \o <<l>> = Append(s.out, l) BY <1>2, AppendIsConcat
    <3>3. Append(s.out, l) \in Seq(OutLine) BY <1>2, AppendProperties
    <3>4. TableStep(s, l) = [out |-> Append(s.out, l), table |-> FALSE, rows |-> <<>>]
      BY <2>1, <2>4, <3>1, <3>2
    <3> QED BY <1>6, <2>2, <2>4, <3>3, <3>4 DEF TableState
  <2> QED BY <2>3, <2>4
<1> QED BY <1>1, <1>4, <1>5, <1>6

\* The step as a function.
ReadFun == [p \in TableState \X TextLine |-> TableStep(p[1], p[2])]

\* The lines are read one by one.
LEMMA ReadRun ==
  ASSUME NEW s \in Seq(TextLine)
  PROVE  \E r : Trace(r, ReadFun, NoTable, s, TableState) /\ ReadLines(s) = r[Len(s)]
<1> DEFINE F == ReadFun
           Step(g) == [T \in SUBSET DOMAIN s |->
                         IF T = {} THEN NoTable ELSE TableStep(g[T \ {Max(T)}], s[Max(T)])]
           it == CHOOSE g : g = Step(g)
<1>1. Len(s) \in Nat /\ DOMAIN s = 1..Len(s)
  BY LenProperties
<1>2. ASSUME NEW x \in TableState, NEW y \in TextLine PROVE TableStep(x, y) \in TableState
  BY TableStepIs
<1>3. F \in [TableState \X TextLine -> TableState]
  BY <1>2 DEF ReadFun
<1>4. ASSUME NEW x \in TableState, NEW y \in TextLine PROVE F[<<x, y>>] = TableStep(x, y)
  BY DEF ReadFun
<1>5. ASSUME NEW T \in SUBSET (1..Len(s)), T # {} PROVE s[Max(T)] \in TextLine
  <2>1. Max(T) \in 1..Len(s) BY <1>1, <1>5, MaxOf
  <2> QED BY <2>1, ElementOfSeq
<1>6. NoTable \in TableState
  BY EmptySeq DEF NoTable, TableState
<1> HIDE DEF F
<1>7. \E g : g = Step(g)
  <2>1. PICK g \in [SUBSET (1..Len(s)) -> TableState] : IsFold(g, F, NoTable, s)
    BY <1>3, <1>6, FoldExists
  <2>2. ASSUME NEW T \in SUBSET (1..Len(s)), T # {}
        PROVE  F[<<g[T \ {Max(T)}], s[Max(T)]>>] = TableStep(g[T \ {Max(T)}], s[Max(T)])
    BY <1>4, <1>5, <2>2
  <2>3. g = Step(g) BY <1>1, <2>1, <2>2 DEF IsFold
  <2> QED BY <2>3
<1>8. it = Step(it)
  <2> HIDE DEF Step
  <2> QED BY <1>7
<1>9. ReadLines(s) = it[DOMAIN s]
  BY DEF FoldLeft, MapThenFoldSet, ReadLines
<1> HIDE DEF it
<1>10. Folds(it, TableState, F, NoTable, s)
  <2>1. ASSUME NEW T \in SUBSET (1..Len(s))
        PROVE  it[T] = IF T = {} THEN NoTable ELSE TableStep(it[T \ {Max(T)}], s[Max(T)])
    BY <1>1, <1>8
  <2> QED BY <1>4, <1>5, <2>1 DEF Folds
<1>11. PICK r \in [0..Len(s) -> TableState] : Path(r, it, F, NoTable, s)
  BY <1>3, <1>6, <1>10, FoldPath
<1>12. Trace(r, F, NoTable, s, TableState) /\ it[1..Len(s)] = r[Len(s)]
  <2>1. Len(s) \in 0..Len(s) BY <1>1
  <2> QED BY <1>11, <2>1 DEF Path, Trace
<1>13. ReadLines(s) = r[Len(s)]
  BY <1>1, <1>9, <1>12
<1> QED BY <1>12, <1>13 DEF F

\* What one line more does.
LEMMA ReadStep ==
  ASSUME NEW s \in Seq(TextLine), NEW e \in TextLine
  PROVE  ReadLines(s) \in TableState /\ ReadLines(Append(s, e)) = TableStep(ReadLines(s), e)
<1> DEFINE F == ReadFun
           t == Append(s, e)
<1>1. PICK r : Trace(r, F, NoTable, s, TableState) /\ ReadLines(s) = r[Len(s)]
  BY ReadRun
<1>2. t \in Seq(TextLine) /\ Longer(t, s, e)
  BY AppendProperties DEF Longer
<1> HIDE DEF t
<1>3. PICK q : Trace(q, F, NoTable, t, TableState) /\ ReadLines(t) = q[Len(t)]
  BY <1>2, ReadRun
<1> HIDE DEF F
<1>4. r[Len(s)] \in TableState /\ q[Len(t)] = F[<<r[Len(s)], e>>]
  <2>1. OneStep(q, t, r, s, e, F, TableState) BY <1>1, <1>2, <1>3, TraceStep
  <2> QED BY <2>1 DEF OneStep
<1>5. ASSUME NEW x \in TableState PROVE F[<<x, e>>] = TableStep(x, e)
  BY DEF F, ReadFun
<1>6. ReadLines(s) \in TableState /\ F[<<ReadLines(s), e>>] = TableStep(ReadLines(s), e)
  BY <1>1, <1>4, <1>5
<1>7. ReadLines(t) = F[<<ReadLines(s), e>>]
  BY <1>1, <1>3, <1>4
<1>8. ReadLines(t) = TableStep(ReadLines(s), e)
  BY <1>6, <1>7
<1> QED BY <1>6, <1>8 DEF t

\* Before the first line.
LEMMA ReadBase ==
  ReadLines(<<>>) = NoTable
<1> DEFINE t == <<>>
<1>1. t \in Seq(TextLine) /\ Len(t) = 0
  BY EmptySeq
<1> HIDE DEF t
<1>2. PICK r : Trace(r, ReadFun, NoTable, t, TableState) /\ ReadLines(t) = r[Len(t)]
  BY <1>1, ReadRun
<1>3. ReadLines(t) = NoTable
  BY <1>1, <1>2 DEF Trace
<1> QED BY <1>3 DEF t

\* The places of the fences among the first n lines of t.
FencePlaces(t, n) == {i \in 1..n : t[i] = FenceLine}

\* Rows stand behind an odd number of fences, the other lines behind an even
\* one; the number of all fences has the parity p.
Balanced(t, p) ==
  /\ \A i \in 1..Len(t) :
       t[i] # FenceLine => (t[i][1] = "row" <=> Cardinality(FencePlaces(t, i)) % 2 = 1)
  /\ Cardinality(FencePlaces(t, Len(t))) % 2 = p

\* A fence changes the side; a row is written inside and other lines outside.
LEMMA BalancedAppend ==
  ASSUME NEW t \in Seq(OutLine), NEW p \in {0, 1}, NEW q \in {0, 1}, Balanced(t, p),
         NEW e \in OutLine,
         IF e = FenceLine THEN q = 1 - p ELSE q = p /\ (e[1] = "row" <=> p = 1)
  PROVE  Balanced(Append(t, e), q)
<1> DEFINE u == Append(t, e)
           n == Len(t)
<1>1. n \in Nat /\ u \in Seq(OutLine) /\ Len(u) = n + 1 /\ u[n + 1] = e
      /\ \A i \in 1..n : u[i] = t[i]
  BY LenProperties, AppendProperties
<1> HIDE DEF u, n
<1>2. ASSUME NEW i \in 0..n PROVE FencePlaces(u, i) = FencePlaces(t, i)
  <2>1. \A h \in 1..i : u[h] = t[h] BY <1>1
  <2> QED BY <2>1 DEF FencePlaces
<1>3. IsFiniteSet(FencePlaces(t, n))
  <2>1. IsFiniteSet(1..n) BY <1>1, FS_Interval
  <2>2. FencePlaces(t, n) \subseteq 1..n BY DEF FencePlaces
  <2> QED BY <2>1, <2>2, FS_Subset
<1>4. Cardinality(FencePlaces(t, n)) \in Nat /\ Cardinality(FencePlaces(t, n)) % 2 = p
  BY <1>3, FS_CardinalityType DEF Balanced, n
<1>5. FencePlaces(u, n + 1) = IF e = FenceLine THEN FencePlaces(t, n) \cup {n + 1} ELSE FencePlaces(t, n)
  <2>1. \A h \in 1..(n + 1) : u[h] = IF h = n + 1 THEN e ELSE t[h] BY <1>1
  <2>2. 1..(n + 1) = (1..n) \cup {n + 1} BY <1>1
  <2> QED BY <1>1, <2>1, <2>2 DEF FencePlaces
<1>6. Cardinality(FencePlaces(u, n + 1)) % 2 = q
  <2>1. CASE e = FenceLine
    <3>1. n + 1 \notin FencePlaces(t, n) BY <1>1 DEF FencePlaces
    <3>2. Cardinality(FencePlaces(t, n) \cup {n + 1}) = Cardinality(FencePlaces(t, n)) + 1
      BY <1>3, <3>1, FS_AddElement
    <3>3. \A c \in Nat : c % 2 = p => (c + 1) % 2 = 1 - p OBVIOUS
    <3> QED BY <1>4, <1>5, <2>1, <3>2, <3>3
  <2>2. CASE e # FenceLine
    BY <1>4, <1>5, <2>2
  <2> QED BY <2>1, <2>2
<1>7. ASSUME NEW i \in 1..(n + 1), u[i] # FenceLine
      PROVE  u[i][1] = "row" <=> Cardinality(FencePlaces(u, i)) % 2 = 1
  <2>1. CASE i = n + 1
    <3>1. e # FenceLine BY <1>1, <1>7, <2>1
    <3>2. q = p /\ (e[1] = "row" <=> p = 1) BY <3>1
    <3> QED BY <1>1, <1>6, <2>1, <3>2
  <2>2. CASE i # n + 1
    <3>1. i \in 1..n /\ i \in 0..n BY <1>1, <2>2
    <3>2. u[i] = t[i] /\ FencePlaces(u, i) = FencePlaces(t, i) BY <1>1, <1>2, <3>1
    <3>3. t[i] # FenceLine => (t[i][1] = "row" <=> Cardinality(FencePlaces(t, i)) % 2 = 1)
      BY <3>1 DEF Balanced, n
    <3> QED BY <1>7, <3>2, <3>3
  <2> QED BY <2>1, <2>2
<1> QED BY <1>1, <1>6, <1>7 DEF Balanced, u

\* Rows stay inside.
LEMMA BalancedRows ==
  ASSUME NEW t \in Seq(OutLine), Balanced(t, 1), NEW rows \in Seq(Row)
  PROVE  Balanced(t \o rows, 1)
<1> DEFINE P == {u \in Seq(Row) : t \o u \in Seq(OutLine) /\ Balanced(t \o u, 1)}
<1>1. <<>> \in P
  BY EmptySeq, ConcatEmptySeq
<1>2. ASSUME NEW u \in Seq(Row), NEW e \in Row, u \in P PROVE Append(u, e) \in P
  <2>1. u \in Seq(OutLine) /\ e \in OutLine /\ e # FenceLine /\ e[1] = "row"
    BY LineKinds
  <2>2. t \o Append(u, e) = Append(t \o u, e)
    BY <2>1, AppendToConcat
  <2>3. Balanced(Append(t \o u, e), 1)
    BY <1>2, <2>1, BalancedAppend
  <2>4. Append(u, e) \in Seq(Row) /\ Append(t \o u, e) \in Seq(OutLine)
    BY <1>2, <2>1, AppendProperties
  <2> QED BY <2>2, <2>3, <2>4
<1> HIDE DEF P
<1>3. Seq(Row) \subseteq P
  BY <1>1, <1>2, SeqInduction
<1>4. rows \in P
  BY <1>3
<1> QED BY <1>4 DEF P

\* A block begins and ends outside, and adds its rows and nothing else.
LEMMA BalancedBlock ==
  ASSUME NEW t \in Seq(OutLine), Balanced(t, 0), NEW rows \in Seq(Row)
  PROVE  /\ t \o Block(rows) \in Seq(OutLine) /\ Balanced(t \o Block(rows), 0)
         /\ Without(t \o Block(rows), {FenceLine}) = Without(t, {FenceLine}) \o rows
<1> DEFINE D == {FenceLine}
           one == <<FenceLine>>
<1>1. /\ Block(rows) = Append(one \o rows, FenceLine)
      /\ one \in Seq(OutLine) /\ one \o rows \in Seq(OutLine)
      /\ Block(rows) \in Seq(OutLine) /\ rows \in Seq(OutLine) /\ FenceLine \in OutLine
  BY BlockType, LineKinds
<1>2. t \o one = Append(t, FenceLine) /\ t \o one \in Seq(OutLine)
  BY <1>1, AppendIsConcat, AppendProperties
<1>3. Balanced(t \o one, 1)
  <2>1. Balanced(Append(t, FenceLine), 1)
    BY <1>1, BalancedAppend
  <2> QED BY <1>2, <2>1
<1> HIDE DEF one
<1>4. (t \o one) \o rows \in Seq(OutLine) /\ Balanced((t \o one) \o rows, 1)
  BY <1>1, <1>2, <1>3, BalancedRows, ConcatProperties
<1>5. (t \o one) \o rows = t \o (one \o rows)
  BY <1>1, ConcatAssociative
<1>6. t \o Block(rows) = Append((t \o one) \o rows, FenceLine)
  <2>1. t \o Append(one \o rows, FenceLine) = Append(t \o (one \o rows), FenceLine)
    BY <1>1, AppendToConcat
  <2> QED BY <1>1, <1>5, <2>1
<1>7. Balanced(Append((t \o one) \o rows, FenceLine), 0)
  <2> DEFINE w == (t \o one) \o rows
  <2>1. w \in Seq(OutLine) /\ Balanced(w, 1) BY <1>4
  <2> HIDE DEF w
  <2>2. Balanced(Append(w, FenceLine), 0) BY <1>1, <2>1, BalancedAppend
  <2> QED BY <2>2 DEF w
<1>8. t \o Block(rows) \in Seq(OutLine)
  BY <1>1, ConcatProperties
<1>9. Without(Append((t \o one) \o rows, FenceLine), D) = Without((t \o one) \o rows, D)
  <2>1. Without(Append((t \o one) \o rows, FenceLine), D) =
          IF FenceLine \in D THEN Without((t \o one) \o rows, D)
          ELSE Append(Without((t \o one) \o rows, D), FenceLine)
    BY <1>1, <1>4, WithoutStep, ZenonT(60)
  <2> QED BY <2>1
<1>10. Without((t \o one) \o rows, D) = Without(t \o one, D) \o Without(rows, D)
  BY <1>1, <1>2, WithoutConcat, ZenonT(60)
<1>11. Without(t \o one, D) = Without(t, D)
  <2>1. Without(Append(t, FenceLine), D) =
          IF FenceLine \in D THEN Without(t, D) ELSE Append(Without(t, D), FenceLine)
    BY <1>1, WithoutStep
  <2> QED BY <1>2, <2>1
<1>12. Without(rows, D) = rows
  <2>1. \A x \in Row : x \notin D BY LineKinds
  <2> QED BY <2>1, WithoutNone
<1> QED BY <1>6, <1>7, <1>8, <1>9, <1>10, <1>11, <1>12

\* What the loop has done with the lines so far.
Converted(lines, s) ==
  /\ s \in TableState
  /\ s.rows # <<>> => s.table
  /\ Balanced(s.out, 0)
  /\ Without(s.out, {FenceLine}) \o s.rows = Without(lines, Separator)

\* Whatever lines have been read, none is lost but separators.
LEMMA LinesAreConverted ==
  ASSUME NEW lines \in Seq(TextLine)
  PROVE  Converted(lines, ReadLines(lines))
<1> DEFINE P == {u \in Seq(TextLine) : Converted(u, ReadLines(u))}
           D == {FenceLine}
<1>1. <<>> \in P
  <2>1. ReadLines(<<>>) = NoTable BY ReadBase
  <2>2. Without(<<>>, Separator) = <<>> BY WithoutBase
  <2>3. Without(<<>>, D) = <<>> BY WithoutBase
  <2>4. <<>> \in Seq(OutLine) /\ <<>> \in Seq(Row) /\ <<>> \in Seq(TextLine) /\ Len(<<>>) = 0
    BY EmptySeq
  <2>5. Balanced(<<>>, 0)
    <3> DEFINE w == <<>>
    <3>1. Len(w) = 0 BY <2>4
    <3> HIDE DEF w
    <3>2. FencePlaces(w, Len(w)) = {} BY <3>1 DEF FencePlaces
    <3>3. Cardinality({}) = 0 BY FS_EmptySet
    <3>4. 1..Len(w) = {} /\ 0 % 2 = 0 BY <3>1
    <3>5. Balanced(w, 0) BY <3>2, <3>3, <3>4 DEF Balanced
    <3> QED BY <3>5 DEF w
  <2>6. <<>> \o <<>> = <<>> BY <2>4, ConcatEmptySeq
  <2>7. Converted(<<>>, NoTable)
    BY <2>2, <2>3, <2>4, <2>5, <2>6 DEF Converted, NoTable, TableState
  <2> QED BY <2>1, <2>4, <2>7
<1>2. ASSUME NEW u \in Seq(TextLine), NEW l \in TextLine, u \in P PROVE Append(u, l) \in P
  <2> DEFINE s == ReadLines(u)
             z == ReadLines(Append(u, l))
             kept == Without(u, Separator)
  <2>1. Append(u, l) \in Seq(TextLine)
    BY AppendProperties
  <2>2. z = TableStep(s, l)
    BY ReadStep
  <2>3. /\ s \in TableState /\ (s.rows # <<>> => s.table) /\ Balanced(s.out, 0)
        /\ Without(s.out, D) \o s.rows = kept
    BY <1>2 DEF Converted
  <2>4. /\ Without(u, Separator) \in Seq(TextLine)
        /\ Without(Append(u, l), Separator) = IF l \in Separator THEN kept ELSE Append(kept, l)
    BY WithoutStep
  <2> HIDE DEF s, z, kept
  <2>5. s.out \in Seq(OutLine) /\ s.rows \in Seq(Row) /\ s.table \in BOOLEAN /\ l \in OutLine
    BY <2>3, LineKinds DEF TableState
  <2>6. s.rows \in Seq(OutLine) /\ Without(s.out, D) \in Seq(OutLine)
    BY <2>5, BlockType, WithoutType
  <2>7. z \in TableState
    BY <2>2, <2>3, TableStepIs
  <2>8. CASE l[1] = "separator"
    <3>1. z = [out |-> s.out, table |-> TRUE, rows |-> s.rows] BY <2>2, <2>3, <2>8, TableStepIs
    <3>2. l \in Separator BY <2>8 DEF Separator
    <3>3. Converted(Append(u, l), z)
      BY <2>3, <2>4, <2>7, <3>1, <3>2 DEF Converted
    <3> QED BY <2>1, <3>3 DEF z
  <2>9. CASE l[1] = "row"
    <3>1. z = [out |-> s.out, table |-> TRUE, rows |-> Append(s.rows, l)]
      BY <2>2, <2>3, <2>9, TableStepIs
    <3>2. l \notin Separator BY <2>9 DEF Separator
    <3>3. Without(s.out, D) \o Append(s.rows, l) = Append(kept, l)
      <4> DEFINE a == Without(s.out, D)
                 c == s.rows
      <4>1. a \in Seq(OutLine) /\ c \in Seq(OutLine) /\ l \in OutLine /\ a \o c = kept
        BY <2>3, <2>5, <2>6
      <4> HIDE DEF a, c
      <4>2. a \o Append(c, l) = Append(a \o c, l) BY <4>1, AppendToConcat
      <4> QED BY <4>1, <4>2 DEF a, c
    <3>4. Converted(Append(u, l), z)
      BY <2>3, <2>4, <2>7, <3>1, <3>2, <3>3 DEF Converted
    <3> QED BY <2>1, <3>4 DEF z
  <2>10. CASE l[1] = "text"
    <3>1. l \notin Separator BY <2>10 DEF Separator
    <3>2. l # FenceLine /\ l[1] # "row" BY <2>10, LineKinds
    <3> DEFINE t == IF s.table THEN s.out \o Block(s.rows) ELSE s.out
    <3>3. t \in Seq(OutLine) /\ Balanced(t, 0) /\ Without(t, D) = kept
      <4>1. CASE s.table
        BY <2>3, <2>5, <4>1, BalancedBlock
      <4>2. CASE ~s.table
        <5>1. s.rows = <<>> BY <2>3, <4>2
        <5>2. Without(s.out, D) \o <<>> = Without(s.out, D) BY <2>6, ConcatEmptySeq
        <5> QED BY <2>3, <2>5, <4>2, <5>1, <5>2
      <4> QED BY <4>1, <4>2
    <3>4. z = [out |-> Append(t, l), table |-> FALSE, rows |-> <<>>]
      BY <2>2, <2>3, <2>5, <2>10, TableStepIs
    <3> HIDE DEF t
    <3>5. Balanced(Append(t, l), 0)
      BY <2>5, <3>2, <3>3, BalancedAppend
    <3>6. Without(Append(t, l), D) = Append(kept, l)
      <4>1. Without(Append(t, l), D) = IF l \in D THEN Without(t, D) ELSE Append(Without(t, D), l)
        BY <2>5, <3>3, WithoutStep
      <4> QED BY <3>2, <3>3, <4>1
    <3>7. Append(kept, l) \o <<>> = Append(kept, l)
      <4>1. Append(kept, l) \in Seq(TextLine) BY <2>4, AppendProperties DEF kept
      <4> QED BY <4>1, ConcatEmptySeq
    <3>8. Converted(Append(u, l), z)
      BY <2>4, <2>7, <3>1, <3>4, <3>5, <3>6, <3>7 DEF Converted
    <3> QED BY <2>1, <3>8 DEF z
  <2>11. l[1] \in {"row", "separator", "text"}
    BY DEF TextLine
  <2> QED BY <2>8, <2>9, <2>10, <2>11
<1> HIDE DEF P
<1>3. Seq(TextLine) \subseteq P
  BY <1>1, <1>2, SeqInduction
<1>4. lines \in P
  BY <1>3
<1> QED BY <1>4 DEF P

\* The tables of any text, of any length, keep their rows and the lines around
\* them their order, and the rows are what stands between the fences of a pair.
THEOREM TablesComeBack ==
  ASSUME NEW lines \in Seq(TextLine)
  PROVE  TableRowsComeBack(lines)
<1> DEFINE s == ReadLines(lines)
           z == ConvertTables(lines)
           D == {FenceLine}
           seps == {l \in Range(lines) : l[1] = "separator"}
<1>1. Converted(lines, s)
  BY LinesAreConverted
<1>2. z = IF s.rows # <<>> THEN s.out \o Block(s.rows) ELSE s.out
  BY TablesAreRead
<1> HIDE DEF s, z, seps
<1>3. s.out \in Seq(OutLine) /\ s.rows \in Seq(Row)
  BY <1>1 DEF Converted, TableState
<1>4. z \in Seq(OutLine) /\ Balanced(z, 0) /\ Without(z, D) = Without(lines, Separator)
  <2>1. CASE s.rows # <<>>
    BY <1>1, <1>2, <1>3, <2>1, BalancedBlock DEF Converted
  <2>2. CASE s.rows = <<>>
    <3>1. Without(s.out, D) \in Seq(OutLine) BY <1>3, WithoutType
    <3>2. Without(s.out, D) \o <<>> = Without(s.out, D) BY <3>1, ConcatEmptySeq
    <3> QED BY <1>1, <1>2, <1>3, <2>2, <3>2 DEF Converted
  <2> QED BY <2>1, <2>2
<1>5. Without(lines, Separator) = Without(lines, seps)
  <2>1. lines \in Seq(Range(lines)) BY SeqOfRange
  <2>2. Range(lines) \in SUBSET TextLine BY RangeOfSeq
  <2>3. \A x \in Range(lines) : x \in Separator <=> x \in seps BY <2>2 DEF Separator, seps
  <2> QED BY <2>1, <2>3, WithoutSame
<1>6. \A n \in 1..Len(z) : FencePlaces(z, n) = {i \in 1..n : z[i] = FenceLine}
  BY DEF FencePlaces
<1>7. FencePlaces(z, Len(z)) = {i \in 1..Len(z) : z[i] = FenceLine}
  BY DEF FencePlaces
<1> QED BY <1>4, <1>5, <1>6, <1>7 DEF TableRowsComeBack, Balanced, z, seps

-----------------------------------------------------------------------------
(* Putting back what was taken out.                                         *)

\* A text with one of its elements singled out.
LEMMA SplitAt ==
  ASSUME NEW A, NEW u \in Seq(A), NEW i \in 1..Len(u)
  PROVE  /\ SubSeq(u, 1, i - 1) \in Seq(A) /\ SubSeq(u, i + 1, Len(u)) \in Seq(A)
         /\ u = (SubSeq(u, 1, i - 1) \o <<u[i]>>) \o SubSeq(u, i + 1, Len(u))
         /\ \A h \in 1..(i - 1) : SubSeq(u, 1, i - 1)[h] = u[h]
         /\ Len(SubSeq(u, 1, i - 1)) = i - 1
<1>1. Len(u) \in Nat /\ u \in [1..Len(u) -> A]
  BY LenProperties
<1>2. SubSeq(u, 1, i - 1) \in Seq(A) /\ Len(SubSeq(u, 1, i - 1)) = i - 1
      /\ \A h \in 1..(i - 1) : SubSeq(u, 1, i - 1)[h] = u[h]
  <2>1. \A h \in 1..(i - 1) : u[h] \in A BY <1>1
  <2>2. 1 \in Int /\ i - 1 \in Int BY <1>1
  <2>3. /\ SubSeq(u, 1, i - 1) \in Seq(A)
        /\ Len(SubSeq(u, 1, i - 1)) = IF 1 <= i - 1 THEN (i - 1) - 1 + 1 ELSE 0
        /\ \A h \in 1..((i - 1) - 1 + 1) : SubSeq(u, 1, i - 1)[h] = u[1 + h - 1]
    BY <2>1, <2>2, SubSeqProperties
  <2> QED BY <1>1, <2>3
<1>3. SubSeq(u, i + 1, Len(u)) \in Seq(A)
  <2>1. \A h \in (i + 1)..Len(u) : u[h] \in A BY <1>1
  <2>2. i + 1 \in Int /\ Len(u) \in Int BY <1>1
  <2> QED BY <2>1, <2>2, SubSeqProperties
<1>4. SubSeq(u, 1, i) = SubSeq(u, 1, i - 1) \o <<u[i]>>
  <2>1. 1 \in 1..Len(u) /\ i \in 1..Len(u) BY <1>1
  <2> QED BY <2>1, SubSeqRecursiveSecond
<1>5. SubSeq(u, 1, i) \o SubSeq(u, i + 1, Len(u)) = SubSeq(u, 1, Len(u))
  <2>1. 1 \in 1..(Len(u) + 1) /\ i \in (1 - 1)..Len(u) /\ Len(u) \in i..Len(u) BY <1>1
  <2> QED BY <2>1, ConcatAdjacentSubSeq
<1>6. SubSeq(u, 1, Len(u)) = u
  BY SubSeqFull
<1> QED BY <1>2, <1>3, <1>4, <1>5, <1>6

\* a replaced by by, everything else left alone.
Single(A, a, by) == [x \in A |-> IF x = a THEN by ELSE <<x>>]

\* Replacing the first occurrence of an atom that occurs once at most replaces
\* them all: strings.Replace(text, placeholder, original, 1).
LEMMA ReplaceOnce ==
  ASSUME NEW A, NEW a \in A, NEW by \in Seq(A), NEW u \in Seq(A), Count(u, a) <= 1
  PROVE  Replace(u, a, by) = Expand(u, Single(A, a, by)) /\ Replace(u, a, by) \in Seq(A)
<1> DEFINE sub == Single(A, a, by)
           B == A \ {a}
<1>1. sub \in [A -> Seq(A)] /\ sub[a] = by /\ \A x \in B : sub[x] = <<x>>
  <2>1. \A x \in A : <<x>> \in Seq(A) BY OneElement
  <2> QED BY <2>1 DEF Single
<1> HIDE DEF sub
<1>2. B \in SUBSET A
  OBVIOUS
<1>3. Expand(u, sub) \in Seq(A)
  BY <1>1, ExpandType
<1>4. CASE ~\E i \in 1..Len(u) : u[i] = a
  <2>1. Replace(u, a, by) = u BY <1>4 DEF Replace
  <2>2. u \in Seq(B)
    <3>1. Len(u) \in Nat /\ u \in [1..Len(u) -> A] BY LenProperties
    <3>2. u \in [1..Len(u) -> B] BY <1>4, <3>1
    <3> QED BY <3>1, <3>2, SeqDef
  <2> HIDE DEF B
  <2>3. Expand(u, sub) = u BY <1>1, <1>2, <2>2, ExpandNone
  <2> QED BY <1>3, <2>1, <2>3 DEF sub
<1>5. CASE \E i \in 1..Len(u) : u[i] = a
  <2> HIDE DEF B
  <2>1. ASSUME NEW i \in 1..Len(u), u[i] = a
        PROVE  /\ SubSeq(u, 1, i - 1) \in Seq(B) /\ SubSeq(u, i + 1, Len(u)) \in Seq(B)
               /\ u = (SubSeq(u, 1, i - 1) \o <<a>>) \o SubSeq(u, i + 1, Len(u))
               /\ \A h \in 1..(i - 1) : u[h] # a
    <3> DEFINE p == SubSeq(u, 1, i - 1)
               q == SubSeq(u, i + 1, Len(u))
               one == <<a>>
    <3>1. /\ p \in Seq(A) /\ q \in Seq(A) /\ u = (p \o one) \o q
          /\ \A h \in 1..(i - 1) : p[h] = u[h]
          /\ Len(p) = i - 1
      BY <2>1, SplitAt
    <3>2. one \in Seq(A) /\ Count(one, a) = 1
      BY OneElement, CountOne
    <3> HIDE DEF p, q, one
    <3>3. Count(p \o one, a) = Count(p, a) + Count(one, a) /\ p \o one \in Seq(A)
      BY <3>1, <3>2, CountConcat, ConcatProperties
    <3>4. Count((p \o one) \o q, a) = Count(p \o one, a) + Count(q, a)
      BY <3>1, <3>3, CountConcat
    <3>5. Count(p, a) \in Nat /\ Count(q, a) \in Nat
      BY <3>1, CountType
    <3>6. Count(p, a) = 0 /\ Count(q, a) = 0
      BY <3>1, <3>2, <3>3, <3>4, <3>5
    <3>7. p \in Seq(B) /\ q \in Seq(B)
      BY <3>1, <3>6, CountZero DEF B
    <3>8. \A h \in 1..(i - 1) : u[h] # a
      <4>1. \A h \in 1..Len(p) : p[h] \in B BY <3>7, ElementOfSeq
      <4> QED BY <3>1, <4>1 DEF B
    <3> QED BY <3>1, <3>7, <3>8 DEF p, q, one
  <2> DEFINE First(i) == u[i] = a /\ \A h \in 1..(i - 1) : u[h] # a
             k == CHOOSE i \in 1..Len(u) : First(i)
  <2>2. k \in 1..Len(u) /\ u[k] = a
    <3>1. \E i \in 1..Len(u) : First(i) BY <1>5, <2>1
    <3>2. k \in 1..Len(u) /\ First(k)
      <4> HIDE DEF First
      <4> QED BY <3>1
    <3> QED BY <3>2
  <2> DEFINE p == SubSeq(u, 1, k - 1)
             q == SubSeq(u, k + 1, Len(u))
             one == <<a>>
  <2>3. Replace(u, a, by) = (p \o by) \o q
    BY <1>5 DEF Replace
  <2> HIDE DEF k
  <2>4. p \in Seq(B) /\ q \in Seq(B) /\ u = (p \o one) \o q
    BY <2>1, <2>2
  <2>5. one \in Seq(A) /\ Expand(one, sub) = by
    <3>1. one \in Seq(A) BY OneElement
    <3>2. Expand(one, sub) = sub[a] BY <1>1, ExpandOne
    <3> QED BY <1>1, <3>1, <3>2
  <2> HIDE DEF p, q, one
  <2>6. p \in Seq(A) /\ q \in Seq(A)
    BY <1>2, <2>4
  <2>7. Expand(p, sub) = p /\ Expand(q, sub) = q
    BY <1>1, <1>2, <2>4, ExpandNone
  <2>8. Expand(p \o one, sub) = Expand(p, sub) \o Expand(one, sub) /\ p \o one \in Seq(A)
    BY <1>1, <2>5, <2>6, ExpandConcat, ConcatProperties
  <2>9. Expand((p \o one) \o q, sub) = Expand(p \o one, sub) \o Expand(q, sub)
    BY <1>1, <2>6, <2>8, ExpandConcat
  <2>10. Replace(u, a, by) = Expand(u, sub)
    BY <2>3, <2>4, <2>5, <2>7, <2>8, <2>9
  <2> QED BY <1>3, <2>10 DEF sub
<1> QED BY <1>4, <1>5

\* The kinds of atoms: those of a text, and the three placeholders.
Kinds == {"tick", "special", "escaped", "mention", "word", "break", "newline", "mark", "open",
          "close", "escapedOpen", "escapedClose", "ST", "CB", "IC"}
Atom == Kinds \X Nat

\* An atom is its kind and its number.
LEMMA AtomIs ==
  ASSUME NEW x \in Atom
  PROVE  x = <<x[1], x[2]>> /\ x[1] \in Kinds /\ x[2] \in Nat
BY DEF Atom

\* The atoms that are no placeholder of the kind.
Free(kind) == {x \in Atom : x[1] # kind}

\* The first n placeholders of a kind stand for what was saved.
Sub(saved, kind, n) ==
  [x \in Atom |-> IF x[1] = kind /\ x[2] \in 1..n THEN saved[x[2]] ELSE <<x>>]

\* The text with every placeholder of the kind replaced at once.
Put(text, saved, kind) == Expand(text, Sub(saved, kind, Len(saved)))

\* What a placeholder stands for; any other atom stands for itself.
LEMMA SubIs ==
  ASSUME NEW saved \in Seq(Seq(Atom)), NEW kind, NEW n \in 0..Len(saved)
  PROVE  /\ Sub(saved, kind, n) \in [Atom -> Seq(Atom)]
         /\ \A x \in Atom :
              IF x[1] = kind /\ x[2] \in 1..n
              THEN Sub(saved, kind, n)[x] = saved[x[2]] /\ x[2] \in 1..Len(saved)
              ELSE Sub(saved, kind, n)[x] = <<x>>
         /\ \A x \in Free(kind) : Sub(saved, kind, n)[x] = <<x>>
<1>1. Len(saved) \in Nat /\ \A i \in 1..Len(saved) : saved[i] \in Seq(Atom)
  BY LenProperties, ElementOfSeq
<1>2. \A x \in Atom : <<x>> \in Seq(Atom)
  BY OneElement
<1>3. \A i \in 1..n : i \in 1..Len(saved)
  BY <1>1
<1>4. \A x \in Atom : (IF x[1] = kind /\ x[2] \in 1..n THEN saved[x[2]] ELSE <<x>>) \in Seq(Atom)
  BY <1>1, <1>2, <1>3
<1> QED BY <1>3, <1>4 DEF Sub, Free

\* r: the text after each of the replacements.
Restored(r, text, saved, kind) ==
  /\ r \in [0..Len(saved) -> Seq(Atom)]
  /\ r[0] = text
  /\ \A n \in 1..Len(saved) : r[n] = Replace(r[n - 1], <<kind, n>>, saved[n])
  /\ Restore(text, saved, kind) = r[Len(saved)]

\* A text in which one atom was replaced is a text.
LEMMA ReplaceType ==
  ASSUME NEW A, NEW u \in Seq(A), NEW a, NEW by \in Seq(A)
  PROVE  Replace(u, a, by) \in Seq(A)
<1>1. CASE ~\E i \in 1..Len(u) : u[i] = a
  BY <1>1 DEF Replace
<1>2. CASE \E i \in 1..Len(u) : u[i] = a
  <2> DEFINE T == {i \in 1..Len(u) : u[i] = a /\ \A h \in 1..(i - 1) : u[h] # a}
             S == {n \in Nat : (\E i \in 1..n : i <= Len(u) /\ u[i] = a) => T # {}}
             k == CHOOSE i \in 1..Len(u) : u[i] = a /\ \A h \in 1..(i - 1) : u[h] # a
  <2>1. Len(u) \in Nat BY LenProperties
  <2>2. 0 \in S OBVIOUS
  <2>3. ASSUME NEW n \in Nat, n \in S PROVE n + 1 \in S
    <3> SUFFICES ASSUME NEW i \in 1..(n + 1), i <= Len(u), u[i] = a, T = {} PROVE FALSE
      OBVIOUS
    <3>1. \A h \in 1..n : h <= Len(u) => u[h] # a BY <2>3
    <3>2. i = n + 1 BY <3>1
    <3>3. \A h \in 1..(i - 1) : u[h] # a BY <2>1, <3>1, <3>2
    <3>4. i \in T BY <2>1, <3>3
    <3> QED BY <3>4
  <2>4. Len(u) \in S
    <3> HIDE DEF S
    <3> QED BY <2>1, <2>2, <2>3, Induction
  <2>5. T # {}
    <3> HIDE DEF T
    <3> QED BY <1>2, <2>1, <2>4
  <2>6. k \in 1..Len(u) BY <2>5
  <2>7. Replace(u, a, by) = (SubSeq(u, 1, k - 1) \o by) \o SubSeq(u, k + 1, Len(u))
    BY <1>2 DEF Replace
  <2> HIDE DEF k
  <2>8. SubSeq(u, 1, k - 1) \in Seq(A) /\ SubSeq(u, k + 1, Len(u)) \in Seq(A) BY <2>6, SplitAt
  <2>9. SubSeq(u, 1, k - 1) \o by \in Seq(A) BY <2>8, ConcatProperties
  <2> QED BY <2>7, <2>8, <2>9, ConcatProperties
<1> QED BY <1>1, <1>2

\* The numbers from 1 to n, in order.
IsIds(ids, n) == ids = [i \in 1..n |-> i]

\* Restore replaces the placeholders one after the other.
LEMMA RestoreRun ==
  ASSUME NEW kind, NEW saved \in Seq(Seq(Atom)), NEW text \in Seq(Atom),
         NEW ids \in Seq(1..Len(saved)), IsIds(ids, Len(saved)), Len(ids) = Len(saved)
  PROVE  \E r : Restored(r, text, saved, kind)
<1> DEFINE F == [p \in Seq(Atom) \X (1..Len(saved)) |-> Replace(p[1], <<kind, p[2]>>, saved[p[2]])]
           Step(g) == [T \in SUBSET DOMAIN ids |->
                         IF T = {} THEN text ELSE Replace(g[T \ {Max(T)}], <<kind, ids[Max(T)]>>, saved[ids[Max(T)]])]
           it == CHOOSE g : g = Step(g)
<1>1. Len(ids) \in Nat /\ DOMAIN ids = 1..Len(ids)
  BY LenProperties
<1>2. ASSUME NEW x \in Seq(Atom), NEW y \in (1..Len(saved)) PROVE Replace(x, <<kind, y>>, saved[y]) \in Seq(Atom)
  <2>1. saved[y] \in Seq(Atom) BY ElementOfSeq
  <2> QED BY <2>1, ReplaceType
<1>3. F \in [Seq(Atom) \X (1..Len(saved)) -> Seq(Atom)]
  BY <1>2
<1>4. ASSUME NEW x \in Seq(Atom), NEW y \in (1..Len(saved)) PROVE F[<<x, y>>] = Replace(x, <<kind, y>>, saved[y])
  OBVIOUS
<1>5. ASSUME NEW T \in SUBSET (1..Len(ids)), T # {} PROVE ids[Max(T)] \in (1..Len(saved))
  <2>1. Max(T) \in 1..Len(ids) BY <1>1, <1>5, MaxOf
  <2> QED BY <2>1, ElementOfSeq
<1>b. text \in Seq(Atom)
  OBVIOUS
<1> HIDE DEF F
<1>6. \E g : g = Step(g)
  <2>1. PICK g \in [SUBSET (1..Len(ids)) -> Seq(Atom)] : IsFold(g, F, text, ids)
    BY <1>3, <1>b, FoldExists
  <2>2. ASSUME NEW T \in SUBSET (1..Len(ids)), T # {}
        PROVE  F[<<g[T \ {Max(T)}], ids[Max(T)]>>] = Replace(g[T \ {Max(T)}], <<kind, ids[Max(T)]>>, saved[ids[Max(T)]])
    BY <1>4, <1>5, <2>2
  <2>3. g = Step(g) BY <1>1, <2>1, <2>2 DEF IsFold
  <2> QED BY <2>3
<1>7. it = Step(it)
  <2> HIDE DEF Step
  <2> QED BY <1>6
<1>8. Restore(text, saved, kind) = it[DOMAIN ids]
  BY DEF FoldLeft, MapThenFoldSet, Restore, IsIds
<1> HIDE DEF it
<1>9. Folds(it, Seq(Atom), F, text, ids)
  <2>1. ASSUME NEW T \in SUBSET (1..Len(ids))
        PROVE  it[T] = IF T = {} THEN text ELSE Replace(it[T \ {Max(T)}], <<kind, ids[Max(T)]>>, saved[ids[Max(T)]])
    BY <1>1, <1>7
  <2> QED BY <1>4, <1>5, <2>1 DEF Folds
<1>10. PICK r \in [0..Len(ids) -> Seq(Atom)] : Path(r, it, F, text, ids)
  BY <1>3, <1>9, <1>b, FoldPath
<1>11. ASSUME NEW n \in 1..Len(ids) PROVE r[n] = Replace(r[n - 1], <<kind, ids[n]>>, saved[ids[n]])
  <2>0. n - 1 \in 0..Len(ids) BY <1>1
  <2>1. r[n - 1] \in Seq(Atom) BY <2>0
  <2>2. ids[n] \in (1..Len(saved)) BY ElementOfSeq
  <2>3. r[n] = F[<<r[n - 1], ids[n]>>] BY <1>10 DEF Path
  <2>4. F[<<r[n - 1], ids[n]>>] = Replace(r[n - 1], <<kind, ids[n]>>, saved[ids[n]]) BY <1>4, <2>1, <2>2
  <2> QED BY <2>3, <2>4
<1>12. r[0] = text /\ Restore(text, saved, kind) = r[Len(ids)]
  <2>1. r[0] = text BY <1>10 DEF Path
  <2>2. r[Len(ids)] = it[1..Len(ids)]
    <3>1. Len(ids) \in 0..Len(ids) BY <1>1
    <3> QED BY <1>10, <3>1 DEF Path
  <2> QED BY <1>1, <1>8, <2>1, <2>2
<1> QED BY <1>10, <1>11, <1>12 DEF Restored, IsIds

\* Each placeholder of the kind occurs once at most.
AtMostOnce(text, kind, n) == \A i \in 1..n : Count(text, <<kind, i>>) <= 1

\* Restoring all that was saved is one substitution.
LEMMA RestoreIsPut ==
  ASSUME NEW kind \in Kinds, NEW saved \in Seq(Seq(Free(kind))), NEW text \in Seq(Atom),
         AtMostOnce(text, kind, Len(saved))
  PROVE  Restore(text, saved, kind) = Put(text, saved, kind)
<1>1. Free(kind) \in SUBSET Atom
  BY DEF Free
<1>2. saved \in Seq(Seq(Atom)) /\ Len(saved) \in Nat
  <2>1. Seq(Free(kind)) \subseteq Seq(Atom) BY <1>1
  <2> QED BY <2>1, LenProperties
<1>3. PICK r : Restored(r, text, saved, kind)
  <2> DEFINE ids == [n \in 1..Len(saved) |-> n]
  <2>1. ids \in Seq(1..Len(saved)) /\ Len(ids) = Len(saved)
    BY <1>2, SeqDef
  <2>2. IsIds(ids, Len(saved)) BY DEF IsIds
  <2> HIDE DEF ids
  <2> QED BY <1>2, <2>1, <2>2, RestoreRun
<1> DEFINE S == {n \in Nat : n <= Len(saved) => r[n] = Expand(text, Sub(saved, kind, n))}
<1>4. 0 \in S
  <2>1. 0 \in 0..Len(saved) BY <1>2
  <2>2. Sub(saved, kind, 0) \in [Atom -> Seq(Atom)] BY <1>2, <2>1, SubIs
  <2>3. \A x \in Atom : Sub(saved, kind, 0)[x] = <<x>>
    <3>1. 1..0 = {} OBVIOUS
    <3> QED BY <1>2, <2>1, <3>1, SubIs
  <2>4. Expand(text, Sub(saved, kind, 0)) = text
    <3> DEFINE sub == Sub(saved, kind, 0)
    <3>1. sub \in [Atom -> Seq(Atom)] /\ \A x \in Atom : sub[x] = <<x>> BY <2>2, <2>3
    <3> HIDE DEF sub
    <3>2. Expand(text, sub) = text BY <3>1, ExpandNone
    <3> QED BY <3>2 DEF sub
  <2> QED BY <1>3, <2>4 DEF Restored
<1>5. ASSUME NEW n \in Nat, n \in S PROVE n + 1 \in S
  <2> SUFFICES ASSUME n + 1 <= Len(saved) PROVE r[n + 1] = Expand(text, Sub(saved, kind, n + 1))
    OBVIOUS
  <2> DEFINE a == <<kind, n + 1>>
             z == saved[n + 1]
             sub == Sub(saved, kind, n)
             by == Single(Atom, a, z)
             both == Sub(saved, kind, n + 1)
             u == Expand(text, sub)
  <2>1. n + 1 \in 1..Len(saved) /\ (n + 1) - 1 = n /\ n \in 0..Len(saved) /\ n + 1 \in 0..Len(saved)
    BY <1>2
  <2>2. r[n] = u /\ r[n + 1] = Replace(u, a, z)
    BY <1>2, <1>3, <1>5, <2>1 DEF Restored
  <2>3. a \in Atom /\ a[1] = kind /\ a[2] = n + 1
    BY DEF Atom
  <2>4. \A i \in 1..Len(saved) : saved[i] \in Seq(Free(kind)) /\ saved[i] \in Seq(Atom)
    BY <1>2, ElementOfSeq
  <2>5. /\ sub \in [Atom -> Seq(Atom)]
        /\ \A x \in Atom : IF x[1] = kind /\ x[2] \in 1..n
                           THEN sub[x] = saved[x[2]] /\ x[2] \in 1..Len(saved)
                           ELSE sub[x] = <<x>>
    BY <1>2, <2>1, SubIs
  <2>6. /\ both \in [Atom -> Seq(Atom)]
        /\ \A x \in Atom : IF x[1] = kind /\ x[2] \in 1..(n + 1)
                           THEN both[x] = saved[x[2]] /\ x[2] \in 1..Len(saved)
                           ELSE both[x] = <<x>>
    BY <1>2, <2>1, SubIs
  <2>7. z \in Seq(Atom) /\ z \in Seq(Free(kind))
    BY <2>1, <2>4
  <2>8. by \in [Atom -> Seq(Atom)] /\ by[a] = z /\ \A x \in Atom : x # a => by[x] = <<x>>
    <3>1. \A x \in Atom : <<x>> \in Seq(Atom) BY OneElement
    <3> QED BY <2>3, <2>7, <3>1 DEF Single
  <2>9. a \notin Free(kind)
    BY <2>3 DEF Free
  <2>10. Count(text, a) <= 1 /\ Count(text, a) \in Nat
    BY <2>1, CountType DEF AtMostOnce
  <2> HIDE DEF a, z, sub, by, both, u
  <2>11. u \in Seq(Atom)
    BY <2>5, ExpandType DEF u
  <2>12. Count(u, a) <= 1
    <3>1. \A x \in Atom : Count(sub[x], a) <= IF x = a THEN 1 ELSE 0
      <4> SUFFICES ASSUME NEW x \in Atom PROVE Count(sub[x], a) <= IF x = a THEN 1 ELSE 0
        OBVIOUS
      <4>1. CASE x[1] = kind /\ x[2] \in 1..n
        <5>1. sub[x] = saved[x[2]] /\ x[2] \in 1..Len(saved) BY <2>5, <4>1
        <5>2. sub[x] \in Seq(Free(kind)) BY <2>4, <5>1
        <5>3. Count(sub[x], a) = 0 BY <2>9, <5>2, CountNone
        <5> QED BY <5>3
      <4>2. CASE ~(x[1] = kind /\ x[2] \in 1..n)
        <5>1. sub[x] = <<x>> BY <2>5, <4>2
        <5>2. Count(<<x>>, a) = IF x = a THEN 1 ELSE 0 BY CountOne
        <5> QED BY <5>1, <5>2
      <4> QED BY <4>1, <4>2
    <3>2. Count(u, a) <= Count(text, a)
      BY <2>5, <3>1, CountExpandLe DEF u
    <3>3. Count(u, a) \in Nat BY <2>11, CountType
    <3> QED BY <2>10, <3>2, <3>3
  <2>13. Replace(u, a, z) = Expand(u, by)
    BY <2>3, <2>7, <2>11, <2>12, ReplaceOnce DEF by
  <2>14. Composed(Atom, sub, by, both)
    <3> SUFFICES ASSUME NEW x \in Atom PROVE Expand(sub[x], by) = both[x]
      BY DEF Composed
    <3>1. x = <<x[1], x[2]>> /\ x[2] \in Nat
      BY AtomIs
    <3>2. CASE x[1] = kind /\ x[2] \in 1..n
      <4>1. sub[x] = saved[x[2]] /\ x[2] \in 1..Len(saved) BY <2>5, <3>2
      <4>2. sub[x] \in Seq(Free(kind)) BY <2>4, <4>1
      <4>3. \A y \in Free(kind) : by[y] = <<y>> BY <1>1, <2>8, <2>9
      <4>4. Expand(sub[x], by) = sub[x] BY <1>1, <2>8, <4>2, <4>3, ExpandNone
      <4>5. x[2] \in 1..(n + 1) BY <3>2
      <4> QED BY <2>6, <3>2, <4>1, <4>4, <4>5
    <3>3. CASE x = a
      <4>1. x[1] = kind /\ x[2] = n + 1 BY <3>3, <2>3
      <4>2. x[2] \notin 1..n /\ x[2] \in 1..(n + 1) BY <4>1
      <4>3. sub[x] = <<x>> BY <2>5, <4>2
      <4>4. Expand(<<x>>, by) = by[x] BY <2>8, ExpandOne
      <4>5. both[x] = z BY <2>6, <4>1, <4>2 DEF z
      <4> QED BY <2>8, <3>3, <4>3, <4>4, <4>5
    <3>4. CASE x # a /\ ~(x[1] = kind /\ x[2] \in 1..n)
      <4>1. sub[x] = <<x>> BY <2>5, <3>4
      <4>2. Expand(<<x>>, by) = by[x] BY <2>8, ExpandOne
      <4>3. by[x] = <<x>> BY <2>8, <3>4
      <4>4. ~(x[1] = kind /\ x[2] \in 1..(n + 1))
        <5>1. x[1] = kind /\ x[2] = n + 1 => x = a BY <3>1 DEF a
        <5> QED BY <3>1, <3>4, <5>1
      <4>5. both[x] = <<x>> BY <2>6, <4>4
      <4> QED BY <4>1, <4>2, <4>3, <4>5
    <3> QED BY <3>2, <3>3, <3>4
  <2>15. Expand(u, by) = Expand(text, both)
    <3>1. Expand(Expand(text, sub), by) = Expand(text, both)
      <4>1. /\ sub \in [Atom -> Seq(Atom)] /\ by \in [Atom -> Seq(Atom)]
            /\ both \in [Atom -> Seq(Atom)]
        BY <2>5, <2>6, <2>8
      <4> QED BY <2>14, <4>1, ExpandTwice, ZenonT(60)
    <3> QED BY <3>1 DEF u
  <2> QED BY <2>2, <2>13, <2>15 DEF both
<1> HIDE DEF S
<1>6. Len(saved) \in S
  BY <1>2, <1>4, <1>5, Induction
<1>7. r[Len(saved)] = Put(text, saved, kind)
  BY <1>2, <1>6 DEF S, Put
<1> QED BY <1>3, <1>7 DEF Restored

-----------------------------------------------------------------------------
(* Taking out: what has been read of a text, as the text that is left and   *)
(* the pieces that were saved from it.                                      *)

\* The atoms of some kinds.
Of(kinds) == kinds \X Nat

\* The placeholders of the first n saved pieces.
Marks(kind, n) == {kind} \X (1..n)

\* done has been read: pieces of it are saved, placeholders are in their place,
\* each once.
Holds(kinds, kind, saved, text, done) ==
  /\ saved \in Seq(Seq(Of(kinds)))
  /\ text \in Seq(Of(kinds) \cup Marks(kind, Len(saved)))
  /\ AtMostOnce(text, kind, Len(saved))
  /\ Put(text, saved, kind) = done

\* kinds are some kinds, and kind another one.
Apart(kinds, kind) == kinds \in SUBSET Kinds /\ kind \in Kinds /\ kind \notin kinds

\* Placeholders of another kind are not among the atoms of a text.
LEMMA ApartAtoms ==
  ASSUME NEW kinds, NEW kind, Apart(kinds, kind), NEW n \in Nat
  PROVE  /\ Of(kinds) \in SUBSET Atom /\ Of(kinds) \in SUBSET Free(kind)
         /\ Marks(kind, n) \in SUBSET Atom
         /\ \A i \in Nat : <<kind, i>> \notin Of(kinds)
         /\ \A i \in Nat \ (1..n) : <<kind, i>> \notin Of(kinds) \cup Marks(kind, n)
         /\ Marks(kind, n) \subseteq Marks(kind, n + 1)
         /\ <<kind, n + 1>> \in Marks(kind, n + 1)
         /\ \A x \in Marks(kind, n) : x[1] = kind /\ x[2] \in 1..n
<1>1. \A x \in Of(kinds) : x = <<x[1], x[2]>> /\ x[1] \in kinds /\ x[2] \in Nat
  BY DEF Of
<1>2. \A x \in Marks(kind, n) : x = <<x[1], x[2]>> /\ x[1] = kind /\ x[2] \in 1..n
  BY DEF Marks
<1>3. Of(kinds) \in SUBSET Atom
  BY <1>1 DEF Apart, Atom
<1>4. Of(kinds) \in SUBSET Free(kind)
  BY <1>1, <1>3 DEF Apart, Free
<1>5. Marks(kind, n) \in SUBSET Atom
  BY <1>2 DEF Apart, Atom
<1>6. \A i \in Nat : <<kind, i>> \notin Of(kinds)
  BY DEF Apart, Of
<1>7. \A i \in Nat \ (1..n) : <<kind, i>> \notin Marks(kind, n)
  BY DEF Marks
<1>8. Marks(kind, n) \subseteq Marks(kind, n + 1) /\ <<kind, n + 1>> \in Marks(kind, n + 1)
  BY DEF Marks
<1> QED BY <1>2, <1>3, <1>4, <1>5, <1>6, <1>7, <1>8

\* At the start nothing has been read.
LEMMA HoldsNothing ==
  ASSUME NEW kinds, NEW kind, Apart(kinds, kind)
  PROVE  Holds(kinds, kind, <<>>, <<>>, <<>>)
<1> DEFINE none == <<>>
<1>1. /\ none \in Seq(Seq(Atom)) /\ none \in Seq(Seq(Of(kinds))) /\ Len(none) = 0
      /\ none \in Seq(Of(kinds) \cup Marks(kind, Len(none)))
  BY EmptySeq
<1>2. Expand(none, Sub(none, kind, Len(none))) = none
  <2> DEFINE sub == Sub(none, kind, 0)
  <2> HIDE DEF none
  <2>1. sub \in [Atom -> Seq(Atom)]
    <3>1. 0 \in 0..Len(none) BY <1>1
    <3> QED BY <1>1, <3>1, SubIs
  <2> HIDE DEF sub
  <2>2. Expand(<<>>, sub) = <<>> BY <2>1, ExpandBase
  <2> QED BY <1>1, <2>2 DEF sub, none
<1> HIDE DEF none
<1>3. AtMostOnce(none, kind, Len(none))
  <2>1. 1..Len(none) = {} BY <1>1
  <2> QED BY <2>1 DEF AtMostOnce
<1>4. Holds(kinds, kind, none, none, none)
  BY <1>1, <1>2, <1>3 DEF Holds, Put
<1> QED BY <1>4 DEF none

\* Atoms that stay are written to the text.
LEMMA HoldsWrites ==
  ASSUME NEW kinds, NEW kind, Apart(kinds, kind), NEW saved, NEW text, NEW done,
         Holds(kinds, kind, saved, text, done),
         NEW u \in Seq(Of(kinds))
  PROVE  Holds(kinds, kind, saved, text \o u, done \o u)
<1> DEFINE n == Len(saved)
           B == Of(kinds) \cup Marks(kind, n)
           sub == Sub(saved, kind, n)
<1>1. /\ saved \in Seq(Seq(Of(kinds))) /\ text \in Seq(B)
      /\ AtMostOnce(text, kind, n) /\ Expand(text, sub) = done
  BY DEF Holds, Put
<1>2. n \in Nat
  BY <1>1, LenProperties
<1>3. /\ Of(kinds) \in SUBSET Atom /\ Of(kinds) \in SUBSET Free(kind)
      /\ Marks(kind, n) \in SUBSET Atom /\ \A i \in Nat : <<kind, i>> \notin Of(kinds)
  BY <1>2, ApartAtoms
<1>4. saved \in Seq(Seq(Atom))
  <2>1. Seq(Of(kinds)) \subseteq Seq(Atom) BY <1>3
  <2> QED BY <1>1, <2>1
<1>5. sub \in [Atom -> Seq(Atom)] /\ \A x \in Free(kind) : sub[x] = <<x>>
  <2>1. n \in 0..Len(saved) BY <1>2
  <2> QED BY <1>4, <2>1, SubIs
<1> HIDE DEF sub, B, n
<1>6. B \in SUBSET Atom /\ u \in Seq(B) /\ u \in Seq(Atom) /\ text \in Seq(Atom)
  BY <1>1, <1>3 DEF B
<1>7. text \o u \in Seq(B)
  BY <1>1, <1>6, ConcatProperties
<1>8. Expand(u, sub) = u
  <2>1. \A x \in Of(kinds) : sub[x] = <<x>> BY <1>3, <1>5
  <2> QED BY <1>3, <1>5, <2>1, ExpandNone
<1>9. Expand(text \o u, sub) = done \o u
  <2>1. Expand(text \o u, sub) = Expand(text, sub) \o Expand(u, sub)
    BY <1>5, <1>6, ExpandConcat
  <2> QED BY <1>1, <1>8, <2>1
<1>10. AtMostOnce(text \o u, kind, n)
  <2> SUFFICES ASSUME NEW i \in 1..n PROVE Count(text \o u, <<kind, i>>) <= 1
    BY DEF AtMostOnce
  <2>0. i \in Nat BY <1>2
  <2>1. Count(text \o u, <<kind, i>>) = Count(text, <<kind, i>>) + Count(u, <<kind, i>>)
    BY <1>6, CountConcat
  <2>2. Count(u, <<kind, i>>) = 0
    <3> DEFINE a == <<kind, i>>
    <3>1. a \notin Of(kinds) BY <1>3, <2>0
    <3> HIDE DEF a
    <3>2. Count(u, a) = 0 BY <3>1, CountNone
    <3> QED BY <3>2 DEF a
  <2>3. Count(text, <<kind, i>>) <= 1 /\ Count(text, <<kind, i>>) \in Nat
    BY <1>1, <1>6, CountType DEF AtMostOnce
  <2> QED BY <2>1, <2>2, <2>3
<1> QED BY <1>1, <1>7, <1>9, <1>10 DEF Holds, Put, n, B, sub

\* A piece is saved, and its placeholder written.
LEMMA HoldsTakes ==
  ASSUME NEW kinds, NEW kind, Apart(kinds, kind), NEW saved, NEW text, NEW done,
         Holds(kinds, kind, saved, text, done),
         NEW z \in Seq(Of(kinds))
  PROVE  Holds(kinds, kind, Append(saved, z), Append(text, <<kind, Len(saved) + 1>>), done \o z)
<1> DEFINE n == Len(saved)
           more == Append(saved, z)
           a == <<kind, n + 1>>
           B == Of(kinds) \cup Marks(kind, n)
           C == Of(kinds) \cup Marks(kind, n + 1)
           sub == Sub(saved, kind, n)
           by == Sub(more, kind, n + 1)
<1>1. /\ saved \in Seq(Seq(Of(kinds))) /\ text \in Seq(B)
      /\ AtMostOnce(text, kind, n) /\ Expand(text, sub) = done
  BY DEF Holds, Put
<1>2. n \in Nat
  BY <1>1, LenProperties
<1>3. /\ Of(kinds) \in SUBSET Atom /\ Of(kinds) \in SUBSET Free(kind)
      /\ Marks(kind, n) \in SUBSET Atom /\ Marks(kind, n + 1) \in SUBSET Atom
      /\ Marks(kind, n) \subseteq Marks(kind, n + 1)
      /\ a \in Marks(kind, n + 1) /\ a \notin B
      /\ \A x \in Marks(kind, n) : x[1] = kind /\ x[2] \in 1..n
  <2>1. n + 1 \in Nat /\ n + 1 \in Nat \ (1..n) BY <1>2
  <2> QED BY <1>2, <2>1, ApartAtoms
<1>4. /\ more \in Seq(Seq(Of(kinds))) /\ Len(more) = n + 1 /\ more[n + 1] = z
      /\ \A i \in 1..n : more[i] = saved[i]
  BY <1>1, AppendProperties
<1>5. saved \in Seq(Seq(Atom)) /\ more \in Seq(Seq(Atom))
  <2>1. Seq(Of(kinds)) \subseteq Seq(Atom) BY <1>3
  <2> HIDE DEF more
  <2> QED BY <1>1, <1>4, <2>1
<1>6. a[1] = kind /\ a[2] = n + 1
  OBVIOUS
<1> HIDE DEF more, a, n
<1>7. /\ sub \in [Atom -> Seq(Atom)] /\ \A x \in Free(kind) : sub[x] = <<x>>
      /\ \A x \in Atom : x[1] = kind /\ x[2] \in 1..n => sub[x] = saved[x[2]]
  <2>1. n \in 0..Len(saved) BY <1>2 DEF n
  <2> QED BY <1>5, <2>1, SubIs
<1>8. /\ by \in [Atom -> Seq(Atom)] /\ \A x \in Free(kind) : by[x] = <<x>>
      /\ \A x \in Atom : x[1] = kind /\ x[2] \in 1..(n + 1) => by[x] = more[x[2]]
  <2>1. n + 1 \in 0..Len(more) BY <1>2, <1>4
  <2> QED BY <1>5, <2>1, SubIs
<1> HIDE DEF sub, by
<1>9. B \in SUBSET Atom /\ C \in SUBSET Atom /\ a \in C /\ a \in Atom /\ B \subseteq C
  BY <1>3
<1>10. Alike(Atom, B, sub, by)
  <2> SUFFICES ASSUME NEW x \in B PROVE sub[x] = by[x]
    BY <1>7, <1>8, <1>9 DEF Alike
  <2>1. CASE x \in Of(kinds)
    BY <1>3, <1>7, <1>8, <2>1
  <2>2. CASE x \in Marks(kind, n)
    <3>1. x[1] = kind /\ x[2] \in 1..n /\ x \in Atom BY <1>3, <2>2
    <3>2. x[2] \in 1..(n + 1) BY <1>2, <3>1
    <3> QED BY <1>4, <1>7, <1>8, <3>1, <3>2
  <2> QED BY <2>1, <2>2
<1> HIDE DEF B, C
<1>11. text \in Seq(C) /\ text \in Seq(Atom)
  BY <1>1, <1>9
<1>12. Append(text, a) \in Seq(C)
  BY <1>9, <1>11, AppendProperties
<1>13. Expand(Append(text, a), by) = done \o z
  <2>1. Expand(text, sub) = Expand(text, by)
    BY <1>1, <1>10, ExpandSame
  <2>2. Expand(Append(text, a), by) = Expand(text, by) \o by[a]
    <3>1. by \in [Atom -> Seq(Atom)] /\ text \in Seq(Atom) /\ a \in Atom
      BY <1>8, <1>9, <1>11
    <3> QED BY ONLY <3>1, ExpandStep, ZenonT(60)
  <2>3. by[a] = z
    <3>1. n + 1 \in 1..(n + 1) BY <1>2
    <3> QED BY <1>4, <1>6, <1>8, <1>9, <3>1
  <2> QED BY <1>1, <2>1, <2>2, <2>3
<1>14. AtMostOnce(Append(text, a), kind, n + 1)
  <2> SUFFICES ASSUME NEW i \in 1..(n + 1) PROVE Count(Append(text, a), <<kind, i>>) <= 1
    BY DEF AtMostOnce
  <2> DEFINE b == <<kind, i>>
  <2>1. b = a <=> i = n + 1
    BY <1>2 DEF a
  <2>2. i # n + 1 => Count(text, b) <= 1
    BY <1>1, <1>2 DEF AtMostOnce
  <2> HIDE DEF b
  <2>3. Count(text, b) \in Nat /\ Count(Append(text, a), b) = IF a = b THEN Count(text, b) + 1 ELSE Count(text, b)
    BY <1>9, <1>11, CountStep
  <2>4. Count(text, a) = 0
    BY <1>1, <1>3, CountNone DEF B
  <2>5. Count(Append(text, a), b) <= 1
    BY <2>1, <2>2, <2>3, <2>4
  <2> QED BY <2>5 DEF b
<1>15. Holds(kinds, kind, more, Append(text, a), done \o z)
  BY <1>4, <1>12, <1>13, <1>14 DEF Holds, Put, C, by
<1> QED BY <1>15 DEF more, a, n

\* Pieces of two kinds, neither with a placeholder of the other in it, can be
\* put back in either order.
LEMMA RestoreLater ==
  ASSUME NEW k \in Kinds, NEW l \in Kinds, k # l,
         NEW first \in Seq(Seq(Free(k))), first \in Seq(Seq(Free(l))),
         NEW later \in Seq(Seq(Free(k))), later \in Seq(Seq(Free(l))),
         NEW text \in Seq(Atom), AtMostOnce(text, l, Len(later))
  PROVE  Restore(Put(text, first, k), later, l) = Put(Put(text, later, l), first, k)
<1> DEFINE m == Len(first)
           n == Len(later)
           sub == Sub(first, k, m)
           by == Sub(later, l, n)
           both == [x \in Atom |-> IF x[1] = l THEN by[x] ELSE sub[x]]
<1>1. Free(k) \in SUBSET Atom /\ Free(l) \in SUBSET Atom
  BY DEF Free
<1>2. first \in Seq(Seq(Atom)) /\ later \in Seq(Seq(Atom)) /\ m \in Nat /\ n \in Nat
  <2>1. Seq(Free(k)) \subseteq Seq(Atom) BY <1>1
  <2> QED BY <2>1, LenProperties
<1>3. /\ sub \in [Atom -> Seq(Atom)] /\ \A x \in Free(k) : sub[x] = <<x>>
      /\ \A x \in Atom : IF x[1] = k /\ x[2] \in 1..m
                         THEN sub[x] = first[x[2]] /\ x[2] \in 1..Len(first)
                         ELSE sub[x] = <<x>>
  <2>1. m \in 0..Len(first) BY <1>2
  <2> QED BY <1>2, <2>1, SubIs
<1>4. /\ by \in [Atom -> Seq(Atom)] /\ \A x \in Free(l) : by[x] = <<x>>
      /\ \A x \in Atom : IF x[1] = l /\ x[2] \in 1..n
                         THEN by[x] = later[x[2]] /\ x[2] \in 1..Len(later)
                         ELSE by[x] = <<x>>
  <2>1. n \in 0..Len(later) BY <1>2
  <2> QED BY <1>2, <2>1, SubIs
<1> HIDE DEF sub, by, m, n
<1>5. both \in [Atom -> Seq(Atom)] /\ \A x \in Atom : both[x] = IF x[1] = l THEN by[x] ELSE sub[x]
  BY <1>3, <1>4
<1> HIDE DEF both
<1>6. \A i \in 1..Len(first) : first[i] \in Seq(Free(l))
  BY ElementOfSeq
<1>7. \A i \in 1..Len(later) : later[i] \in Seq(Free(k)) /\ later[i] \in Seq(Free(l))
  BY ElementOfSeq
<1>8. Composed(Atom, sub, by, both)
  <2> SUFFICES ASSUME NEW x \in Atom PROVE Expand(sub[x], by) = both[x]
    BY DEF Composed
  <2>1. CASE x[1] = k /\ x[2] \in 1..m
    <3>1. sub[x] \in Seq(Free(l)) BY <1>3, <1>6, <2>1
    <3>2. Expand(sub[x], by) = sub[x] BY <1>1, <1>4, <3>1, ExpandNone
    <3> QED BY <1>5, <2>1, <3>2
  <2>2. CASE ~(x[1] = k /\ x[2] \in 1..m)
    <3>1. sub[x] = <<x>> BY <1>3, <2>2
    <3>2. Expand(<<x>>, by) = by[x] BY <1>4, ExpandOne
    <3>3. x[1] # l => by[x] = <<x>> BY <1>4
    <3> QED BY <1>5, <3>1, <3>2, <3>3
  <2> QED BY <2>1, <2>2
<1>9. Composed(Atom, by, sub, both)
  <2> SUFFICES ASSUME NEW x \in Atom PROVE Expand(by[x], sub) = both[x]
    BY DEF Composed
  <2>1. CASE x[1] = l /\ x[2] \in 1..n
    <3>1. by[x] \in Seq(Free(k)) BY <1>4, <1>7, <2>1
    <3>2. Expand(by[x], sub) = by[x] BY <1>1, <1>3, <3>1, ExpandNone
    <3> QED BY <1>5, <2>1, <3>2
  <2>2. CASE ~(x[1] = l /\ x[2] \in 1..n)
    <3>1. by[x] = <<x>> BY <1>4, <2>2
    <3>2. Expand(<<x>>, sub) = sub[x] BY <1>3, ExpandOne
    <3>3. x[1] = l => sub[x] = <<x>> BY <1>3
    <3> QED BY <1>5, <3>1, <3>2, <3>3
  <2> QED BY <2>1, <2>2
<1>10. Expand(Expand(text, sub), by) = Expand(text, both)
  <2>1. sub \in [Atom -> Seq(Atom)] /\ by \in [Atom -> Seq(Atom)] /\ both \in [Atom -> Seq(Atom)]
    BY <1>3, <1>4, <1>5
  <2>2. text \in Seq(Atom) OBVIOUS
  <2> QED BY ONLY <1>8, <2>1, <2>2, ExpandTwice, ZenonT(60)
<1>11. Expand(Expand(text, by), sub) = Expand(text, both)
  <2>1. sub \in [Atom -> Seq(Atom)] /\ by \in [Atom -> Seq(Atom)] /\ both \in [Atom -> Seq(Atom)]
    BY <1>3, <1>4, <1>5
  <2>2. text \in Seq(Atom) OBVIOUS
  <2> QED BY ONLY <1>9, <2>1, <2>2, ExpandTwice, ZenonT(60)
<1> DEFINE u == Expand(text, sub)
<1>12. u \in Seq(Atom)
  BY <1>3, ExpandType
<1>13. AtMostOnce(u, l, Len(later))
  <2> SUFFICES ASSUME NEW i \in 1..Len(later) PROVE Count(u, <<l, i>>) <= 1
    BY DEF AtMostOnce
  <2> DEFINE a == <<l, i>>
  <2>1. Count(text, a) <= 1 BY DEF AtMostOnce
  <2>2. a[1] = l OBVIOUS
  <2> HIDE DEF a, u
  <2>3. \A x \in Atom : Count(sub[x], a) <= IF x = a THEN 1 ELSE 0
    <3> SUFFICES ASSUME NEW x \in Atom PROVE Count(sub[x], a) <= IF x = a THEN 1 ELSE 0
      OBVIOUS
    <3>1. CASE x[1] = k /\ x[2] \in 1..m
      <4>1. sub[x] \in Seq(Free(l)) BY <1>3, <1>6, <3>1
      <4>2. a \notin Free(l) BY <2>2 DEF Free
      <4>3. Count(sub[x], a) = 0 BY <4>1, <4>2, CountNone
      <4> QED BY <4>3
    <3>2. CASE ~(x[1] = k /\ x[2] \in 1..m)
      <4>1. sub[x] = <<x>> BY <1>3, <3>2
      <4>2. Count(<<x>>, a) = IF x = a THEN 1 ELSE 0 BY CountOne
      <4> QED BY <4>1, <4>2
    <3> QED BY <3>1, <3>2
  <2>4. Count(u, a) <= Count(text, a)
    BY <1>3, <2>3, CountExpandLe DEF u
  <2>5. Count(u, a) \in Nat /\ Count(text, a) \in Nat
    BY <1>12, CountType
  <2>6. Count(u, a) <= 1 BY <2>1, <2>4, <2>5
  <2> QED BY <2>6 DEF a
<1> HIDE DEF u
<1>14. Restore(u, later, l) = Put(u, later, l)
  BY <1>12, <1>13, RestoreIsPut
<1>15. Put(u, later, l) = Expand(Expand(text, by), sub)
  BY <1>10, <1>11 DEF Put, u, by, n
<1> QED BY <1>14, <1>15 DEF Put, u, sub, by, m, n

-----------------------------------------------------------------------------
(* extractSlackTokens and escapeHTMLEntities.                               *)

\* The kinds of atoms a reply consists of.
TextKinds == {"tick", "special", "escaped", "mention", "word", "break", "newline", "mark",
              "open", "close", "escapedOpen", "escapedClose"}

\* What is saved and what is left are texts without the kind's placeholders, but
\* for those that Restore replaces.
LEMMA HoldsType ==
  ASSUME NEW kinds, NEW kind, Apart(kinds, kind), NEW saved, NEW text, NEW done,
         Holds(kinds, kind, saved, text, done)
  PROVE  /\ saved \in Seq(Seq(Atom)) /\ text \in Seq(Atom) /\ done \in Seq(Atom)
         /\ saved \in Seq(Seq(Free(kind))) /\ saved \in Seq(Seq(Of(kinds)))
         /\ text \in Seq(Of(kinds \cup {kind}))
<1>1. saved \in Seq(Seq(Of(kinds))) /\ Len(saved) \in Nat
  BY LenProperties DEF Holds
<1>2. text \in Seq(Of(kinds) \cup Marks(kind, Len(saved)))
  BY DEF Holds
<1>3. Of(kinds) \in SUBSET Atom /\ Of(kinds) \in SUBSET Free(kind)
      /\ Marks(kind, Len(saved)) \in SUBSET Atom
  BY <1>1, ApartAtoms
<1>4. saved \in Seq(Seq(Atom)) /\ saved \in Seq(Seq(Free(kind)))
  <2>1. Seq(Of(kinds)) \subseteq Seq(Atom) /\ Seq(Of(kinds)) \subseteq Seq(Free(kind)) BY <1>3
  <2> QED BY <1>1, <2>1
<1>5. text \in Seq(Atom)
  BY <1>2, <1>3
<1>6. text \in Seq(Of(kinds \cup {kind}))
  <2>1. Of(kinds) \cup Marks(kind, Len(saved)) \subseteq Of(kinds \cup {kind})
    <3>1. Of(kinds) \subseteq Of(kinds \cup {kind}) BY DEF Of
    <3>2. 1..Len(saved) \subseteq Nat BY <1>1
    <3>3. Marks(kind, Len(saved)) \subseteq Of(kinds \cup {kind}) BY <3>2 DEF Of, Marks
    <3> DEFINE A == Of(kinds)
               B == Marks(kind, Len(saved))
               C == Of(kinds \cup {kind})
    <3>4. A \subseteq C /\ B \subseteq C BY <3>1, <3>3
    <3> HIDE DEF A, B, C
    <3>5. A \cup B \subseteq C BY <3>4
    <3> QED BY <3>5 DEF A, B, C
  <2> DEFINE A == Of(kinds) \cup Marks(kind, Len(saved))
             C == Of(kinds \cup {kind})
  <2>2. text \in Seq(A) /\ A \subseteq C BY <1>2, <2>1
  <2> HIDE DEF A, C
  <2>3. text \in Seq(C) BY <2>2
  <2> QED BY <2>3 DEF C
<1>7. done \in Seq(Atom)
  <2>1. Len(saved) \in 0..Len(saved) BY <1>1
  <2>2. Sub(saved, kind, Len(saved)) \in [Atom -> Seq(Atom)] BY <1>4, <2>1, SubIs
  <2>3. Expand(text, Sub(saved, kind, Len(saved))) \in Seq(Atom) BY <1>5, <2>2, ExpandType
  <2> QED BY <2>3 DEF Holds, Put
<1> QED BY <1>1, <1>4, <1>5, <1>6, <1>7

\* A text with its saved pieces, and the state at the start.
Taken == [saved : Seq(Seq(Atom)), text : Seq(Atom)]
\* Before the first atom.
NothingTaken == [saved |-> <<>>, text |-> <<>>]

\* Nothing saved and nothing written is a state.
LEMMA NothingTakenType == NothingTaken \in Taken
  BY EmptySeq DEF NothingTaken, Taken

\* Escaping an atom leaves an atom of a text, and no backtick comes or goes.
LEMMA EscapedAtomIs ==
  /\ \A a \in Atom : EscapedAtom(a) \in Atom
  /\ \A a \in Of(TextKinds) : /\ EscapedAtom(a) \in Of(TextKinds)
                              /\ a # Tick <=> EscapedAtom(a) # Tick
                              /\ a[1] = "mention" => EscapedAtom(a) = a
<1>1. ASSUME NEW kinds, {"escaped", "escapedOpen", "escapedClose"} \subseteq kinds, NEW a \in kinds \X Nat
      PROVE  /\ EscapedAtom(a) \in kinds \X Nat
             /\ a # Tick <=> EscapedAtom(a) # Tick
             /\ a[1] = "mention" => EscapedAtom(a) = a
  <2>1. a = <<a[1], a[2]>> /\ a[1] \in kinds /\ a[2] \in Nat
    BY <1>1
  <2>2. CASE a[1] \in {"special", "open", "close"}
    <3>1. a # Tick BY <2>2 DEF Tick
    <3>2. EscapedAtom(a) \in {<<"escaped", a[2]>>, <<"escapedOpen", a[2]>>, <<"escapedClose", a[2]>>}
      BY <2>2 DEF EscapedAtom
    <3>3. EscapedAtom(a) # Tick BY <3>2 DEF Tick
    <3>4. EscapedAtom(a) \in kinds \X Nat BY <1>1, <2>1, <3>2
    <3> QED BY <2>2, <3>1, <3>3, <3>4
  <2>3. CASE a[1] \notin {"special", "open", "close"}
    <3>1. EscapedAtom(a) = a BY <2>3 DEF EscapedAtom
    <3> QED BY <1>1, <3>1
  <2> QED BY <2>2, <2>3
<1>2. \A a \in Atom : EscapedAtom(a) \in Atom
  <2>1. {"escaped", "escapedOpen", "escapedClose"} \subseteq Kinds BY DEF Kinds
  <2> QED BY <1>1, <2>1 DEF Atom
<1>3. {"escaped", "escapedOpen", "escapedClose"} \subseteq TextKinds BY DEF TextKinds
<1> QED BY <1>1, <1>2, <1>3 DEF Of

\* One step of extractSlackTokens.
TakeToken(s, a) ==
  IF a[1] = "mention"
  THEN [saved |-> Append(s.saved, <<a>>), text |-> Append(s.text, <<"ST", Len(s.saved) + 1>>)]
  ELSE [s EXCEPT !.text = Append(@, EscapedAtom(a))]

\* A mention is saved and replaced; a special character is escaped.
LEMMA TakeTokenIs ==
  ASSUME NEW s \in Taken, NEW a \in Atom
  PROVE  /\ TakeToken(s, a) \in Taken
         /\ a[1] = "mention" =>
              TakeToken(s, a) = [saved |-> Append(s.saved, <<a>>),
                                 text |-> Append(s.text, <<"ST", Len(s.saved) + 1>>)]
         /\ a[1] # "mention" =>
              TakeToken(s, a) = [saved |-> s.saved,
                                 text |-> Append(s.text, EscapedAtom(a))]
<1>1. s = [saved |-> s.saved, text |-> s.text] /\ s.saved \in Seq(Seq(Atom)) /\ s.text \in Seq(Atom)
  BY DEF Taken
<1>2. CASE a[1] = "mention"
  <2>1. TakeToken(s, a) = [saved |-> Append(s.saved, <<a>>),
                           text |-> Append(s.text, <<"ST", Len(s.saved) + 1>>)]
    BY <1>2 DEF TakeToken
  <2>2. <<a>> \in Seq(Atom) BY OneElement
  <2>3. <<"ST", Len(s.saved) + 1>> \in Atom
    <3>1. Len(s.saved) \in Nat BY <1>1, LenProperties
    <3> QED BY <3>1 DEF Atom, Kinds
  <2>4. Append(s.saved, <<a>>) \in Seq(Seq(Atom))
    BY <1>1, <2>2, AppendProperties
  <2>5. Append(s.text, <<"ST", Len(s.saved) + 1>>) \in Seq(Atom)
    BY <1>1, <2>3, AppendProperties
  <2> QED BY <1>2, <2>1, <2>4, <2>5 DEF Taken
<1>3. CASE a[1] # "mention"
  <2> DEFINE x == EscapedAtom(a)
  <2>1. TakeToken(s, a) = [s EXCEPT !.text = Append(@, x)]
    BY <1>3 DEF TakeToken
  <2>2. x \in Atom
    BY EscapedAtomIs
  <2> HIDE DEF x
  <2>3. TakeToken(s, a) = [saved |-> s.saved, text |-> Append(s.text, x)]
    BY <1>1, <2>1
  <2>4. Append(s.text, x) \in Seq(Atom)
    BY <1>1, <2>2, AppendProperties
  <2>5. TakeToken(s, a) \in Taken
    BY <1>1, <2>3, <2>4 DEF Taken
  <2> QED BY <1>3, <2>3, <2>5 DEF x
<1> QED BY <1>2, <1>3

\* The step as a function.
TokensFun == [p \in Taken \X Atom |-> TakeToken(p[1], p[2])]

\* Tokens are taken out atom by atom.
LEMMA TokensRun ==
  ASSUME NEW s \in Seq(Atom)
  PROVE  \E r : Trace(r, TokensFun, NothingTaken, s, Taken) /\ TakeTokens(s) = r[Len(s)]
<1> DEFINE F == TokensFun
           Step(g) == [T \in SUBSET DOMAIN s |->
                         IF T = {} THEN NothingTaken ELSE TakeToken(g[T \ {Max(T)}], s[Max(T)])]
           it == CHOOSE g : g = Step(g)
<1>1. Len(s) \in Nat /\ DOMAIN s = 1..Len(s)
  BY LenProperties
<1>2. ASSUME NEW x \in Taken, NEW y \in Atom PROVE TakeToken(x, y) \in Taken
  BY TakeTokenIs
<1>3. F \in [Taken \X Atom -> Taken]
  BY <1>2 DEF TokensFun
<1>4. ASSUME NEW x \in Taken, NEW y \in Atom PROVE F[<<x, y>>] = TakeToken(x, y)
  BY DEF TokensFun
<1>5. ASSUME NEW T \in SUBSET (1..Len(s)), T # {} PROVE s[Max(T)] \in Atom
  <2>1. Max(T) \in 1..Len(s) BY <1>1, <1>5, MaxOf
  <2> QED BY <2>1, ElementOfSeq
<1>6. NothingTaken \in Taken
  BY NothingTakenType
<1> HIDE DEF F
<1>7. \E g : g = Step(g)
  <2>1. PICK g \in [SUBSET (1..Len(s)) -> Taken] : IsFold(g, F, NothingTaken, s)
    BY <1>3, <1>6, FoldExists
  <2>2. ASSUME NEW T \in SUBSET (1..Len(s)), T # {}
        PROVE  F[<<g[T \ {Max(T)}], s[Max(T)]>>] = TakeToken(g[T \ {Max(T)}], s[Max(T)])
    BY <1>4, <1>5, <2>2
  <2>3. g = Step(g) BY <1>1, <2>1, <2>2 DEF IsFold
  <2> QED BY <2>3
<1>8. it = Step(it)
  <2> HIDE DEF Step
  <2> QED BY <1>7
<1>9. TakeTokens(s) = it[DOMAIN s]
  BY DEF FoldLeft, MapThenFoldSet, TakeTokens, TakeToken, NothingTaken
<1> HIDE DEF it
<1>10. Folds(it, Taken, F, NothingTaken, s)
  <2>1. ASSUME NEW T \in SUBSET (1..Len(s))
        PROVE  it[T] = IF T = {} THEN NothingTaken ELSE TakeToken(it[T \ {Max(T)}], s[Max(T)])
    BY <1>1, <1>8
  <2> QED BY <1>4, <1>5, <2>1 DEF Folds
<1>11. PICK r \in [0..Len(s) -> Taken] : Path(r, it, F, NothingTaken, s)
  BY <1>3, <1>6, <1>10, FoldPath
<1>12. Trace(r, F, NothingTaken, s, Taken) /\ it[1..Len(s)] = r[Len(s)]
  <2>1. Len(s) \in 0..Len(s) BY <1>1
  <2> QED BY <1>11, <2>1 DEF Path, Trace
<1>13. TakeTokens(s) = r[Len(s)]
  BY <1>1, <1>9, <1>12
<1> QED BY <1>12, <1>13 DEF F

\* What one atom more does.
LEMMA TokensStep ==
  ASSUME NEW s \in Seq(Atom), NEW e \in Atom
  PROVE  TakeTokens(s) \in Taken /\ TakeTokens(Append(s, e)) = TakeToken(TakeTokens(s), e)
<1> DEFINE F == TokensFun
           t == Append(s, e)
<1>1. PICK r : Trace(r, F, NothingTaken, s, Taken) /\ TakeTokens(s) = r[Len(s)]
  BY TokensRun
<1>2. t \in Seq(Atom) /\ Longer(t, s, e)
  BY AppendProperties DEF Longer
<1> HIDE DEF t
<1>3. PICK q : Trace(q, F, NothingTaken, t, Taken) /\ TakeTokens(t) = q[Len(t)]
  BY <1>2, TokensRun
<1> HIDE DEF F
<1>4. r[Len(s)] \in Taken /\ q[Len(t)] = F[<<r[Len(s)], e>>]
  <2>1. OneStep(q, t, r, s, e, F, Taken) BY <1>1, <1>2, <1>3, TraceStep
  <2> QED BY <2>1 DEF OneStep
<1>5. ASSUME NEW x \in Taken PROVE F[<<x, e>>] = TakeToken(x, e)
  BY DEF F, TokensFun
<1>6. TakeTokens(s) \in Taken /\ F[<<TakeTokens(s), e>>] = TakeToken(TakeTokens(s), e)
  BY <1>1, <1>4, <1>5
<1>7. TakeTokens(t) = F[<<TakeTokens(s), e>>]
  BY <1>1, <1>3, <1>4
<1>8. TakeTokens(t) = TakeToken(TakeTokens(s), e)
  BY <1>6, <1>7
<1> QED BY <1>6, <1>8 DEF t

\* Before the first atom.
LEMMA TokensBase ==
  TakeTokens(<<>>) = NothingTaken
<1> DEFINE t == <<>>
<1>1. t \in Seq(Atom) /\ Len(t) = 0
  BY EmptySeq
<1> HIDE DEF t
<1>2. PICK r : Trace(r, TokensFun, NothingTaken, t, Taken) /\ TakeTokens(t) = r[Len(t)]
  BY <1>1, TokensRun
<1>3. TakeTokens(t) = NothingTaken
  BY <1>1, <1>2 DEF Trace
<1> QED BY <1>3 DEF t

\* The escaped text grows with the text.
LEMMA EscapedTextAppend ==
  ASSUME NEW u \in Seq(Atom), NEW a \in Atom
  PROVE  /\ EscapedText(u) \in Seq(Atom)
         /\ EscapedText(Append(u, a)) = EscapedText(u) \o <<EscapedAtom(a)>>
<1> DEFINE x == EscapedAtom(a)
           v == Append(u, a)
           e == EscapedText(u)
<1>1. Len(u) \in Nat /\ \A i \in 1..Len(u) : u[i] \in Atom
  BY LenProperties, ElementOfSeq
<1>2. v \in Seq(Atom) /\ Len(v) = Len(u) + 1 /\ v[Len(u) + 1] = a /\ \A i \in 1..Len(u) : v[i] = u[i]
  BY AppendProperties
<1>3. x \in Atom /\ \A b \in Atom : EscapedAtom(b) \in Atom
  BY EscapedAtomIs
<1>4. e \in Seq(Atom) /\ Len(e) = Len(u) /\ \A i \in 1..Len(u) : e[i] = EscapedAtom(u[i])
  <2>1. \A i \in 1..Len(u) : (EscapedAtom(u[i])) \in Atom BY <1>1, <1>3
  <2>2. e \in [1..Len(u) -> Atom] BY <2>1 DEF EscapedText
  <2> QED BY <1>1, <2>2, SeqDef DEF EscapedText
<1> HIDE DEF v, e
<1>5. e \o <<x>> = Append(e, x)
  BY <1>3, <1>4, AppendIsConcat
<1> HIDE DEF x
<1>6. /\ Append(e, x) \in Seq(Atom) /\ Len(Append(e, x)) = Len(u) + 1
      /\ Append(e, x)[Len(u) + 1] = x /\ \A i \in 1..Len(u) : Append(e, x)[i] = e[i]
  <2>1. /\ Append(e, x) \in Seq(Atom) /\ Len(Append(e, x)) = Len(e) + 1
        /\ Append(e, x)[Len(e) + 1] = x /\ \A i \in 1..Len(e) : Append(e, x)[i] = e[i]
    BY <1>3, <1>4, AppendProperties
  <2> QED BY <1>4, <2>1
<1> DEFINE f == EscapedText(v)
<1>7. f \in Seq(Atom) /\ Len(f) = Len(u) + 1
      /\ \A i \in 1..(Len(u) + 1) : f[i] = EscapedAtom(v[i])
  <2>1. \A i \in 1..Len(v) : v[i] \in Atom BY <1>2, ElementOfSeq
  <2>2. \A i \in 1..Len(v) : (EscapedAtom(v[i])) \in Atom BY <1>3, <2>1
  <2>3. f \in [1..Len(v) -> Atom] BY <2>2 DEF EscapedText
  <2>4. f \in Seq(Atom) /\ Len(f) = Len(v) BY <1>1, <1>2, <2>3, SeqDef
  <2> QED BY <1>2, <2>4 DEF EscapedText
<1> HIDE DEF f
<1>8. \A i \in 1..(Len(u) + 1) : f[i] = Append(e, x)[i]
  <2> SUFFICES ASSUME NEW i \in 1..(Len(u) + 1) PROVE f[i] = Append(e, x)[i]
    OBVIOUS
  <2>1. CASE i = Len(u) + 1
    <3>1. f[i] = x BY <1>2, <1>7, <2>1 DEF x
    <3> QED BY <1>6, <2>1, <3>1
  <2>2. CASE i # Len(u) + 1
    <3>1. i \in 1..Len(u) BY <1>1, <2>2
    <3>2. f[i] = EscapedAtom(u[i]) BY <1>2, <1>7, <3>1
    <3> QED BY <1>4, <1>6, <3>1, <3>2
  <2> QED BY <2>1, <2>2
<1>9. f = Append(e, x)
  <2> DEFINE w == Append(e, x)
  <2>1. w \in Seq(Atom) /\ Len(w) = Len(f) /\ \A i \in 1..Len(f) : f[i] = w[i] BY <1>6, <1>7, <1>8
  <2> HIDE DEF w
  <2>2. f = w BY <1>7, <2>1, SeqEqual
  <2> QED BY <2>2 DEF w
<1> QED BY <1>4, <1>5, <1>9 DEF e, f, v, x

-----------------------------------------------------------------------------
(* strings.Split(text, "```").                                              *)

\* What Parts has read: the parts in front, the last one, and the backticks
\* that may be the start of a fence.
SplitState(E) == [done : Seq(Seq(E)), part : Seq(E), ticks : {0, 1, 2}]
\* Parts, step by step.
SplitOne(s, a) ==
  IF a # Tick THEN [s EXCEPT !.part = @ \o SubSeq(Fence, 1, s.ticks) \o <<a>>, !.ticks = 0]
  ELSE IF s.ticks = 2 THEN [done |-> Append(s.done, s.part), part |-> <<>>, ticks |-> 0]
  ELSE [s EXCEPT !.ticks = @ + 1]
NothingSplit == [done |-> <<>>, part |-> <<>>, ticks |-> 0]
Split(text) == FoldLeft(SplitOne, NothingSplit, text)

\* Parts is what these steps leave, and the ticks that did not make three.
LEMMA PartsAre ==
  ASSUME NEW text
  PROVE  Parts(text) = Append(Split(text).done, Split(text).part \o SubSeq(Fence, 1, Split(text).ticks))
BY DEF Parts, Split, SplitOne, NothingSplit

\* The fence, and how much of it has been read.
LEMMA FenceIs ==
  ASSUME NEW E, Tick \in E
  PROVE  /\ Fence \in Seq(E) /\ <<Tick>> \in Seq(E)
         /\ \A n \in {0, 1, 2} : SubSeq(Fence, 1, n) \in Seq(E)
         /\ SubSeq(Fence, 1, 0) = <<>>
         /\ \A n \in {0, 1} : SubSeq(Fence, 1, n + 1) = SubSeq(Fence, 1, n) \o <<Tick>>
         /\ Fence = SubSeq(Fence, 1, 2) \o <<Tick>>
<1>1. Fence \in Seq(E) /\ Len(Fence) = 3 /\ Fence[1] = Tick /\ Fence[2] = Tick /\ Fence[3] = Tick
  BY DEF Fence
<1>2. <<Tick>> \in Seq(E)
  BY OneElement
<1> DEFINE f == Fence
<1> HIDE DEF f
<1>3. f \in Seq(E) /\ Len(f) = 3 /\ f[1] = Tick /\ f[2] = Tick /\ f[3] = Tick
  BY <1>1 DEF f
<1>4. SubSeq(f, 1, 0) = <<>>
  <2>1. 1 \in Int /\ 0 \in Int /\ 0 < 1 OBVIOUS
  <2> QED BY <2>1, SubSeqEmpty
<1>5. \A n \in 1..3 : SubSeq(f, 1, n) = SubSeq(f, 1, n - 1) \o <<f[n]>>
  <2> SUFFICES ASSUME NEW n \in 1..3 PROVE SubSeq(f, 1, n) = SubSeq(f, 1, n - 1) \o <<f[n]>>
    OBVIOUS
  <2>1. 1 \in 1..Len(f) /\ n \in 1..Len(f) BY <1>3
  <2> QED BY <1>3, <2>1, SubSeqRecursiveSecond
<1>6. SubSeq(f, 1, 1) = SubSeq(f, 1, 0) \o <<Tick>>
  <2>1. 1 \in 1..3 /\ 1 - 1 = 0 OBVIOUS
  <2> QED BY <1>3, <1>5, <2>1
<1>7. SubSeq(f, 1, 2) = SubSeq(f, 1, 1) \o <<Tick>>
  <2>1. 2 \in 1..3 /\ 2 - 1 = 1 OBVIOUS
  <2> QED BY <1>3, <1>5, <2>1
<1>8. SubSeq(f, 1, 3) = SubSeq(f, 1, 2) \o <<Tick>>
  <2>1. 3 \in 1..3 /\ 3 - 1 = 2 OBVIOUS
  <2> QED BY <1>3, <1>5, <2>1
<1>9. SubSeq(f, 1, 3) = f
  BY <1>3, SubSeqFull
<1>10. \A n \in {0, 1, 2} : SubSeq(f, 1, n) \in Seq(E)
  <2>1. SubSeq(f, 1, 0) \in Seq(E) BY <1>4, EmptySeq
  <2>2. SubSeq(f, 1, 1) \in Seq(E) BY <1>2, <1>6, <2>1, ConcatProperties
  <2>3. SubSeq(f, 1, 2) \in Seq(E) BY <1>2, <1>7, <2>2, ConcatProperties
  <2> QED BY <2>1, <2>2, <2>3
<1>11. \A n \in {0, 1} : SubSeq(f, 1, n + 1) = SubSeq(f, 1, n) \o <<Tick>>
  <2>1. 0 + 1 = 1 /\ 1 + 1 = 2 OBVIOUS
  <2> QED BY <1>6, <1>7, <2>1
<1> QED BY <1>2, <1>3, <1>4, <1>8, <1>9, <1>10, <1>11 DEF f

\* What a tick and what another atom does.
LEMMA SplitOneIs ==
  ASSUME NEW E, Tick \in E, NEW s \in SplitState(E), NEW a \in E
  PROVE  /\ SplitOne(s, a) \in SplitState(E)
         /\ a # Tick => SplitOne(s, a) =
              [done |-> s.done, part |-> (s.part \o SubSeq(Fence, 1, s.ticks)) \o <<a>>, ticks |-> 0]
         /\ a = Tick /\ s.ticks = 2 => SplitOne(s, a) =
              [done |-> Append(s.done, s.part), part |-> <<>>, ticks |-> 0]
         /\ a = Tick /\ s.ticks # 2 => s.ticks \in {0, 1} /\ SplitOne(s, a) =
              [done |-> s.done, part |-> s.part, ticks |-> s.ticks + 1]
<1>1. /\ s = [done |-> s.done, part |-> s.part, ticks |-> s.ticks]
      /\ s.done \in Seq(Seq(E)) /\ s.part \in Seq(E) /\ s.ticks \in {0, 1, 2}
  BY DEF SplitState
<1>2. SubSeq(Fence, 1, s.ticks) \in Seq(E)
  BY <1>1, FenceIs
<1>3. CASE a # Tick
  <2> DEFINE f == SubSeq(Fence, 1, s.ticks)
  <2>1. SplitOne(s, a) = [s EXCEPT !.part = (@ \o f) \o <<a>>, !.ticks = 0]
    BY <1>3 DEF SplitOne
  <2>2. f \in Seq(E) /\ <<a>> \in Seq(E) BY <1>2, OneElement
  <2> HIDE DEF f
  <2>3. SplitOne(s, a) = [done |-> s.done, part |-> (s.part \o f) \o <<a>>, ticks |-> 0]
    BY <1>1, <2>1
  <2>4. s.part \o f \in Seq(E) BY <1>1, <2>2, ConcatProperties
  <2>5. (s.part \o f) \o <<a>> \in Seq(E) BY <2>2, <2>4, ConcatProperties
  <2>6. SplitOne(s, a) \in SplitState(E)
    BY <1>1, <2>3, <2>5 DEF SplitState
  <2> QED BY <1>3, <2>3, <2>6 DEF f
<1>4. CASE a = Tick /\ s.ticks = 2
  <2>1. SplitOne(s, a) = [done |-> Append(s.done, s.part), part |-> <<>>, ticks |-> 0]
    BY <1>4 DEF SplitOne
  <2>2. Append(s.done, s.part) \in Seq(Seq(E)) BY <1>1, AppendProperties
  <2>3. <<>> \in Seq(E) BY EmptySeq
  <2> QED BY <1>4, <2>1, <2>2, <2>3 DEF SplitState
<1>5. CASE a = Tick /\ s.ticks # 2
  <2>1. SplitOne(s, a) = [s EXCEPT !.ticks = @ + 1]
    BY <1>5 DEF SplitOne
  <2>2. SplitOne(s, a) = [done |-> s.done, part |-> s.part, ticks |-> s.ticks + 1]
    BY <1>1, <2>1
  <2>3. s.ticks \in {0, 1} /\ s.ticks + 1 \in {0, 1, 2} BY <1>1, <1>5
  <2> QED BY <1>1, <1>5, <2>2, <2>3 DEF SplitState
<1> QED BY <1>3, <1>4, <1>5

\* The step as a function.
SplitFun(E) == [p \in SplitState(E) \X E |-> SplitOne(p[1], p[2])]

\* A text is split atom by atom.
LEMMA SplitRun ==
  ASSUME NEW E, Tick \in E, NEW s \in Seq(E)
  PROVE  \E r : Trace(r, SplitFun(E), NothingSplit, s, SplitState(E)) /\ Split(s) = r[Len(s)]
<1> DEFINE F == SplitFun(E)
           Step(g) == [T \in SUBSET DOMAIN s |->
                         IF T = {} THEN NothingSplit ELSE SplitOne(g[T \ {Max(T)}], s[Max(T)])]
           it == CHOOSE g : g = Step(g)
<1>1. Len(s) \in Nat /\ DOMAIN s = 1..Len(s)
  BY LenProperties
<1>2. ASSUME NEW x \in SplitState(E), NEW y \in E PROVE SplitOne(x, y) \in SplitState(E)
  BY SplitOneIs
<1>3. F \in [SplitState(E) \X E -> SplitState(E)]
  BY <1>2 DEF SplitFun
<1>4. ASSUME NEW x \in SplitState(E), NEW y \in E PROVE F[<<x, y>>] = SplitOne(x, y)
  BY DEF SplitFun
<1>5. ASSUME NEW T \in SUBSET (1..Len(s)), T # {} PROVE s[Max(T)] \in E
  <2>1. Max(T) \in 1..Len(s) BY <1>1, <1>5, MaxOf
  <2> QED BY <2>1, ElementOfSeq
<1>6. NothingSplit \in SplitState(E)
  BY EmptySeq DEF NothingSplit, SplitState
<1> HIDE DEF F
<1>7. \E g : g = Step(g)
  <2>1. PICK g \in [SUBSET (1..Len(s)) -> SplitState(E)] : IsFold(g, F, NothingSplit, s)
    BY <1>3, <1>6, FoldExists
  <2>2. ASSUME NEW T \in SUBSET (1..Len(s)), T # {}
        PROVE  F[<<g[T \ {Max(T)}], s[Max(T)]>>] = SplitOne(g[T \ {Max(T)}], s[Max(T)])
    BY <1>4, <1>5, <2>2
  <2>3. g = Step(g) BY <1>1, <2>1, <2>2 DEF IsFold
  <2> QED BY <2>3
<1>8. it = Step(it)
  <2> HIDE DEF Step
  <2> QED BY <1>7
<1>9. Split(s) = it[DOMAIN s]
  BY DEF FoldLeft, MapThenFoldSet, Split
<1> HIDE DEF it
<1>10. Folds(it, SplitState(E), F, NothingSplit, s)
  <2>1. ASSUME NEW T \in SUBSET (1..Len(s))
        PROVE  it[T] = IF T = {} THEN NothingSplit ELSE SplitOne(it[T \ {Max(T)}], s[Max(T)])
    BY <1>1, <1>8
  <2> QED BY <1>4, <1>5, <2>1 DEF Folds
<1>11. PICK r \in [0..Len(s) -> SplitState(E)] : Path(r, it, F, NothingSplit, s)
  BY <1>3, <1>6, <1>10, FoldPath
<1>12. Trace(r, F, NothingSplit, s, SplitState(E)) /\ it[1..Len(s)] = r[Len(s)]
  <2>1. Len(s) \in 0..Len(s) BY <1>1
  <2> QED BY <1>11, <2>1 DEF Path, Trace
<1>13. Split(s) = r[Len(s)]
  BY <1>1, <1>9, <1>12
<1> QED BY <1>12, <1>13 DEF F

\* What one atom more does.
LEMMA SplitStep ==
  ASSUME NEW E, Tick \in E, NEW s \in Seq(E), NEW e \in E
  PROVE  Split(s) \in SplitState(E) /\ Split(Append(s, e)) = SplitOne(Split(s), e)
<1> DEFINE F == SplitFun(E)
           t == Append(s, e)
<1>1. PICK r : Trace(r, F, NothingSplit, s, SplitState(E)) /\ Split(s) = r[Len(s)]
  BY SplitRun
<1>2. t \in Seq(E) /\ Longer(t, s, e)
  BY AppendProperties DEF Longer
<1> HIDE DEF t
<1>3. PICK q : Trace(q, F, NothingSplit, t, SplitState(E)) /\ Split(t) = q[Len(t)]
  BY <1>2, SplitRun
<1> HIDE DEF F
<1>4. r[Len(s)] \in SplitState(E) /\ q[Len(t)] = F[<<r[Len(s)], e>>]
  <2>1. OneStep(q, t, r, s, e, F, SplitState(E)) BY <1>1, <1>2, <1>3, TraceStep
  <2> QED BY <2>1 DEF OneStep
<1>5. ASSUME NEW x \in SplitState(E) PROVE F[<<x, e>>] = SplitOne(x, e)
  BY DEF F, SplitFun
<1>6. Split(s) \in SplitState(E) /\ F[<<Split(s), e>>] = SplitOne(Split(s), e)
  BY <1>1, <1>4, <1>5
<1>7. Split(t) = F[<<Split(s), e>>]
  BY <1>1, <1>3, <1>4
<1>8. Split(t) = SplitOne(Split(s), e)
  BY <1>6, <1>7
<1> QED BY <1>6, <1>8 DEF t

\* Before the first atom.
LEMMA SplitBase ==
  ASSUME NEW E, Tick \in E
  PROVE  Split(<<>>) = NothingSplit
<1> DEFINE t == <<>>
<1>1. t \in Seq(E) /\ Len(t) = 0
  BY EmptySeq
<1> HIDE DEF t
<1>2. PICK r : Trace(r, SplitFun(E), NothingSplit, t, SplitState(E)) /\ Split(t) = r[Len(t)]
  BY <1>1, SplitRun
<1>3. Split(t) = NothingSplit
  BY <1>1, <1>2 DEF Trace
<1> QED BY <1>3 DEF t

\* Two texts with as many fences, and the same number of backticks behind.
SameFences(u, v) ==
  Len(Split(u).done) = Len(Split(v).done) /\ Split(u).ticks = Split(v).ticks

\* Another atom keeps that so, if it is a backtick in both or in none.
LEMMA SameFencesStep ==
  ASSUME NEW u \in Seq(Atom), NEW v \in Seq(Atom), SameFences(u, v),
         NEW a \in Atom, NEW b \in Atom, a = Tick <=> b = Tick
  PROVE  SameFences(Append(u, a), Append(v, b))
<1> DEFINE s == Split(u)
           t == Split(v)
<1>0. Tick \in Atom
  BY DEF Tick, Atom, Kinds
<1>1. /\ s \in SplitState(Atom) /\ t \in SplitState(Atom)
      /\ Split(Append(u, a)) = SplitOne(s, a) /\ Split(Append(v, b)) = SplitOne(t, b)
  BY <1>0, SplitStep
<1>2. Len(s.done) = Len(t.done) /\ s.ticks = t.ticks
  BY DEF SameFences
<1> HIDE DEF s, t
<1>3. /\ s.done \in Seq(Seq(Atom)) /\ t.done \in Seq(Seq(Atom))
      /\ s.part \in Seq(Atom) /\ t.part \in Seq(Atom)
  BY <1>1 DEF SplitState
<1>4. Len(SplitOne(s, a).done) = Len(SplitOne(t, b).done) /\ SplitOne(s, a).ticks = SplitOne(t, b).ticks
  <2>1. CASE a # Tick
    <3>1. SplitOne(s, a) = [done |-> s.done, part |-> (s.part \o SubSeq(Fence, 1, s.ticks)) \o <<a>>,
                            ticks |-> 0]
      BY <1>0, <1>1, <2>1, SplitOneIs, ZenonT(60)
    <3>2. SplitOne(t, b) = [done |-> t.done, part |-> (t.part \o SubSeq(Fence, 1, t.ticks)) \o <<b>>,
                            ticks |-> 0]
      BY <1>0, <1>1, <2>1, SplitOneIs, ZenonT(60)
    <3> QED BY <1>2, <3>1, <3>2
  <2>2. CASE a = Tick /\ s.ticks = 2
    <3>1. SplitOne(s, a) = [done |-> Append(s.done, s.part), part |-> <<>>, ticks |-> 0]
      BY <1>0, <1>1, <2>2, SplitOneIs
    <3>2. SplitOne(t, b) = [done |-> Append(t.done, t.part), part |-> <<>>, ticks |-> 0]
      BY <1>0, <1>1, <1>2, <2>2, SplitOneIs
    <3>3. Len(Append(s.done, s.part)) = Len(s.done) + 1 /\ Len(Append(t.done, t.part)) = Len(t.done) + 1
      BY <1>3, AppendProperties
    <3> QED BY <1>2, <3>1, <3>2, <3>3
  <2>3. CASE a = Tick /\ s.ticks # 2
    <3>1. SplitOne(s, a) = [done |-> s.done, part |-> s.part, ticks |-> s.ticks + 1]
      BY <1>0, <1>1, <2>3, SplitOneIs
    <3>2. SplitOne(t, b) = [done |-> t.done, part |-> t.part, ticks |-> t.ticks + 1]
      BY <1>0, <1>1, <1>2, <2>3, SplitOneIs
    <3> QED BY <1>2, <3>1, <3>2
  <2> QED BY <2>1, <2>2, <2>3
<1> QED BY <1>1, <1>4 DEF SameFences

\* Texts with ticks in the same places have as many parts.
LEMMA SameFencesParts ==
  ASSUME NEW u \in Seq(Atom), NEW v \in Seq(Atom), SameFences(u, v)
  PROVE  Len(Parts(u)) = Len(Parts(v)) /\ Len(Parts(u)) \in Nat
<1>0. Tick \in Atom
  BY DEF Tick, Atom, Kinds
<1>1. ASSUME NEW w \in Seq(Atom)
      PROVE  Len(Parts(w)) = Len(Split(w).done) + 1 /\ Len(Split(w).done) \in Nat
  <2> DEFINE s == Split(w)
             e == s.part \o SubSeq(Fence, 1, s.ticks)
  <2>1. s \in SplitState(Atom) BY <1>0, SplitStep
  <2> HIDE DEF s
  <2>2. s.done \in Seq(Seq(Atom)) /\ s.part \in Seq(Atom) /\ SubSeq(Fence, 1, s.ticks) \in Seq(Atom)
    <3>1. s.done \in Seq(Seq(Atom)) /\ s.part \in Seq(Atom) /\ s.ticks \in {0, 1, 2}
      BY <2>1 DEF SplitState
    <3> QED BY <1>0, <3>1, FenceIs
  <2>3. e \in Seq(Atom) BY <2>2, ConcatProperties
  <2> HIDE DEF e
  <2>4. Len(Append(s.done, e)) = Len(s.done) + 1 /\ Len(s.done) \in Nat
    BY <2>2, <2>3, AppendProperties, LenProperties
  <2> QED BY <2>4, PartsAre DEF s, e
<1> QED BY <1>1 DEF SameFences

\* What TakeTokens has taken out of a text, and that it left the fences alone.
LEMMA TokensTaken ==
  ASSUME NEW text \in Seq(Of(TextKinds))
  PROVE  /\ Holds(TextKinds, "ST", TakeTokens(text).saved, TakeTokens(text).text, EscapedText(text))
         /\ SameFences(text, TakeTokens(text).text)
<1> DEFINE Done(u, s) == /\ Holds(TextKinds, "ST", s.saved, s.text, EscapedText(u))
                         /\ SameFences(u, s.text)
           P == {u \in Seq(Of(TextKinds)) : Done(u, TakeTokens(u))}
<1>0. Apart(TextKinds, "ST")
  BY DEF Apart, TextKinds, Kinds
<1>1. Of(TextKinds) \in SUBSET Atom
  BY <1>0, ApartAtoms
<1>2. <<>> \in P
  <2>1. TakeTokens(<<>>) = NothingTaken BY TokensBase
  <2>2. EscapedText(<<>>) = <<>>
    BY DEF EscapedText
  <2>3. Holds(TextKinds, "ST", <<>>, <<>>, <<>>) BY <1>0, HoldsNothing
  <2>4. NothingTaken.saved = <<>> /\ NothingTaken.text = <<>> BY DEF NothingTaken
  <2>5. <<>> \in Seq(Of(TextKinds)) BY EmptySeq
  <2>6. SameFences(<<>>, <<>>) BY DEF SameFences
  <2> QED BY <2>1, <2>2, <2>3, <2>4, <2>5, <2>6
<1>3. ASSUME NEW u \in Seq(Of(TextKinds)), NEW a \in Of(TextKinds), u \in P
      PROVE  Append(u, a) \in P
  <2> DEFINE s == TakeTokens(u)
             z == TakeTokens(Append(u, a))
             x == EscapedAtom(a)
             n == Len(s.saved)
  <2>1. u \in Seq(Atom) /\ a \in Atom
    BY <1>1
  <2>2. s \in Taken /\ z = TakeToken(s, a)
    BY <2>1, TokensStep
  <2>3. Holds(TextKinds, "ST", s.saved, s.text, EscapedText(u)) /\ SameFences(u, s.text)
    BY <1>3
  <2>4. EscapedText(Append(u, a)) = EscapedText(u) \o <<x>> /\ EscapedText(u) \in Seq(Atom)
    BY <2>1, EscapedTextAppend
  <2>5. s.saved \in Seq(Seq(Atom)) /\ s.text \in Seq(Atom) /\ n \in Nat
    <3>1. s.saved \in Seq(Seq(Atom)) /\ s.text \in Seq(Atom) BY <2>2 DEF Taken
    <3> QED BY <3>1, LenProperties
  <2>6. x \in Of(TextKinds) /\ x \in Atom /\ (a # Tick <=> x # Tick)
    <3>1. EscapedAtom(a) \in Of(TextKinds) /\ (a # Tick <=> EscapedAtom(a) # Tick)
      BY EscapedAtomIs
    <3> QED BY <1>1, <3>1
  <2>7. <<x>> \in Seq(Of(TextKinds)) /\ <<a>> \in Seq(Of(TextKinds))
    BY <2>6, OneElement
  <2>8. Append(u, a) \in Seq(Of(TextKinds))
    BY AppendProperties
  <2> HIDE DEF s, z, P, x, n
  <2>9. Done(Append(u, a), z)
    <3>1. CASE a[1] = "mention"
      <4>1. z = [saved |-> Append(s.saved, <<a>>), text |-> Append(s.text, <<"ST", n + 1>>)]
        BY <2>1, <2>2, <3>1, TakeTokenIs DEF n
      <4>2. a # Tick
        BY <3>1 DEF Tick
      <4>3. x = a
        BY <3>1, EscapedAtomIs DEF x
      <4>4. Holds(TextKinds, "ST", Append(s.saved, <<a>>), Append(s.text, <<"ST", n + 1>>),
                  EscapedText(u) \o <<a>>)
        BY <1>0, <2>3, <2>7, HoldsTakes DEF n
      <4>5. <<"ST", n + 1>> \in Atom /\ <<"ST", n + 1>> # Tick
        BY <2>5 DEF Atom, Kinds, Tick
      <4>6. SameFences(Append(u, a), Append(s.text, <<"ST", n + 1>>))
        BY <2>1, <2>3, <2>5, <4>2, <4>5, SameFencesStep
      <4>7. z.saved = Append(s.saved, <<a>>) /\ z.text = Append(s.text, <<"ST", n + 1>>)
        BY <4>1
      <4> QED BY <2>4, <4>3, <4>4, <4>6, <4>7
    <3>2. CASE a[1] # "mention"
      <4>1. z = [saved |-> s.saved, text |-> Append(s.text, x)]
        BY <2>1, <2>2, <3>2, TakeTokenIs DEF x
      <4>2. s.text \o <<x>> = Append(s.text, x)
        BY <2>5, <2>6, AppendIsConcat
      <4>3. Holds(TextKinds, "ST", s.saved, s.text \o <<x>>, EscapedText(u) \o <<x>>)
        BY <1>0, <2>3, <2>7, HoldsWrites
      <4>4. SameFences(Append(u, a), Append(s.text, x))
        BY <2>1, <2>3, <2>5, <2>6, SameFencesStep
      <4>5. z.saved = s.saved /\ z.text = Append(s.text, x)
        BY <4>1
      <4> QED BY <2>4, <4>2, <4>3, <4>4, <4>5
    <3> QED BY <3>1, <3>2
  <2> QED BY <2>8, <2>9 DEF P, z
<1> HIDE DEF P
<1>4. Seq(Of(TextKinds)) \subseteq P
  BY <1>2, <1>3, SeqInduction
<1>5. text \in P
  BY <1>4
<1> QED BY <1>5 DEF P

\* The parts, with a fence behind each of them.
Glue(parts) == FoldLeft(LAMBDA out, p : out \o p \o Fence, <<>>, parts)

\* The step of Glue as a function.
GlueFun(E) == [p \in Seq(E) \X Seq(E) |-> (p[1] \o p[2]) \o Fence]

\* Parts are glued one by one.
LEMMA GlueRun ==
  ASSUME NEW E, Tick \in E, NEW s \in Seq(Seq(E))
  PROVE  \E r : Trace(r, GlueFun(E), <<>>, s, Seq(E)) /\ Glue(s) = r[Len(s)]
<1> DEFINE F == GlueFun(E)
           Step(g) == [T \in SUBSET DOMAIN s |->
                         IF T = {} THEN <<>> ELSE (g[T \ {Max(T)}] \o s[Max(T)]) \o Fence]
           it == CHOOSE g : g = Step(g)
<1>1. Len(s) \in Nat /\ DOMAIN s = 1..Len(s)
  BY LenProperties
<1>2. ASSUME NEW x \in Seq(E), NEW y \in Seq(E) PROVE (x \o y) \o Fence \in Seq(E)
  <2>1. Fence \in Seq(E) BY FenceIs
  <2>2. x \o y \in Seq(E) BY ConcatProperties
  <2> QED BY <2>1, <2>2, ConcatProperties
<1>3. F \in [Seq(E) \X Seq(E) -> Seq(E)]
  BY <1>2 DEF GlueFun
<1>4. ASSUME NEW x \in Seq(E), NEW y \in Seq(E) PROVE F[<<x, y>>] = (x \o y) \o Fence
  BY DEF GlueFun
<1>5. ASSUME NEW T \in SUBSET (1..Len(s)), T # {} PROVE s[Max(T)] \in Seq(E)
  <2>1. Max(T) \in 1..Len(s) BY <1>1, <1>5, MaxOf
  <2> QED BY <2>1, ElementOfSeq
<1>6. <<>> \in Seq(E)
  BY EmptySeq
<1> HIDE DEF F
<1>7. \E g : g = Step(g)
  <2>1. PICK g \in [SUBSET (1..Len(s)) -> Seq(E)] : IsFold(g, F, <<>>, s)
    BY <1>3, <1>6, FoldExists
  <2>2. ASSUME NEW T \in SUBSET (1..Len(s)), T # {}
        PROVE  F[<<g[T \ {Max(T)}], s[Max(T)]>>] = (g[T \ {Max(T)}] \o s[Max(T)]) \o Fence
    BY <1>4, <1>5, <2>2
  <2>3. g = Step(g) BY <1>1, <2>1, <2>2 DEF IsFold
  <2> QED BY <2>3
<1>8. it = Step(it)
  <2> HIDE DEF Step
  <2> QED BY <1>7
<1>9. Glue(s) = it[DOMAIN s]
  BY DEF FoldLeft, MapThenFoldSet, Glue
<1> HIDE DEF it
<1>10. Folds(it, Seq(E), F, <<>>, s)
  <2>1. ASSUME NEW T \in SUBSET (1..Len(s))
        PROVE  it[T] = IF T = {} THEN <<>> ELSE (it[T \ {Max(T)}] \o s[Max(T)]) \o Fence
    BY <1>1, <1>8
  <2> QED BY <1>4, <1>5, <2>1 DEF Folds
<1>11. PICK r \in [0..Len(s) -> Seq(E)] : Path(r, it, F, <<>>, s)
  BY <1>3, <1>6, <1>10, FoldPath
<1>12. Trace(r, F, <<>>, s, Seq(E)) /\ it[1..Len(s)] = r[Len(s)]
  <2>1. Len(s) \in 0..Len(s) BY <1>1
  <2> QED BY <1>11, <2>1 DEF Path, Trace
<1>13. Glue(s) = r[Len(s)]
  BY <1>1, <1>9, <1>12
<1> QED BY <1>12, <1>13 DEF F

\* What one part more does.
LEMMA GlueStep ==
  ASSUME NEW E, Tick \in E, NEW s \in Seq(Seq(E)), NEW e \in Seq(E)
  PROVE  Glue(s) \in Seq(E) /\ Glue(Append(s, e)) = (Glue(s) \o e) \o Fence
<1> DEFINE F == GlueFun(E)
           t == Append(s, e)
<1>1. PICK r : Trace(r, F, <<>>, s, Seq(E)) /\ Glue(s) = r[Len(s)]
  BY GlueRun
<1>2. t \in Seq(Seq(E)) /\ Longer(t, s, e)
  BY AppendProperties DEF Longer
<1> HIDE DEF t
<1>3. PICK q : Trace(q, F, <<>>, t, Seq(E)) /\ Glue(t) = q[Len(t)]
  BY <1>2, GlueRun
<1> HIDE DEF F
<1>4. r[Len(s)] \in Seq(E) /\ q[Len(t)] = F[<<r[Len(s)], e>>]
  <2>1. OneStep(q, t, r, s, e, F, Seq(E)) BY <1>1, <1>2, <1>3, TraceStep
  <2> QED BY <2>1 DEF OneStep
<1>5. ASSUME NEW x \in Seq(E) PROVE F[<<x, e>>] = (x \o e) \o Fence
  BY DEF F, GlueFun
<1>6. Glue(s) \in Seq(E) /\ F[<<Glue(s), e>>] = (Glue(s) \o e) \o Fence
  BY <1>1, <1>4, <1>5
<1>7. Glue(t) = F[<<Glue(s), e>>]
  BY <1>1, <1>3, <1>4
<1>8. Glue(t) = (Glue(s) \o e) \o Fence
  BY <1>6, <1>7
<1> QED BY <1>6, <1>8 DEF t

\* No parts, no text.
LEMMA GlueBase ==
  ASSUME NEW E, Tick \in E
  PROVE  Glue(<<>>) = <<>>
<1> DEFINE t == <<>>
<1>1. t \in Seq(Seq(E)) /\ Len(t) = 0
  BY EmptySeq
<1> HIDE DEF t
<1>2. PICK r : Trace(r, GlueFun(E), <<>>, t, Seq(E)) /\ Glue(t) = r[Len(t)]
  BY <1>1, GlueRun
<1>3. Glue(t) = <<>>
  BY <1>1, <1>2 DEF Trace
<1> QED BY <1>3 DEF t

\* What has been split so far, glued together, is what has been read.
Resplit(E, u, s) ==
  /\ s \in SplitState(E)
  /\ u = Glue(s.done) \o (s.part \o SubSeq(Fence, 1, s.ticks))

\* A text is its parts with fences between them.
LEMMA PartsComeBack ==
  ASSUME NEW E, Tick \in E, NEW text \in Seq(E)
  PROVE  Resplit(E, text, Split(text))
<1> DEFINE P == {u \in Seq(E) : Resplit(E, u, Split(u))}
<1>1. <<>> \in P
  <2> DEFINE none == <<>>
  <2>1. Split(<<>>) = NothingSplit BY SplitBase
  <2>2. Glue(<<>>) = <<>> BY GlueBase
  <2>3. SubSeq(Fence, 1, 0) = <<>> BY FenceIs
  <2>4. none \in Seq(E) /\ none \in Seq(Seq(E)) BY EmptySeq
  <2>5. none \o none = none BY <2>4, ConcatEmptySeq
  <2>6. NothingSplit.done = <<>> /\ NothingSplit.part = <<>> /\ NothingSplit.ticks = 0
    BY DEF NothingSplit
  <2>7. NothingSplit \in SplitState(E) BY <2>4 DEF NothingSplit, SplitState
  <2> QED BY <2>1, <2>2, <2>3, <2>4, <2>5, <2>6, <2>7 DEF Resplit
<1>2. ASSUME NEW u \in Seq(E), NEW a \in E, u \in P PROVE Append(u, a) \in P
  <2> DEFINE s == Split(u)
             z == Split(Append(u, a))
             g == Glue(s.done)
             f == SubSeq(Fence, 1, s.ticks)
             one == <<a>>
  <2>1. s \in SplitState(E) /\ u = g \o (s.part \o f) /\ z = SplitOne(s, a) /\ z \in SplitState(E)
    <3>1. Split(u) \in SplitState(E) /\ Split(Append(u, a)) = SplitOne(Split(u), a) BY SplitStep
    <3> QED BY <1>2, <3>1, SplitOneIs DEF Resplit
  <2>2. Append(u, a) \in Seq(E) /\ Append(u, a) = u \o one /\ one \in Seq(E)
    BY AppendProperties, AppendIsConcat, OneElement
  <2> HIDE DEF s, z
  <2>3. s.done \in Seq(Seq(E)) /\ s.part \in Seq(E) /\ s.ticks \in {0, 1, 2}
    BY <2>1 DEF SplitState
  <2>4. g \in Seq(E) /\ Glue(Append(s.done, s.part)) = (g \o s.part) \o Fence
    BY <2>3, GlueStep
  <2>5. f \in Seq(E)
    BY <2>3, FenceIs
  <2> HIDE DEF g, one, f
  <2>6. s.part \o f \in Seq(E) /\ g \o (s.part \o f) \in Seq(E) /\ (s.part \o f) \o one \in Seq(E)
        /\ f \o one \in Seq(E)
    <3>1. s.part \o f \in Seq(E) /\ f \o one \in Seq(E) BY <2>2, <2>3, <2>5, ConcatProperties
    <3> QED BY <2>2, <2>4, <3>1, ConcatProperties
  <2>7. u \o one = g \o ((s.part \o f) \o one)
    <3> DEFINE p == s.part \o f
    <3>1. g \in Seq(E) /\ p \in Seq(E) /\ one \in Seq(E) /\ u = g \o p BY <2>1, <2>2, <2>4, <2>6
    <3> HIDE DEF p
    <3>2. (g \o p) \o one = g \o (p \o one) BY ONLY <3>1, ConcatAssociative, SMTT(60)
    <3> QED BY <3>1, <3>2 DEF p
  <2>8. (s.part \o f) \o one = s.part \o (f \o one)
    <3> DEFINE p == s.part
    <3>1. p \in Seq(E) /\ f \in Seq(E) /\ one \in Seq(E) BY <2>2, <2>3, <2>5
    <3> HIDE DEF p
    <3>2. (p \o f) \o one = p \o (f \o one) BY ONLY <3>1, ConcatAssociative, SMTT(60)
    <3> QED BY <3>2 DEF p
  <2>9. Append(u, a) = Glue(z.done) \o (z.part \o SubSeq(Fence, 1, z.ticks))
    <3>1. CASE a # Tick
      <4>1. z = [done |-> s.done, part |-> (s.part \o f) \o one, ticks |-> 0]
        <5>1. z = [done |-> s.done, part |-> (s.part \o SubSeq(Fence, 1, s.ticks)) \o <<a>>,
                   ticks |-> 0]
          <6>1. s \in SplitState(E) /\ Tick \in E /\ a \in E BY <2>1
          <6>2. SplitOne(s, a) = [done |-> s.done, ticks |-> 0,
                                  part |-> (s.part \o SubSeq(Fence, 1, s.ticks)) \o <<a>>]
            BY ONLY <3>1, <6>1, SplitOneIs, ZenonT(60)
          <6>3. z = SplitOne(s, a) BY <2>1
          <6> QED BY <6>2, <6>3
        <5> QED BY <5>1 DEF f, one
      <4>2. ((s.part \o f) \o one) \o <<>> = (s.part \o f) \o one
        BY <2>6, ConcatEmptySeq
      <4>3. SubSeq(Fence, 1, 0) = <<>> BY FenceIs
      <4>4. z.done = s.done /\ z.part = (s.part \o f) \o one /\ z.ticks = 0 BY <4>1
      <4> QED BY <2>2, <2>7, <4>2, <4>3, <4>4 DEF g
    <3>2. CASE a = Tick /\ s.ticks = 2
      <4>1. z = [done |-> Append(s.done, s.part), part |-> <<>>, ticks |-> 0]
        BY <2>1, <3>2, SplitOneIs
      <4>2. SubSeq(Fence, 1, 0) = <<>> /\ f \o one = Fence /\ Fence \in Seq(E)
        BY <3>2, FenceIs DEF f, one
      <4>3. u \o one = g \o (s.part \o Fence)
        BY <2>7, <2>8, <4>2
      <4>4. g \o (s.part \o Fence) = (g \o s.part) \o Fence /\ (g \o s.part) \o Fence \in Seq(E)
        <5>1. g \o s.part \in Seq(E) BY <2>3, <2>4, ConcatProperties
        <5>2. (g \o s.part) \o Fence \in Seq(E) BY <4>2, <5>1, ConcatProperties
        <5> DEFINE p == s.part
                   fence == Fence
        <5>3. g \in Seq(E) /\ p \in Seq(E) /\ fence \in Seq(E) BY <2>3, <2>4, <4>2
        <5> HIDE DEF p, fence
        <5>4. (g \o p) \o fence = g \o (p \o fence) BY ONLY <5>3, ConcatAssociative, SMTT(60)
        <5> QED BY <5>2, <5>4 DEF p, fence
      <4>5. Glue(z.done) = u \o one /\ z.part = <<>> /\ z.ticks = 0
        BY <2>4, <4>1, <4>3, <4>4
      <4>6. <<>> \o <<>> = <<>> /\ (u \o one) \o <<>> = u \o one
        <5> DEFINE none == <<>>
        <5>1. none \in Seq(E) BY EmptySeq
        <5>2. u \o one \in Seq(E) BY <4>3, <4>4
        <5>3. none \o none = none BY <5>1, ConcatEmptySeq
        <5> QED BY <5>2, <5>3, ConcatEmptySeq
      <4> QED BY <2>2, <4>2, <4>5, <4>6
    <3>3. CASE a = Tick /\ s.ticks # 2
      <4>1. z = [done |-> s.done, part |-> s.part, ticks |-> s.ticks + 1] /\ s.ticks \in {0, 1}
        BY <2>1, <3>3, SplitOneIs, ZenonT(60)
      <4>2. SubSeq(Fence, 1, s.ticks + 1) = f \o one
        BY <3>3, <4>1, FenceIs DEF f, one
      <4>3. z.done = s.done /\ z.part = s.part /\ z.ticks = s.ticks + 1 BY <4>1
      <4> QED BY <2>2, <2>7, <2>8, <4>2, <4>3 DEF g
    <3> QED BY <3>1, <3>2, <3>3
  <2>10. Resplit(E, Append(u, a), z)
    BY <2>1, <2>9 DEF Resplit
  <2> QED BY <2>2, <2>10 DEF z
<1> HIDE DEF P
<1>3. Seq(E) \subseteq P
  BY <1>1, <1>2, SeqInduction
<1>4. text \in P
  BY <1>3
<1> QED BY <1>4 DEF P

-----------------------------------------------------------------------------
(* extractCodeBlocks.                                                       *)

\* extractCodeBlocks, part by part.
TakeBlock(parts, s, i) ==
  IF i % 2 = 0 THEN [saved |-> Append(s.saved, Fence \o parts[i] \o Fence),
                     text |-> Append(s.text, <<"CB", Len(s.saved) + 1>>)]
  ELSE [s EXCEPT !.text = @ \o parts[i]]
AllBlocks(parts) ==
  FoldLeft(LAMBDA s, i : TakeBlock(parts, s, i), NothingTaken, [i \in 1..Len(parts) |-> i])

\* Fewer than three parts are left alone; an odd number of them is read so.
LEMMA BlocksAre ==
  ASSUME NEW text
  PROVE  /\ Len(Parts(text)) < 3 => TakeBlocks(text) = [saved |-> <<>>, text |-> text]
         /\ ~(Len(Parts(text)) < 3) /\ Len(Parts(text)) % 2 # 0 => TakeBlocks(text) = AllBlocks(Parts(text))
BY DEF TakeBlocks, AllBlocks, TakeBlock, NothingTaken

\* A part of an even place is saved; the others are written out.
LEMMA TakeBlockIs ==
  ASSUME NEW parts \in Seq(Seq(Atom)), NEW s \in Taken, NEW i \in 1..Len(parts)
  PROVE  /\ TakeBlock(parts, s, i) \in Taken
         /\ i % 2 = 0 => TakeBlock(parts, s, i) =
              [saved |-> Append(s.saved, (Fence \o parts[i]) \o Fence),
               text |-> Append(s.text, <<"CB", Len(s.saved) + 1>>)]
         /\ i % 2 # 0 => TakeBlock(parts, s, i) = [saved |-> s.saved, text |-> s.text \o parts[i]]
<1>1. s = [saved |-> s.saved, text |-> s.text] /\ s.saved \in Seq(Seq(Atom)) /\ s.text \in Seq(Atom)
  BY DEF Taken
<1>2. parts[i] \in Seq(Atom)
  BY ElementOfSeq
<1>3. CASE i % 2 = 0
  <2> DEFINE z == (Fence \o parts[i]) \o Fence
  <2>1. TakeBlock(parts, s, i) = [saved |-> Append(s.saved, z),
                                  text |-> Append(s.text, <<"CB", Len(s.saved) + 1>>)]
    BY <1>3 DEF TakeBlock
  <2>2. z \in Seq(Atom)
    <3>1. Tick \in Atom BY DEF Tick, Atom, Kinds
    <3>2. Fence \in Seq(Atom) BY <3>1, FenceIs
    <3>3. Fence \o parts[i] \in Seq(Atom) BY <1>2, <3>2, ConcatProperties
    <3> QED BY <3>2, <3>3, ConcatProperties
  <2> HIDE DEF z
  <2>3. <<"CB", Len(s.saved) + 1>> \in Atom
    <3>1. Len(s.saved) \in Nat BY <1>1, LenProperties
    <3> QED BY <3>1 DEF Atom, Kinds
  <2>4. Append(s.saved, z) \in Seq(Seq(Atom))
    BY <1>1, <2>2, AppendProperties
  <2>5. Append(s.text, <<"CB", Len(s.saved) + 1>>) \in Seq(Atom)
    BY <1>1, <2>3, AppendProperties
  <2>6. TakeBlock(parts, s, i) \in Taken
    BY <2>1, <2>4, <2>5 DEF Taken
  <2> QED BY <1>3, <2>1, <2>6 DEF z
<1>4. CASE i % 2 # 0
  <2>1. TakeBlock(parts, s, i) = [saved |-> s.saved, text |-> s.text \o parts[i]]
    BY <1>1, <1>4 DEF TakeBlock
  <2>2. s.text \o parts[i] \in Seq(Atom)
    BY <1>1, <1>2, ConcatProperties
  <2> QED BY <1>1, <1>4, <2>1, <2>2 DEF Taken
<1> QED BY <1>3, <1>4

\* r: what has been taken out after each of the parts.
BlocksTrace(r, parts) ==
  /\ r \in [0..Len(parts) -> Taken]
  /\ r[0] = NothingTaken
  /\ \A n \in 1..Len(parts) : r[n] = TakeBlock(parts, r[n - 1], n)
  /\ AllBlocks(parts) = r[Len(parts)]

\* The parts are read one by one.
LEMMA BlocksRun ==
  ASSUME NEW parts \in Seq(Seq(Atom)),
         NEW ids \in Seq(1..Len(parts)), IsIds(ids, Len(parts)), Len(ids) = Len(parts)
  PROVE  \E r : BlocksTrace(r, parts)
<1> DEFINE F == [p \in Taken \X (1..Len(parts)) |-> TakeBlock(parts, p[1], p[2])]
           Step(g) == [T \in SUBSET DOMAIN ids |->
                         IF T = {} THEN NothingTaken ELSE TakeBlock(parts, g[T \ {Max(T)}], ids[Max(T)])]
           it == CHOOSE g : g = Step(g)
<1>1. Len(ids) \in Nat /\ DOMAIN ids = 1..Len(ids)
  BY LenProperties
<1>2. ASSUME NEW x \in Taken, NEW y \in (1..Len(parts)) PROVE TakeBlock(parts, x, y) \in Taken
  BY TakeBlockIs
<1>3. F \in [Taken \X (1..Len(parts)) -> Taken]
  BY <1>2
<1>4. ASSUME NEW x \in Taken, NEW y \in (1..Len(parts)) PROVE F[<<x, y>>] = TakeBlock(parts, x, y)
  OBVIOUS
<1>5. ASSUME NEW T \in SUBSET (1..Len(ids)), T # {} PROVE ids[Max(T)] \in (1..Len(parts))
  <2>1. Max(T) \in 1..Len(ids) BY <1>1, <1>5, MaxOf
  <2> QED BY <2>1, ElementOfSeq
<1>b. NothingTaken \in Taken
  BY NothingTakenType
<1> HIDE DEF F
<1>6. \E g : g = Step(g)
  <2>1. PICK g \in [SUBSET (1..Len(ids)) -> Taken] : IsFold(g, F, NothingTaken, ids)
    BY <1>3, <1>b, FoldExists
  <2>2. ASSUME NEW T \in SUBSET (1..Len(ids)), T # {}
        PROVE  F[<<g[T \ {Max(T)}], ids[Max(T)]>>] = TakeBlock(parts, g[T \ {Max(T)}], ids[Max(T)])
    BY <1>4, <1>5, <2>2
  <2>3. g = Step(g) BY <1>1, <2>1, <2>2 DEF IsFold
  <2> QED BY <2>3
<1>7. it = Step(it)
  <2> HIDE DEF Step
  <2> QED BY <1>6
<1>8. AllBlocks(parts) = it[DOMAIN ids]
  BY DEF FoldLeft, MapThenFoldSet, AllBlocks, IsIds
<1> HIDE DEF it
<1>9. Folds(it, Taken, F, NothingTaken, ids)
  <2>1. ASSUME NEW T \in SUBSET (1..Len(ids))
        PROVE  it[T] = IF T = {} THEN NothingTaken ELSE TakeBlock(parts, it[T \ {Max(T)}], ids[Max(T)])
    BY <1>1, <1>7
  <2> QED BY <1>4, <1>5, <2>1 DEF Folds
<1>10. PICK r \in [0..Len(ids) -> Taken] : Path(r, it, F, NothingTaken, ids)
  BY <1>3, <1>9, <1>b, FoldPath
<1>11. ASSUME NEW n \in 1..Len(ids) PROVE r[n] = TakeBlock(parts, r[n - 1], ids[n])
  <2>0. n - 1 \in 0..Len(ids) BY <1>1
  <2>1. r[n - 1] \in Taken BY <2>0
  <2>2. ids[n] \in (1..Len(parts)) BY ElementOfSeq
  <2>3. r[n] = F[<<r[n - 1], ids[n]>>] BY <1>10 DEF Path
  <2>4. F[<<r[n - 1], ids[n]>>] = TakeBlock(parts, r[n - 1], ids[n]) BY <1>4, <2>1, <2>2
  <2> QED BY <2>3, <2>4
<1>12. r[0] = NothingTaken /\ AllBlocks(parts) = r[Len(ids)]
  <2>1. r[0] = NothingTaken BY <1>10 DEF Path
  <2>2. r[Len(ids)] = it[1..Len(ids)]
    <3>1. Len(ids) \in 0..Len(ids) BY <1>1
    <3> QED BY <1>10, <3>1 DEF Path
  <2> QED BY <1>1, <1>8, <2>1, <2>2
<1> QED BY <1>10, <1>11, <1>12 DEF BlocksTrace, IsIds

\* What TakeBlocks has taken out, unless the fences are odd.
LEMMA BlocksTaken ==
  ASSUME NEW kinds, Apart(kinds, "CB"), "tick" \in kinds,
         NEW text \in Seq(Of(kinds)),
         Len(Parts(text)) < 3 \/ Len(Parts(text)) % 2 # 0
  PROVE  Holds(kinds, "CB", TakeBlocks(text).saved, TakeBlocks(text).text, text)
<1> DEFINE E == Of(kinds)
           s == Split(text)
           last == s.part \o SubSeq(Fence, 1, s.ticks)
           parts == Parts(text)
           d == Len(s.done)
<1>1. E \in SUBSET Atom /\ Tick \in E
  <2>1. E \in SUBSET Atom BY ApartAtoms
  <2> QED BY <2>1 DEF Of, Tick
<1> HIDE DEF E
<1>2. s \in SplitState(E) /\ text = Glue(s.done) \o last
  <2>1. text \in Seq(E) BY DEF E
  <2>2. Resplit(E, text, s) BY <1>1, <2>1, PartsComeBack
  <2> QED BY <2>2 DEF Resplit
<1>3. parts = Append(s.done, last)
  BY PartsAre
<1>4. Holds(kinds, "CB", <<>>, <<>>, <<>>)
  BY HoldsNothing
<1>5. CASE Len(parts) < 3
  <2>1. TakeBlocks(text) = [saved |-> <<>>, text |-> text] BY <1>5, BlocksAre
  <2>2. Holds(kinds, "CB", <<>>, <<>> \o text, <<>> \o text) BY <1>4, HoldsWrites
  <2>3. <<>> \o text = text BY ConcatEmptySeq
  <2>4. TakeBlocks(text).saved = <<>> /\ TakeBlocks(text).text = text BY <2>1
  <2> QED BY <2>2, <2>3, <2>4
<1>6. CASE ~(Len(parts) < 3) /\ Len(parts) % 2 # 0
  <2>1. TakeBlocks(text) = AllBlocks(parts)
    BY <1>6, BlocksAre
  <2> HIDE DEF s, parts
  <2>2. s.done \in Seq(Seq(E)) /\ last \in Seq(E) /\ d \in Nat
    <3>1. s.done \in Seq(Seq(E)) /\ s.part \in Seq(E) /\ s.ticks \in {0, 1, 2}
      BY <1>2 DEF SplitState
    <3>2. SubSeq(Fence, 1, s.ticks) \in Seq(E) BY <1>1, <3>1, FenceIs
    <3> QED BY <3>1, <3>2, ConcatProperties, LenProperties
  <2> HIDE DEF last
  <2>3. /\ parts \in Seq(Seq(E)) /\ Len(parts) = d + 1 /\ parts[d + 1] = last
        /\ \A i \in 1..d : parts[i] = s.done[i]
    BY <1>3, <2>2, AppendProperties
  <2> HIDE DEF d
  <2>4. parts \in Seq(Seq(Atom))
    <3>1. Seq(E) \subseteq Seq(Atom) BY <1>1
    <3> QED BY <2>3, <3>1
  <2>5. PICK r : BlocksTrace(r, parts)
    <3> DEFINE ids == [n \in 1..Len(parts) |-> n]
    <3>1. ids \in Seq(1..Len(parts)) /\ Len(ids) = Len(parts)
      BY <2>2, <2>3, SeqDef
    <3>2. IsIds(ids, Len(parts)) BY DEF IsIds
    <3> HIDE DEF ids
    <3> QED BY <2>4, <3>1, <3>2, BlocksRun
  <2>6. PICK g : Trace(g, GlueFun(E), <<>>, s.done, Seq(E)) /\ Glue(s.done) = g[d]
    BY <1>1, <2>2, GlueRun DEF d
  <2>7. /\ \A n \in 0..d : g[n] \in Seq(E)
        /\ g[0] = <<>>
        /\ \A n \in 1..d : g[n] = (g[n - 1] \o parts[n]) \o Fence
    <3>1. /\ \A n \in 0..d : g[n] \in Seq(E)
          /\ g[0] = <<>>
          /\ \A n \in 1..d : g[n] = GlueFun(E)[<<g[n - 1], s.done[n]>>]
      BY <2>6 DEF Trace, d
    <3> SUFFICES ASSUME NEW n \in 1..d PROVE g[n] = (g[n - 1] \o parts[n]) \o Fence
      BY <3>1
    <3>2. n - 1 \in 0..d BY <2>2
    <3>3. g[n - 1] \in Seq(E) /\ s.done[n] \in Seq(E) /\ parts[n] = s.done[n]
      BY <2>2, <2>3, <3>1, <3>2, ElementOfSeq DEF d
    <3>4. GlueFun(E)[<<g[n - 1], s.done[n]>>] = (g[n - 1] \o s.done[n]) \o Fence
      BY <3>3 DEF GlueFun
    <3> QED BY <3>1, <3>3, <3>4
  <2> DEFINE W(n) == IF n % 2 = 0 THEN g[n] ELSE g[n - 1] \o parts[n]
             S == {n \in Nat : n <= Len(parts) => Holds(kinds, "CB", r[n].saved, r[n].text, W(n))}
  <2>8. 0 \in S
    <3>1. r[0] = NothingTaken BY <2>5 DEF BlocksTrace
    <3>2. r[0].saved = <<>> /\ r[0].text = <<>> BY <3>1 DEF NothingTaken
    <3>3. W(0) = <<>> BY <2>7
    <3> QED BY <1>4, <3>2, <3>3
  <2>9. ASSUME NEW n \in Nat, n \in S PROVE n + 1 \in S
    <3> SUFFICES ASSUME n + 1 <= Len(parts)
                 PROVE  Holds(kinds, "CB", r[n + 1].saved, r[n + 1].text, W(n + 1))
      OBVIOUS
    <3>1. n + 1 \in 1..Len(parts) /\ n \in 0..Len(parts) /\ (n + 1) - 1 = n
      BY <2>2, <2>3
    <3>2. r[n] \in Taken /\ r[n + 1] = TakeBlock(parts, r[n], n + 1)
      BY <2>5, <3>1 DEF BlocksTrace
    <3>3. Holds(kinds, "CB", r[n].saved, r[n].text, W(n))
      BY <2>2, <2>3, <2>9
    <3>4. parts[n + 1] \in Seq(E)
      BY <2>3, <3>1, ElementOfSeq
    <3>5. Len(parts) % 2 = 1
      BY <1>6, <2>2, <2>3
    <3>6. CASE (n + 1) % 2 = 0
      <4> DEFINE z == (Fence \o parts[n + 1]) \o Fence
      <4>1. r[n + 1] = [saved |-> Append(r[n].saved, z),
                        text |-> Append(r[n].text, <<"CB", Len(r[n].saved) + 1>>)]
        BY <2>4, <3>1, <3>2, <3>6, TakeBlockIs
      <4>2. n % 2 # 0 /\ n >= 1 /\ n + 1 <= d
        <5>1. Len(parts) = d + 1 BY <2>3
        <5>2. (d + 1) % 2 = 1 /\ n + 1 <= d + 1 BY <3>5, <5>1
        <5>3. d \in Nat /\ n \in Nat BY <2>2
        <5>4. n + 1 # d + 1 BY <3>6, <5>2
        <5>5. n % 2 # 0 BY <3>6, <5>3
        <5>6. n # 0 BY <5>5
        <5> QED BY ONLY <5>2, <5>3, <5>4, <5>5, <5>6
      <4>3. n \in 1..d /\ n + 1 \in 1..d /\ n - 1 \in 0..d
        BY <2>2, <4>2
      <4>4. W(n) = g[n - 1] \o parts[n] /\ W(n + 1) = g[n + 1]
        BY <3>6, <4>2
      <4>5. Fence \in Seq(E)
        BY <1>1, FenceIs
      <4>6. z \in Seq(E) /\ Fence \o parts[n + 1] \in Seq(E)
        <5>1. Fence \o parts[n + 1] \in Seq(E) BY <3>4, <4>5, ConcatProperties
        <5> QED BY <4>5, <5>1, ConcatProperties
      <4>7. g[n] = W(n) \o Fence /\ g[n + 1] = (g[n] \o parts[n + 1]) \o Fence
        BY <2>7, <3>1, <4>3, <4>4
      <4>8. W(n) \in Seq(E)
        <5>1. g[n - 1] \in Seq(E) BY <2>7, <4>3
        <5>2. parts[n] \in Seq(E)
          <6>1. n \in 1..Len(parts) BY <2>2, <2>3, <4>3
          <6> QED BY <2>3, <6>1, ElementOfSeq
        <5> QED BY <4>4, <5>1, <5>2, ConcatProperties
      <4>9. W(n + 1) = W(n) \o z
        <5> DEFINE w == W(n)
                   p == parts[n + 1]
        <5>1. w \in Seq(E) /\ p \in Seq(E) BY <3>4, <4>8
        <5>2. W(n + 1) = ((w \o Fence) \o p) \o Fence BY <4>4, <4>7
        <5> HIDE DEF w, p, W
        <5> DEFINE f == Fence
                   q == f \o p
        <5>3. f \in Seq(E) BY <4>5
        <5> HIDE DEF f
        <5>4. (w \o f) \o p = w \o (f \o p) BY ONLY <5>1, <5>3, ConcatAssociative, SMTT(60)
        <5>5. q \in Seq(E) BY <5>1, <5>3, ConcatProperties
        <5> HIDE DEF q
        <5>6. (w \o q) \o f = w \o (q \o f) BY ONLY <5>1, <5>3, <5>5, ConcatAssociative, SMTT(60)
        <5> QED BY <5>2, <5>4, <5>6 DEF w, p, q, f
      <4> HIDE DEF z, W
      <4>10. Holds(kinds, "CB", Append(r[n].saved, z), Append(r[n].text, <<"CB", Len(r[n].saved) + 1>>),
                   W(n) \o z)
        <5>1. z \in Seq(Of(kinds)) BY <4>6 DEF E
        <5> DEFINE a == r[n].saved
                   b == r[n].text
                   w == W(n)
        <5>2. Holds(kinds, "CB", a, b, w) BY <3>3
        <5> HIDE DEF a, b, w
        <5>3. Holds(kinds, "CB", Append(a, z), Append(b, <<"CB", Len(a) + 1>>), w \o z)
          BY <5>1, <5>2, HoldsTakes
        <5> QED BY <5>3 DEF a, b, w
      <4>11. r[n + 1].saved = Append(r[n].saved, z)
             /\ r[n + 1].text = Append(r[n].text, <<"CB", Len(r[n].saved) + 1>>)
        <5> DEFINE y == r[n + 1]
                   a == Append(r[n].saved, z)
                   b == Append(r[n].text, <<"CB", Len(r[n].saved) + 1>>)
        <5>1. y = [saved |-> a, text |-> b] BY <4>1
        <5> HIDE DEF y, a, b
        <5>2. y.saved = a /\ y.text = b BY <5>1
        <5> QED BY <5>2 DEF y, a, b
      <4> QED BY <4>9, <4>10, <4>11
    <3>7. CASE (n + 1) % 2 # 0
      <4>1. r[n + 1] = [saved |-> r[n].saved, text |-> r[n].text \o parts[n + 1]]
        BY <2>4, <3>1, <3>2, <3>7, TakeBlockIs
      <4>2. n % 2 = 0 BY <3>7
      <4>3. W(n) = g[n] /\ W(n + 1) = g[n] \o parts[n + 1]
        BY <3>1, <3>7, <4>2
      <4> HIDE DEF W
      <4>4. Holds(kinds, "CB", r[n].saved, r[n].text \o parts[n + 1], W(n) \o parts[n + 1])
        <5> DEFINE a == r[n].saved
                   b == r[n].text
                   w == W(n)
                   p == parts[n + 1]
        <5>1. Holds(kinds, "CB", a, b, w) /\ p \in Seq(Of(kinds)) BY <3>3, <3>4 DEF E
        <5> HIDE DEF a, b, w, p
        <5>2. Holds(kinds, "CB", a, b \o p, w \o p)
          BY <5>1, HoldsWrites
        <5> QED BY <5>2 DEF a, b, w, p
      <4>5. r[n + 1].saved = r[n].saved /\ r[n + 1].text = r[n].text \o parts[n + 1]
        <5> DEFINE y == r[n + 1]
                   a == r[n].saved
                   b == r[n].text \o parts[n + 1]
        <5>1. y = [saved |-> a, text |-> b] BY <4>1
        <5> HIDE DEF y, a, b
        <5>2. y.saved = a /\ y.text = b BY <5>1
        <5> QED BY <5>2 DEF y, a, b
      <4> QED BY <4>3, <4>4, <4>5
    <3> QED BY <3>6, <3>7
  <2>10. W(Len(parts)) = text
    <3>1. (d + 1) % 2 # 0 /\ (d + 1) - 1 = d BY <1>6, <2>2, <2>3
    <3> QED BY <1>2, <2>3, <2>6, <3>1
  <2> HIDE DEF S, W
  <2>11. Len(parts) \in S
    <3>1. Len(parts) \in Nat BY <2>2, <2>3
    <3> QED BY <2>8, <2>9, <3>1, Induction
  <2>12. Holds(kinds, "CB", r[Len(parts)].saved, r[Len(parts)].text, text)
    <3>1. Len(parts) \in Nat BY <2>2, <2>3
    <3> QED BY <2>10, <2>11, <3>1 DEF S
  <2> QED BY <2>1, <2>5, <2>12 DEF BlocksTrace
<1> QED BY <1>5, <1>6

-----------------------------------------------------------------------------
(* extractInlineCodes.                                                      *)

\* extractInlineCodes, atom by atom.
InlineState == [saved : Seq(Seq(Atom)), text : Seq(Atom), open : BOOLEAN, code : Seq(Atom)]
TakeCode(s, a) ==
  IF a = Tick
  THEN IF s.open
       THEN [saved |-> Append(s.saved, <<Tick>> \o s.code \o <<Tick>>),
             text |-> Append(s.text, <<"IC", Len(s.saved) + 1>>),
             open |-> FALSE, code |-> <<>>]
       ELSE [s EXCEPT !.open = TRUE, !.code = <<>>]
  ELSE IF s.open THEN [s EXCEPT !.code = Append(@, a)]
  ELSE [s EXCEPT !.text = Append(@, a)]
NoCode == [saved |-> <<>>, text |-> <<>>, open |-> FALSE, code |-> <<>>]
TakeCodes(text) == FoldLeft(TakeCode, NoCode, text)

\* TakeInline is these steps, and the backtick that was not closed.
LEMMA InlineIs ==
  ASSUME NEW text
  PROVE  TakeInline(text) =
           [saved |-> TakeCodes(text).saved,
            text |-> IF TakeCodes(text).open THEN TakeCodes(text).text \o <<Tick>> \o TakeCodes(text).code
                     ELSE TakeCodes(text).text]
BY DEF TakeInline, TakeCodes, TakeCode, NoCode

\* What a backtick and what another atom does, outside and inside.
LEMMA TakeCodeIs ==
  ASSUME NEW s \in InlineState, NEW a \in Atom
  PROVE  /\ TakeCode(s, a) \in InlineState
         /\ a = Tick /\ s.open => TakeCode(s, a) =
              [saved |-> Append(s.saved, (<<Tick>> \o s.code) \o <<Tick>>),
               text |-> Append(s.text, <<"IC", Len(s.saved) + 1>>), open |-> FALSE, code |-> <<>>]
         /\ a = Tick /\ ~s.open => TakeCode(s, a) =
              [saved |-> s.saved, text |-> s.text, open |-> TRUE, code |-> <<>>]
         /\ a # Tick /\ s.open => TakeCode(s, a) =
              [saved |-> s.saved, text |-> s.text, open |-> s.open, code |-> Append(s.code, a)]
         /\ a # Tick /\ ~s.open => TakeCode(s, a) =
              [saved |-> s.saved, text |-> Append(s.text, a), open |-> s.open, code |-> s.code]
<1>1. /\ s = [saved |-> s.saved, text |-> s.text, open |-> s.open, code |-> s.code]
      /\ s.saved \in Seq(Seq(Atom)) /\ s.text \in Seq(Atom) /\ s.code \in Seq(Atom)
      /\ s.open \in BOOLEAN
  BY DEF InlineState
<1>2. <<>> \in Seq(Atom) /\ Append(s.code, a) \in Seq(Atom) /\ Append(s.text, a) \in Seq(Atom)
  BY <1>1, EmptySeq, AppendProperties
<1>3. CASE a = Tick /\ s.open
  <2> DEFINE z == (<<Tick>> \o s.code) \o <<Tick>>
             b == <<"IC", Len(s.saved) + 1>>
  <2>1. TakeCode(s, a) = [saved |-> Append(s.saved, z), text |-> Append(s.text, b),
                          open |-> FALSE, code |-> <<>>]
    BY <1>3 DEF TakeCode
  <2>2. z \in Seq(Atom)
    <3>1. <<Tick>> \in Seq(Atom) BY <1>3, OneElement
    <3>2. <<Tick>> \o s.code \in Seq(Atom) BY <1>1, <3>1, ConcatProperties
    <3> QED BY <3>1, <3>2, ConcatProperties
  <2>3. b \in Atom
    <3>1. Len(s.saved) \in Nat BY <1>1, LenProperties
    <3> QED BY <3>1 DEF Atom, Kinds
  <2> HIDE DEF z, b
  <2>4. Append(s.saved, z) \in Seq(Seq(Atom)) /\ Append(s.text, b) \in Seq(Atom)
    BY <1>1, <2>2, <2>3, AppendProperties
  <2>5. TakeCode(s, a) \in InlineState
    BY <1>2, <2>1, <2>4 DEF InlineState
  <2> QED BY <1>3, <2>1, <2>5 DEF z, b
<1>4. CASE a = Tick /\ ~s.open
  <2>1. TakeCode(s, a) = [saved |-> s.saved, text |-> s.text, open |-> TRUE, code |-> <<>>]
    BY <1>1, <1>4 DEF TakeCode
  <2> QED BY <1>1, <1>2, <1>4, <2>1 DEF InlineState
<1>5. CASE a # Tick /\ s.open
  <2>1. TakeCode(s, a) = [s EXCEPT !.code = Append(@, a)]
    BY <1>5 DEF TakeCode
  <2>2. TakeCode(s, a) = [saved |-> s.saved, text |-> s.text, open |-> s.open, code |-> Append(s.code, a)]
    BY <1>1, <2>1
  <2> QED BY <1>1, <1>2, <1>5, <2>2 DEF InlineState
<1>6. CASE a # Tick /\ ~s.open
  <2>1. TakeCode(s, a) = [s EXCEPT !.text = Append(@, a)]
    BY <1>6 DEF TakeCode
  <2>2. TakeCode(s, a) = [saved |-> s.saved, text |-> Append(s.text, a), open |-> s.open, code |-> s.code]
    BY <1>1, <2>1
  <2> QED BY <1>1, <1>2, <1>6, <2>2 DEF InlineState
<1> QED BY <1>1, <1>3, <1>4, <1>5, <1>6

\* The step as a function.
CodesFun == [p \in InlineState \X Atom |-> TakeCode(p[1], p[2])]

\* Inline code is read atom by atom.
LEMMA CodesRun ==
  ASSUME NEW s \in Seq(Atom)
  PROVE  \E r : Trace(r, CodesFun, NoCode, s, InlineState) /\ TakeCodes(s) = r[Len(s)]
<1> DEFINE F == CodesFun
           Step(g) == [T \in SUBSET DOMAIN s |->
                         IF T = {} THEN NoCode ELSE TakeCode(g[T \ {Max(T)}], s[Max(T)])]
           it == CHOOSE g : g = Step(g)
<1>1. Len(s) \in Nat /\ DOMAIN s = 1..Len(s)
  BY LenProperties
<1>2. ASSUME NEW x \in InlineState, NEW y \in Atom PROVE TakeCode(x, y) \in InlineState
  BY TakeCodeIs
<1>3. F \in [InlineState \X Atom -> InlineState]
  BY <1>2 DEF CodesFun
<1>4. ASSUME NEW x \in InlineState, NEW y \in Atom PROVE F[<<x, y>>] = TakeCode(x, y)
  BY DEF CodesFun
<1>5. ASSUME NEW T \in SUBSET (1..Len(s)), T # {} PROVE s[Max(T)] \in Atom
  <2>1. Max(T) \in 1..Len(s) BY <1>1, <1>5, MaxOf
  <2> QED BY <2>1, ElementOfSeq
<1>6. NoCode \in InlineState
  BY EmptySeq DEF NoCode, InlineState
<1> HIDE DEF F
<1>7. \E g : g = Step(g)
  <2>1. PICK g \in [SUBSET (1..Len(s)) -> InlineState] : IsFold(g, F, NoCode, s)
    BY <1>3, <1>6, FoldExists
  <2>2. ASSUME NEW T \in SUBSET (1..Len(s)), T # {}
        PROVE  F[<<g[T \ {Max(T)}], s[Max(T)]>>] = TakeCode(g[T \ {Max(T)}], s[Max(T)])
    BY <1>4, <1>5, <2>2
  <2>3. g = Step(g) BY <1>1, <2>1, <2>2 DEF IsFold
  <2> QED BY <2>3
<1>8. it = Step(it)
  <2> HIDE DEF Step
  <2> QED BY <1>7
<1>9. TakeCodes(s) = it[DOMAIN s]
  BY DEF FoldLeft, MapThenFoldSet, TakeCodes
<1> HIDE DEF it
<1>10. Folds(it, InlineState, F, NoCode, s)
  <2>1. ASSUME NEW T \in SUBSET (1..Len(s))
        PROVE  it[T] = IF T = {} THEN NoCode ELSE TakeCode(it[T \ {Max(T)}], s[Max(T)])
    BY <1>1, <1>8
  <2> QED BY <1>4, <1>5, <2>1 DEF Folds
<1>11. PICK r \in [0..Len(s) -> InlineState] : Path(r, it, F, NoCode, s)
  BY <1>3, <1>6, <1>10, FoldPath
<1>12. Trace(r, F, NoCode, s, InlineState) /\ it[1..Len(s)] = r[Len(s)]
  <2>1. Len(s) \in 0..Len(s) BY <1>1
  <2> QED BY <1>11, <2>1 DEF Path, Trace
<1>13. TakeCodes(s) = r[Len(s)]
  BY <1>1, <1>9, <1>12
<1> QED BY <1>12, <1>13 DEF F

\* What one atom more does.
LEMMA CodesStep ==
  ASSUME NEW s \in Seq(Atom), NEW e \in Atom
  PROVE  TakeCodes(s) \in InlineState /\ TakeCodes(Append(s, e)) = TakeCode(TakeCodes(s), e)
<1> DEFINE F == CodesFun
           t == Append(s, e)
<1>1. PICK r : Trace(r, F, NoCode, s, InlineState) /\ TakeCodes(s) = r[Len(s)]
  BY CodesRun
<1>2. t \in Seq(Atom) /\ Longer(t, s, e)
  BY AppendProperties DEF Longer
<1> HIDE DEF t
<1>3. PICK q : Trace(q, F, NoCode, t, InlineState) /\ TakeCodes(t) = q[Len(t)]
  BY <1>2, CodesRun
<1> HIDE DEF F
<1>4. r[Len(s)] \in InlineState /\ q[Len(t)] = F[<<r[Len(s)], e>>]
  <2>1. OneStep(q, t, r, s, e, F, InlineState) BY <1>1, <1>2, <1>3, TraceStep
  <2> QED BY <2>1 DEF OneStep
<1>5. ASSUME NEW x \in InlineState PROVE F[<<x, e>>] = TakeCode(x, e)
  BY DEF F, CodesFun
<1>6. TakeCodes(s) \in InlineState /\ F[<<TakeCodes(s), e>>] = TakeCode(TakeCodes(s), e)
  BY <1>1, <1>4, <1>5
<1>7. TakeCodes(t) = F[<<TakeCodes(s), e>>]
  BY <1>1, <1>3, <1>4
<1>8. TakeCodes(t) = TakeCode(TakeCodes(s), e)
  BY <1>6, <1>7
<1> QED BY <1>6, <1>8 DEF t

\* Before the first atom.
LEMMA CodesBase ==
  TakeCodes(<<>>) = NoCode
<1> DEFINE t == <<>>
<1>1. t \in Seq(Atom) /\ Len(t) = 0
  BY EmptySeq
<1> HIDE DEF t
<1>2. PICK r : Trace(r, CodesFun, NoCode, t, InlineState) /\ TakeCodes(t) = r[Len(t)]
  BY <1>1, CodesRun
<1>3. TakeCodes(t) = NoCode
  BY <1>1, <1>2 DEF Trace
<1> QED BY <1>3 DEF t

\* What has been read: w, of which pieces were saved, and what follows a
\* backtick that is still open.
ReadCode(kinds, u, s, w) ==
  /\ s \in InlineState
  /\ s.code \in Seq(Of(kinds))
  /\ w \in Seq(Atom)
  /\ Holds(kinds, "IC", s.saved, s.text, w)
  /\ u = IF s.open THEN w \o (<<Tick>> \o s.code) ELSE w

\* One more atom, outside code.
LEMMA ReadCodeOutside ==
  ASSUME NEW kinds, Apart(kinds, "IC"), "tick" \in kinds,
         NEW u \in Seq(Of(kinds)), NEW a \in Of(kinds), NEW s, NEW w,
         ReadCode(kinds, u, s, w), ~s.open
  PROVE  \E v : ReadCode(kinds, u \o <<a>>, TakeCode(s, a), v)
<1>1. /\ s \in InlineState /\ s.code \in Seq(Of(kinds)) /\ w \in Seq(Atom) /\ u = w
      /\ Holds(kinds, "IC", s.saved, s.text, w)
  BY DEF ReadCode
<1>2. Of(kinds) \in SUBSET Atom /\ a \in Atom
  <2>1. Of(kinds) \in SUBSET Atom BY ApartAtoms
  <2> QED BY <2>1
<1>3. <<a>> \in Seq(Of(kinds)) /\ <<a>> \in Seq(Atom)
  BY <1>2, OneElement
<1>4. TakeCode(s, a) \in InlineState
  BY <1>1, <1>2, TakeCodeIs
<1>5. CASE a = Tick
  <2>1. TakeCode(s, a) = [saved |-> s.saved, text |-> s.text, open |-> TRUE, code |-> <<>>]
    BY <1>1, <1>2, <1>5, TakeCodeIs
  <2> DEFINE z == TakeCode(s, a)
  <2>2. z.saved = s.saved /\ z.text = s.text /\ z.open = TRUE /\ z.code = <<>>
    BY <2>1
  <2> HIDE DEF z
  <2>3. <<Tick>> \o <<>> = <<Tick>> /\ <<>> \in Seq(Of(kinds))
    BY <1>3, <1>5, ConcatEmptySeq, EmptySeq
  <2>4. ReadCode(kinds, u \o <<a>>, z, w)
    BY <1>1, <1>4, <1>5, <2>2, <2>3 DEF ReadCode, z
  <2> QED BY <2>4 DEF z
<1>6. CASE a # Tick
  <2>1. TakeCode(s, a) = [saved |-> s.saved, text |-> Append(s.text, a), open |-> s.open, code |-> s.code]
    BY <1>1, <1>2, <1>6, TakeCodeIs
  <2> DEFINE z == TakeCode(s, a)
             one == <<a>>
  <2>2. z.saved = s.saved /\ z.text = Append(s.text, a) /\ z.open = s.open /\ z.code = s.code
    BY <2>1
  <2>3. z \in InlineState /\ one \in Seq(Of(kinds)) /\ one \in Seq(Atom)
    BY <1>3, <1>4
  <2>4. Append(s.text, a) = s.text \o one
    <3>1. s.text \in Seq(Atom) BY <1>1 DEF InlineState
    <3> QED BY <1>2, <3>1, AppendIsConcat
  <2> HIDE DEF z, one
  <2>5. Holds(kinds, "IC", s.saved, s.text \o one, w \o one)
    BY <1>1, <2>3, HoldsWrites
  <2>6. w \o one \in Seq(Atom)
    BY <1>1, <2>3, ConcatProperties
  <2>7. ReadCode(kinds, u \o one, z, w \o one)
    BY <1>1, <2>2, <2>3, <2>4, <2>5, <2>6 DEF ReadCode
  <2> QED BY <2>7 DEF z, one
<1> QED BY <1>5, <1>6

\* One more atom, inside code.
LEMMA ReadCodeInside ==
  ASSUME NEW kinds, Apart(kinds, "IC"), "tick" \in kinds,
         NEW u \in Seq(Of(kinds)), NEW a \in Of(kinds), NEW s, NEW w,
         ReadCode(kinds, u, s, w), s.open
  PROVE  \E v : ReadCode(kinds, u \o <<a>>, TakeCode(s, a), v)
<1> DEFINE tick == <<Tick>>
           one == <<a>>
           c == s.code
           z == TakeCode(s, a)
<1>1. /\ s \in InlineState /\ c \in Seq(Of(kinds)) /\ w \in Seq(Atom) /\ u = w \o (tick \o c)
      /\ Holds(kinds, "IC", s.saved, s.text, w)
  BY DEF ReadCode
<1>2. Of(kinds) \in SUBSET Atom /\ a \in Atom /\ Tick \in Of(kinds)
  <2>1. Of(kinds) \in SUBSET Atom BY ApartAtoms
  <2>2. Tick \in Of(kinds) BY DEF Tick, Of
  <2> QED BY <2>1, <2>2
<1>3. /\ one \in Seq(Of(kinds)) /\ one \in Seq(Atom) /\ tick \in Seq(Of(kinds)) /\ tick \in Seq(Atom)
      /\ c \in Seq(Atom)
  BY <1>1, <1>2, OneElement
<1>4. z \in InlineState
  BY <1>1, <1>2, TakeCodeIs
<1>5. /\ a = Tick => z = [saved |-> Append(s.saved, (tick \o c) \o tick),
                          text |-> Append(s.text, <<"IC", Len(s.saved) + 1>>), open |-> FALSE, code |-> <<>>]
      /\ a # Tick => z = [saved |-> s.saved, text |-> s.text, open |-> s.open, code |-> Append(c, a)]
  BY <1>1, <1>2, TakeCodeIs
<1>6. Append(c, a) = c \o one /\ Append(c, a) \in Seq(Of(kinds))
  BY <1>1, AppendIsConcat, AppendProperties
<1>7. a = Tick => one = tick
  OBVIOUS
<1> HIDE DEF tick, one, c, z
<1>8. tick \o c \in Seq(Atom) /\ tick \o c \in Seq(Of(kinds)) /\ (tick \o c) \o tick \in Seq(Of(kinds))
  <2>1. tick \o c \in Seq(Atom) /\ tick \o c \in Seq(Of(kinds)) BY <1>1, <1>3, ConcatProperties
  <2> QED BY <1>3, <2>1, ConcatProperties
<1>9. u \o one = w \o ((tick \o c) \o one)
  <2> DEFINE p == tick \o c
  <2>1. w \in Seq(Atom) /\ p \in Seq(Atom) /\ one \in Seq(Atom) /\ u = w \o p BY <1>1, <1>3, <1>8
  <2> HIDE DEF p
  <2>2. (w \o p) \o one = w \o (p \o one) BY ONLY <2>1, ConcatAssociative
  <2> QED BY <2>1, <2>2 DEF p
<1>10. CASE a = Tick
  <2> DEFINE y == (tick \o c) \o tick
  <2>1. /\ z.saved = Append(s.saved, y) /\ z.text = Append(s.text, <<"IC", Len(s.saved) + 1>>)
        /\ z.open = FALSE /\ z.code = <<>>
    BY <1>5, <1>10
  <2>2. y \in Seq(Of(kinds)) /\ y \in Seq(Atom)
    BY <1>2, <1>8
  <2>3. u \o one = w \o y
    BY <1>7, <1>9, <1>10
  <2> HIDE DEF y
  <2>4. Holds(kinds, "IC", Append(s.saved, y), Append(s.text, <<"IC", Len(s.saved) + 1>>), w \o y)
    BY <1>1, <2>2, HoldsTakes
  <2>5. w \o y \in Seq(Atom) /\ <<>> \in Seq(Of(kinds))
    BY <1>1, <2>2, ConcatProperties, EmptySeq
  <2>6. ReadCode(kinds, u \o one, z, w \o y)
    BY <1>4, <2>1, <2>3, <2>4, <2>5 DEF ReadCode
  <2> QED BY <2>6 DEF z, one
<1>11. CASE a # Tick
  <2>1. z.saved = s.saved /\ z.text = s.text /\ z.open = s.open /\ z.code = Append(c, a)
    <3> DEFINE e == Append(c, a)
               o == s.open
    <3>1. z = [saved |-> s.saved, text |-> s.text, open |-> o, code |-> e] BY <1>5, <1>11
    <3> HIDE DEF e, o
    <3>2. z.saved = s.saved /\ z.text = s.text /\ z.open = o /\ z.code = e BY <3>1
    <3> QED BY <3>2 DEF e, o
  <2>2. (tick \o c) \o one = tick \o (c \o one)
    BY ONLY <1>3, ConcatAssociative, SMTT(60)
  <2>3. u \o one = w \o (tick \o z.code)
    BY <1>6, <1>9, <2>1, <2>2
  <2>4. ReadCode(kinds, u \o one, z, w)
    BY <1>1, <1>4, <1>6, <2>1, <2>3 DEF ReadCode, tick
  <2> QED BY <2>4 DEF z, one
<1> QED BY <1>10, <1>11

\* Whatever has been read, what was written out and saved gives it back.
LEMMA CodesAreRead ==
  ASSUME NEW kinds, Apart(kinds, "IC"), "tick" \in kinds, NEW text \in Seq(Of(kinds))
  PROVE  \E w : ReadCode(kinds, text, TakeCodes(text), w)
<1> DEFINE P == {u \in Seq(Of(kinds)) : \E w : ReadCode(kinds, u, TakeCodes(u), w)}
<1>0. Of(kinds) \in SUBSET Atom
  BY ApartAtoms
<1>1. <<>> \in P
  <2> DEFINE none == <<>>
  <2>1. TakeCodes(none) = NoCode BY CodesBase
  <2>2. Holds(kinds, "IC", none, none, none) BY HoldsNothing
  <2>3. none \in Seq(Of(kinds)) /\ none \in Seq(Atom) /\ none \in Seq(Seq(Atom)) BY EmptySeq
  <2>4. /\ NoCode.saved = none /\ NoCode.text = none /\ NoCode.open = FALSE /\ NoCode.code = none
        /\ NoCode \in InlineState
    BY <2>3 DEF NoCode, InlineState
  <2> HIDE DEF none
  <2>5. ReadCode(kinds, none, NoCode, none) BY <2>2, <2>3, <2>4 DEF ReadCode
  <2>6. none \in P BY <2>1, <2>3, <2>5
  <2> QED BY <2>6 DEF none
<1>2. ASSUME NEW u \in Seq(Of(kinds)), NEW a \in Of(kinds), u \in P PROVE Append(u, a) \in P
  <2> DEFINE s == TakeCodes(u)
  <2>1. PICK w : ReadCode(kinds, u, s, w) BY <1>2
  <2>2. TakeCodes(Append(u, a)) = TakeCode(s, a)
    <3>1. u \in Seq(Atom) /\ a \in Atom BY <1>0
    <3> QED BY <3>1, CodesStep
  <2>3. Append(u, a) = u \o <<a>> /\ Append(u, a) \in Seq(Of(kinds))
    BY AppendIsConcat, AppendProperties
  <2> HIDE DEF s
  <2>4. \E v : ReadCode(kinds, u \o <<a>>, TakeCode(s, a), v)
    <3>1. CASE s.open BY <2>1, <3>1, ReadCodeInside
    <3>2. CASE ~s.open BY <2>1, <3>2, ReadCodeOutside
    <3> QED BY <3>1, <3>2
  <2> QED BY <2>2, <2>3, <2>4
<1> HIDE DEF P
<1>3. Seq(Of(kinds)) \subseteq P
  BY <1>1, <1>2, SeqInduction
<1>4. text \in P
  BY <1>3
<1> QED BY <1>4 DEF P

\* What TakeInline has taken out.
LEMMA CodesTaken ==
  ASSUME NEW kinds, Apart(kinds, "IC"), "tick" \in kinds, NEW text \in Seq(Of(kinds))
  PROVE  Holds(kinds, "IC", TakeInline(text).saved, TakeInline(text).text, text)
<1> DEFINE s == TakeCodes(text)
           tick == <<Tick>>
           c == s.code
<1>1. PICK w : ReadCode(kinds, text, s, w)
  BY CodesAreRead
<1>2. /\ TakeInline(text).saved = s.saved
      /\ TakeInline(text).text = IF s.open THEN (s.text \o tick) \o c ELSE s.text
  BY InlineIs
<1> HIDE DEF s
<1>3. /\ Holds(kinds, "IC", s.saved, s.text, w) /\ c \in Seq(Of(kinds)) /\ s.text \in Seq(Atom)
      /\ text = IF s.open THEN w \o (tick \o c) ELSE w
  BY <1>1 DEF ReadCode, InlineState
<1>4. CASE s.open
  <2>1. Of(kinds) \in SUBSET Atom /\ Tick \in Of(kinds)
    <3>1. Of(kinds) \in SUBSET Atom BY ApartAtoms
    <3>2. Tick \in Of(kinds) BY DEF Tick, Of
    <3> QED BY <3>1, <3>2
  <2>2. tick \in Seq(Of(kinds)) /\ tick \in Seq(Atom) /\ c \in Seq(Atom)
    BY <1>3, <2>1, OneElement
  <2> DEFINE t == s.text
  <2>3. t \in Seq(Atom) BY <1>3
  <2> HIDE DEF tick, c, t
  <2>4. (t \o tick) \o c = t \o (tick \o c)
    BY ONLY <2>2, <2>3, ConcatAssociative, SMTT(60)
  <2>5. tick \o c \in Seq(Of(kinds))
    BY <1>3, <2>2, ConcatProperties
  <2>6. Holds(kinds, "IC", s.saved, t, w)
    BY <1>3 DEF t
  <2>7. Holds(kinds, "IC", s.saved, t \o (tick \o c), w \o (tick \o c))
    <3> DEFINE q == tick \o c
    <3>1. q \in Seq(Of(kinds)) BY <2>5
    <3> HIDE DEF q
    <3>2. Holds(kinds, "IC", s.saved, t \o q, w \o q) BY <2>6, <3>1, HoldsWrites
    <3> QED BY <3>2 DEF q
  <2> QED BY <1>2, <1>3, <1>4, <2>4, <2>7 DEF t
<1>5. CASE ~s.open
  BY <1>2, <1>3, <1>5
<1> QED BY <1>4, <1>5

-----------------------------------------------------------------------------
(* markdownToSlackMrkdwn.                                                   *)

\* Placeholders of another kind in the text that is left were already in what
\* has been read.
LEMMA OthersAtMostOnce ==
  ASSUME NEW kinds, NEW kind, Apart(kinds, kind), NEW saved, NEW text, NEW done,
         Holds(kinds, kind, saved, text, done),
         NEW l \in Kinds, l # kind, NEW n \in Nat, AtMostOnce(done, l, n)
  PROVE  AtMostOnce(text, l, n)
<1> DEFINE sub == Sub(saved, kind, Len(saved))
<1>1. saved \in Seq(Seq(Atom)) /\ text \in Seq(Atom) /\ done \in Seq(Atom)
  BY HoldsType
<1>2. Len(saved) \in Nat
  BY <1>1, LenProperties
<1>3. Expand(text, sub) = done
  BY DEF Holds, Put
<1>4. sub \in [Atom -> Seq(Atom)] /\ \A x \in Free(kind) : sub[x] = <<x>>
  <2>1. Len(saved) \in 0..Len(saved) BY <1>2
  <2> QED BY <1>1, <2>1, SubIs
<1> HIDE DEF sub
<1> SUFFICES ASSUME NEW i \in 1..n PROVE Count(text, <<l, i>>) <= 1
  BY DEF AtMostOnce
<1> DEFINE a == <<l, i>>
<1>5. Count(done, a) <= 1
  BY DEF AtMostOnce
<1>6. a \in Atom /\ a \in Free(kind)
  BY DEF Atom, Free
<1> HIDE DEF a
<1>7. sub[a] = <<a>>
  BY <1>4, <1>6
<1>8. Count(text, a) <= Count(Expand(text, sub), a)
  BY <1>1, <1>4, <1>6, <1>7, CountExpandGe
<1>9. Count(text, a) \in Nat /\ Count(done, a) \in Nat
  BY <1>1, CountType
<1>10. Count(text, a) <= 1
  BY <1>3, <1>5, <1>8, <1>9
<1> QED BY <1>10 DEF a

\* What is saved of a text has no placeholder of a kind if no piece has one.
LEMMA NoneInside ==
  ASSUME NEW saved \in Seq(Seq(Atom)), NEW kind,
         \A i \in 1..Len(saved) : \A h \in 1..Len(saved[i]) : saved[i][h][1] # kind
  PROVE  saved \in Seq(Seq(Free(kind)))
<1>1. Len(saved) \in Nat /\ saved \in [1..Len(saved) -> Seq(Atom)]
  BY LenProperties
<1>2. \A i \in 1..Len(saved) : saved[i] \in Seq(Free(kind))
  <2> SUFFICES ASSUME NEW i \in 1..Len(saved) PROVE saved[i] \in Seq(Free(kind))
    OBVIOUS
  <2> DEFINE t == saved[i]
  <2>1. t \in Seq(Atom) /\ \A h \in 1..Len(t) : t[h][1] # kind BY <1>1
  <2> HIDE DEF t
  <2>2. Len(t) \in Nat /\ t \in [1..Len(t) -> Atom] BY <2>1, LenProperties
  <2>3. t \in [1..Len(t) -> Free(kind)] BY <2>1, <2>2 DEF Free
  <2>4. t \in Seq(Free(kind)) BY <2>2, <2>3, SeqDef
  <2> QED BY <2>4 DEF t
<1> DEFINE S == Seq(Free(kind))
           n == Len(saved)
<1>3. n \in Nat /\ saved \in [1..n -> S]
  BY <1>1, <1>2
<1> HIDE DEF S, n
<1>4. saved \in Seq(S)
  BY <1>3, SeqDef
<1> QED BY <1>4 DEF S

\* HtmlToMarkdown leaves a text of the same length, and changes tags only.
LEMMA HtmlBecomesText ==
  ASSUME NEW text \in Seq(Of(TextKinds))
  PROVE  /\ HtmlToMarkdown(text) \in Seq(Of(TextKinds))
         /\ Len(HtmlToMarkdown(text)) = Len(text)
         /\ \A i \in 1..Len(text) :
              text[i][1] \notin {"break", "open", "close"} => HtmlToMarkdown(text)[i] = text[i]
<1> DEFINE A == Of(TextKinds)
           md == HtmlToMarkdown(text)
           n == Len(text)
<1>1. n \in Nat /\ \A i \in 1..n : text[i] \in A
  BY LenProperties, ElementOfSeq
<1>2. NewLine \in A /\ \A k \in Nat : Mark(k) \in A
  BY DEF NewLine, Mark, Tick, Of, TextKinds
<1>3. \A x \in A : x[2] \in Nat
  BY DEF Of
<1>4. md = [i \in 1..n |-> md[i]]
      /\ \A i \in 1..n : \/ text[i][1] \in {"break", "open", "close"} /\ md[i] \in {NewLine, Mark(text[i][2])}
                         \/ md[i] = text[i]
  BY DEF HtmlToMarkdown, Break
<1>5. \A i \in 1..n : md[i] \in A
  <2> HIDE DEF A, md, n
  <2> QED BY <1>1, <1>2, <1>3, <1>4
<1>6. md \in Seq(A) /\ Len(md) = n
  <2> HIDE DEF A, md, n
  <2>1. md \in [1..n -> A] BY <1>4, <1>5
  <2> QED BY <1>1, <2>1, SeqDef
<1>7. \A i \in 1..n : text[i][1] \notin {"break", "open", "close"} => md[i] = text[i]
  BY <1>4
<1> QED BY <1>6, <1>7

\* For Markdown of any length: whatever fences, backticks and Slack tokens it
\* mixes, taking out and putting back only escapes what Slack wants escaped.
LEMMA MarkdownComesBack ==
  ASSUME NEW input, HtmlToMarkdown(input) \in Seq(Of(TextKinds)),
         ~OddFences(HtmlToMarkdown(input)), ~TokenInCode(HtmlToMarkdown(input))
  PROVE  Convert(input) = EscapedText(HtmlToMarkdown(input))
<1> DEFINE text == HtmlToMarkdown(input)
<1>0. text \in Seq(Of(TextKinds)) /\ ~OddFences(text) /\ ~TokenInCode(text)
  OBVIOUS
<1> DEFINE T == TakeTokens(text)
           B == TakeBlocks(T.text)
           I == TakeInline(B.text)
           escaped == EscapedText(text)
           Two == TextKinds \cup {"ST"}
           Three == Two \cup {"CB"}
<1>1. Holds(TextKinds, "ST", T.saved, T.text, escaped) /\ SameFences(text, T.text)
  BY <1>0, TokensTaken
<1>2. Convert(input) = Restore(Restore(Restore(I.text, T.saved, "ST"), I.saved, "IC"), B.saved, "CB")
  BY DEF Convert
<1> HIDE DEF text
<1>3. /\ \A i \in 1..Len(B.saved) : \A h \in 1..Len(B.saved[i]) : B.saved[i][h][1] # "ST"
      /\ \A i \in 1..Len(I.saved) : \A h \in 1..Len(I.saved[i]) : I.saved[i][h][1] # "ST"
  BY <1>0 DEF TokenInCode
<1> HIDE DEF T, escaped
<1>4. Apart(TextKinds, "ST") /\ Apart(Two, "CB") /\ Apart(Three, "IC") /\ "tick" \in Two /\ "tick" \in Three
      /\ "ST" \in Kinds /\ "CB" \in Kinds /\ "IC" \in Kinds
  BY DEF Apart, TextKinds, Kinds
<1>5. /\ T.saved \in Seq(Seq(Free("ST"))) /\ T.saved \in Seq(Seq(Of(TextKinds)))
      /\ T.text \in Seq(Of(Two)) /\ T.text \in Seq(Atom) /\ T.saved \in Seq(Seq(Atom))
  BY <1>1, <1>4, HoldsType
<1>6. Len(Parts(T.text)) < 3 \/ Len(Parts(T.text)) % 2 # 0
  <2>1. text \in Seq(Atom)
    <3>1. Of(TextKinds) \in SUBSET Atom BY <1>4, ApartAtoms
    <3> QED BY <1>0, <3>1
  <2>2. Len(Parts(text)) = Len(Parts(T.text)) /\ Len(Parts(text)) \in Nat
    BY <1>1, <1>5, <2>1, SameFencesParts
  <2> QED BY <1>0, <2>2 DEF OddFences
<1>7. Holds(Two, "CB", B.saved, B.text, T.text)
  <2> HIDE DEF Two
  <2> QED BY <1>4, <1>5, <1>6, BlocksTaken
<1> HIDE DEF B
<1>8. /\ B.saved \in Seq(Seq(Free("CB"))) /\ B.text \in Seq(Of(Three)) /\ B.text \in Seq(Atom)
      /\ B.saved \in Seq(Seq(Atom))
  <2> HIDE DEF Two
  <2> QED BY <1>4, <1>7, HoldsType
<1>9. Holds(Three, "IC", I.saved, I.text, B.text)
  <2> HIDE DEF Three
  <2> QED BY <1>4, <1>8, CodesTaken
<1> HIDE DEF I
<1>10. I.saved \in Seq(Seq(Free("IC"))) /\ I.text \in Seq(Atom) /\ I.saved \in Seq(Seq(Atom))
  <2> HIDE DEF Three
  <2> QED BY <1>4, <1>9, HoldsType
<1>11. B.saved \in Seq(Seq(Free("ST"))) /\ I.saved \in Seq(Seq(Free("ST")))
  BY <1>3, <1>8, <1>10, NoneInside
<1>12. T.saved \in Seq(Seq(Free("CB"))) /\ T.saved \in Seq(Seq(Free("IC")))
  <2>1. Of(TextKinds) \in SUBSET Free("CB") /\ Of(TextKinds) \in SUBSET Free("IC")
    <3>1. Apart(TextKinds, "CB") /\ Apart(TextKinds, "IC") BY DEF Apart, TextKinds, Kinds
    <3> QED BY <3>1, ApartAtoms
  <2>2. Seq(Of(TextKinds)) \subseteq Seq(Free("CB")) /\ Seq(Of(TextKinds)) \subseteq Seq(Free("IC"))
    BY <2>1
  <2> QED BY <1>5, <2>2
<1>13. AtMostOnce(I.text, "ST", Len(T.saved))
  <2>0. Len(T.saved) \in Nat BY <1>5, LenProperties
  <2>1. AtMostOnce(T.text, "ST", Len(T.saved)) BY <1>1 DEF Holds
  <2>2. AtMostOnce(B.text, "ST", Len(T.saved))
    <3> HIDE DEF Two
    <3> QED BY <1>4, <1>7, <2>0, <2>1, OthersAtMostOnce
  <2> HIDE DEF Three
  <2> QED BY <1>4, <1>9, <2>0, <2>2, OthersAtMostOnce
<1>14. Restore(I.text, T.saved, "ST") = Put(I.text, T.saved, "ST")
  BY <1>4, <1>5, <1>10, <1>13, RestoreIsPut
<1>15. Restore(Put(I.text, T.saved, "ST"), I.saved, "IC") = Put(B.text, T.saved, "ST")
  <2>1. AtMostOnce(I.text, "IC", Len(I.saved)) /\ Put(I.text, I.saved, "IC") = B.text
    BY <1>9 DEF Holds
  <2>2. Restore(Put(I.text, T.saved, "ST"), I.saved, "IC") =
          Put(Put(I.text, I.saved, "IC"), T.saved, "ST")
    BY <1>4, <1>5, <1>10, <1>11, <1>12, <2>1, RestoreLater, ZenonT(60)
  <2> QED BY <2>1, <2>2
<1>16. Restore(Put(B.text, T.saved, "ST"), B.saved, "CB") = Put(T.text, T.saved, "ST")
  <2>1. AtMostOnce(B.text, "CB", Len(B.saved)) /\ Put(B.text, B.saved, "CB") = T.text
    BY <1>7 DEF Holds
  <2>2. Restore(Put(B.text, T.saved, "ST"), B.saved, "CB") =
          Put(Put(B.text, B.saved, "CB"), T.saved, "ST")
    BY <1>4, <1>5, <1>8, <1>11, <1>12, <2>1, RestoreLater, ZenonT(60)
  <2> QED BY <2>1, <2>2
<1>17. Put(T.text, T.saved, "ST") = escaped
  BY <1>1 DEF Holds
<1> QED BY <1>2, <1>14, <1>15, <1>16, <1>17 DEF escaped, text

\* For a reply of any length: the conversion changes its HTML, in code as
\* elsewhere, and of the Markdown this makes, whatever fences, backticks, tags
\* and Slack tokens it mixes, it only escapes what Slack wants escaped.
THEOREM CodeComesBack ==
  ASSUME NEW text \in Seq(Of(TextKinds))
  PROVE  CodeAndTokensComeBack(text)
<1>1. /\ HtmlToMarkdown(text) \in Seq(Of(TextKinds))
      /\ Len(HtmlToMarkdown(text)) = Len(text)
      /\ \A i \in 1..Len(text) :
           text[i][1] \notin {"break", "open", "close"} => HtmlToMarkdown(text)[i] = text[i]
  BY HtmlBecomesText
<1>2. ASSUME ~OddFences(HtmlToMarkdown(text)), ~TokenInCode(HtmlToMarkdown(text))
      PROVE  Convert(text) = EscapedText(HtmlToMarkdown(text))
  BY <1>1, <1>2, MarkdownComesBack
<1> QED BY <1>1, <1>2 DEF CodeAndTokensComeBack
=============================================================================
