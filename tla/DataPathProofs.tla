--------------------------- MODULE DataPathProofs ---------------------------
(***************************************************************************)
(* Theorems about SlackThread, ContextApi and AgentDoc, for inputs of any  *)
(* size, and from these and those of MrkdwnProofs the invariants of        *)
(* MCDataPath.                                                             *)
(***************************************************************************)
EXTENDS MCDataPath, MrkdwnProofs, TLAPS

-----------------------------------------------------------------------------
(* Threads and transcripts.                                                 *)

\* Messages as the transcript sees them.
Message == [ts : Nat, size : Nat]
\* One step of Kept.
Keep(out, m, wanted) == IF m \in wanted THEN Append(out, m) ELSE out
\* What the transcript has written, and the budget it has left.
Written == [lines : Seq(Message), cut : BOOLEAN, left : Int]

\* The first n elements, and one more.
LEMMA PrefixOf ==
  ASSUME NEW E, NEW s \in Seq(E), NEW n \in 0..Len(s)
  PROVE  /\ SubSeq(s, 1, n) \in Seq(E) /\ Len(SubSeq(s, 1, n)) = n
         /\ \A i \in 1..n : SubSeq(s, 1, n)[i] = s[i]
         /\ n < Len(s) => SubSeq(s, 1, n + 1) = Append(SubSeq(s, 1, n), s[n + 1])
<1>1. Len(s) \in Nat
  BY LenProperties
<1>2. /\ SubSeq(s, 1, n) \in Seq(E) /\ Len(SubSeq(s, 1, n)) = n
      /\ \A i \in 1..n : SubSeq(s, 1, n)[i] = s[i]
  BY <1>1
<1>3. ASSUME n < Len(s) PROVE SubSeq(s, 1, n + 1) = Append(SubSeq(s, 1, n), s[n + 1])
  <2>1. s[n + 1] \in E BY <1>1, <1>3, ElementOfSeq
  <2>2. /\ SubSeq(s, 1, n + 1) \in Seq(E) /\ Len(SubSeq(s, 1, n + 1)) = n + 1
        /\ \A i \in 1..(n + 1) : SubSeq(s, 1, n + 1)[i] = s[i]
    BY <1>1, <1>3
  <2> DEFINE t == Append(SubSeq(s, 1, n), s[n + 1])
  <2>3. /\ t \in Seq(E) /\ Len(t) = n + 1
        /\ \A i \in 1..(n + 1) : t[i] = IF i = n + 1 THEN s[n + 1] ELSE SubSeq(s, 1, n)[i]
    BY <1>1, <1>2, <2>1, AppendProperties
  <2> HIDE DEF t
  <2>4. \A i \in 1..(n + 1) : t[i] = SubSeq(s, 1, n + 1)[i]
    BY <1>1, <1>2, <2>2, <2>3
  <2>5. t = SubSeq(s, 1, n + 1)
    BY <2>2, <2>3, <2>4, SeqEqual
  <2> QED BY <2>5 DEF t
<1> QED BY <1>2, <1>3

\* The transcript is written line by line.
LEMMA TranscriptRun ==
  ASSUME NEW b \in Written, NEW s \in Seq(Message)
  PROVE  \E r \in [0..Len(s) -> Written] :
           /\ r[0] = b
           /\ \A n \in 1..Len(s) : r[n] = AppendLine(r[n - 1], s[n])
           /\ FoldLeft(AppendLine, b, s) = r[Len(s)]
<1> DEFINE F == [p \in Written \X Message |-> AppendLine(p[1], p[2])]
           Step(g) == [T \in SUBSET DOMAIN s |->
                         IF T = {} THEN b ELSE AppendLine(g[T \ {Max(T)}], s[Max(T)])]
           it == CHOOSE g : g = Step(g)
<1>1. Len(s) \in Nat /\ DOMAIN s = 1..Len(s)
  BY LenProperties
<1>2. ASSUME NEW x \in Written, NEW y \in Message PROVE AppendLine(x, y) \in Written
  <2>1. CASE x.cut \/ y.size + 1 > x.left
    BY <2>1 DEF Written, Message, AppendLine
  <2>2. CASE ~x.cut /\ ~(y.size + 1 > x.left)
    <3>1. Append(x.lines, y) \in Seq(Message) BY AppendProperties DEF Written
    <3>2. AppendLine(x, y) = [lines |-> Append(x.lines, y), cut |-> x.cut,
                              left |-> x.left - (y.size + 1)]
      BY <2>2 DEF Written, AppendLine
    <3> QED BY <3>1, <3>2 DEF Written, Message
  <2> QED BY <2>1, <2>2
<1>3. F \in [Written \X Message -> Written]
  BY <1>2
<1>4. ASSUME NEW x \in Written, NEW y \in Message PROVE F[<<x, y>>] = AppendLine(x, y)
  OBVIOUS
<1>5. ASSUME NEW T \in SUBSET (1..Len(s)), T # {} PROVE s[Max(T)] \in Message
  <2>1. Max(T) \in 1..Len(s) BY <1>1, <1>5, MaxOf
  <2> QED BY <2>1, ElementOfSeq
<1>b. b \in Written
  OBVIOUS
<1> HIDE DEF F
<1>6. \E g : g = Step(g)
  <2>1. PICK g \in [SUBSET (1..Len(s)) -> Written] : IsFold(g, F, b, s)
    BY <1>3, <1>b, FoldExists
  <2>2. ASSUME NEW T \in SUBSET (1..Len(s)), T # {}
        PROVE  F[<<g[T \ {Max(T)}], s[Max(T)]>>] = AppendLine(g[T \ {Max(T)}], s[Max(T)])
    BY <1>4, <1>5, <2>2
  <2>3. g = Step(g) BY <1>1, <2>1, <2>2 DEF IsFold
  <2> QED BY <2>3
<1>7. it = Step(it)
  <2> HIDE DEF Step
  <2> QED BY <1>6
<1>8. FoldLeft(AppendLine, b, s) = it[DOMAIN s]
  BY DEF FoldLeft, MapThenFoldSet
<1> HIDE DEF it
<1>9. Folds(it, Written, F, b, s)
  <2>1. ASSUME NEW T \in SUBSET (1..Len(s))
        PROVE  it[T] = IF T = {} THEN b ELSE AppendLine(it[T \ {Max(T)}], s[Max(T)])
    BY <1>1, <1>7
  <2> QED BY <1>4, <1>5, <2>1 DEF Folds
<1>10. PICK r \in [0..Len(s) -> Written] : Path(r, it, F, b, s)
  BY <1>3, <1>9, <1>b, FoldPath
<1>11. ASSUME NEW n \in 1..Len(s) PROVE r[n] = AppendLine(r[n - 1], s[n])
  <2>0. n - 1 \in 0..Len(s) BY <1>1
  <2>1. r[n - 1] \in Written BY <2>0
  <2>2. s[n] \in Message BY ElementOfSeq
  <2>3. r[n] = F[<<r[n - 1], s[n]>>] BY <1>10 DEF Path
  <2>4. F[<<r[n - 1], s[n]>>] = AppendLine(r[n - 1], s[n]) BY <1>4, <2>1, <2>2
  <2> QED BY <2>3, <2>4
<1>12. r[0] = b /\ FoldLeft(AppendLine, b, s) = r[Len(s)]
  <2>1. r[0] = b BY <1>10 DEF Path
  <2>2. r[Len(s)] = it[1..Len(s)]
    <3>1. Len(s) \in 0..Len(s) BY <1>1
    <3> QED BY <1>10, <3>1 DEF Path
  <2> QED BY <1>1, <1>8, <2>1, <2>2
<1> QED BY <1>10, <1>11, <1>12 DEF Path

\* Messages are kept one by one.
LEMMA KeptRun ==
  ASSUME NEW E, NEW s \in Seq(E), NEW wanted
  PROVE  \E r \in [0..Len(s) -> Seq(E)] :
           /\ r[0] = <<>>
           /\ \A n \in 1..Len(s) : r[n] = Keep(r[n - 1], s[n], wanted)
           /\ Kept(s, wanted) = r[Len(s)]
<1> DEFINE F == [p \in Seq(E) \X E |-> Keep(p[1], p[2], wanted)]
           Step(g) == [T \in SUBSET DOMAIN s |->
                         IF T = {} THEN <<>> ELSE Keep(g[T \ {Max(T)}], s[Max(T)], wanted)]
           it == CHOOSE g : g = Step(g)
<1>1. Len(s) \in Nat /\ DOMAIN s = 1..Len(s)
  BY LenProperties
<1>2. ASSUME NEW x \in Seq(E), NEW y \in E PROVE Keep(x, y, wanted) \in Seq(E)
  BY AppendProperties DEF Keep
<1>3. F \in [Seq(E) \X E -> Seq(E)]
  BY <1>2
<1>4. ASSUME NEW x \in Seq(E), NEW y \in E PROVE F[<<x, y>>] = Keep(x, y, wanted)
  OBVIOUS
<1>5. ASSUME NEW T \in SUBSET (1..Len(s)), T # {} PROVE s[Max(T)] \in E
  <2>1. Max(T) \in 1..Len(s) BY <1>1, <1>5, MaxOf
  <2> QED BY <2>1, ElementOfSeq
<1>b. <<>> \in Seq(E)
  OBVIOUS
<1> HIDE DEF F
<1>6. \E g : g = Step(g)
  <2>1. PICK g \in [SUBSET (1..Len(s)) -> Seq(E)] : IsFold(g, F, <<>>, s)
    BY <1>3, <1>b, FoldExists
  <2>2. ASSUME NEW T \in SUBSET (1..Len(s)), T # {}
        PROVE  F[<<g[T \ {Max(T)}], s[Max(T)]>>] = Keep(g[T \ {Max(T)}], s[Max(T)], wanted)
    BY <1>4, <1>5, <2>2
  <2>3. g = Step(g) BY <1>1, <2>1, <2>2 DEF IsFold
  <2> QED BY <2>3
<1>7. it = Step(it)
  <2> HIDE DEF Step
  <2> QED BY <1>6
<1>8. Kept(s, wanted) = it[DOMAIN s]
  BY DEF FoldLeft, MapThenFoldSet, Kept, Keep
<1> HIDE DEF it
<1>9. Folds(it, Seq(E), F, <<>>, s)
  <2>1. ASSUME NEW T \in SUBSET (1..Len(s))
        PROVE  it[T] = IF T = {} THEN <<>> ELSE Keep(it[T \ {Max(T)}], s[Max(T)], wanted)
    BY <1>1, <1>7
  <2> QED BY <1>4, <1>5, <2>1 DEF Folds
<1>10. PICK r \in [0..Len(s) -> Seq(E)] : Path(r, it, F, <<>>, s)
  BY <1>3, <1>9, <1>b, FoldPath
<1>11. ASSUME NEW n \in 1..Len(s) PROVE r[n] = Keep(r[n - 1], s[n], wanted)
  <2>0. n - 1 \in 0..Len(s) BY <1>1
  <2>1. r[n - 1] \in Seq(E) BY <2>0
  <2>2. s[n] \in E BY ElementOfSeq
  <2>3. r[n] = F[<<r[n - 1], s[n]>>] BY <1>10 DEF Path
  <2>4. F[<<r[n - 1], s[n]>>] = Keep(r[n - 1], s[n], wanted) BY <1>4, <2>1, <2>2
  <2> QED BY <2>3, <2>4
<1>12. r[0] = <<>> /\ Kept(s, wanted) = r[Len(s)]
  <2>1. r[0] = <<>> BY <1>10 DEF Path
  <2>2. r[Len(s)] = it[1..Len(s)]
    <3>1. Len(s) \in 0..Len(s) BY <1>1
    <3> QED BY <1>10, <3>1 DEF Path
  <2> QED BY <1>1, <1>8, <2>1, <2>2
<1> QED BY <1>10, <1>11, <1>12 DEF Path

\* Exactly the wanted ones are kept.
LEMMA KeptProperties ==
  ASSUME NEW E, NEW s \in Seq(E), NEW wanted
  PROVE  /\ Kept(s, wanted) \in Seq(E)
         /\ \A m : (\E i \in 1..Len(Kept(s, wanted)) : Kept(s, wanted)[i] = m)
                     <=> (m \in wanted /\ \E i \in 1..Len(s) : s[i] = m)
<1>1. PICK r \in [0..Len(s) -> Seq(E)] :
           /\ r[0] = <<>>
           /\ \A n \in 1..Len(s) :
                r[n] = Keep(r[n - 1], s[n], wanted)
           /\ Kept(s, wanted) = r[Len(s)]
  BY KeptRun, ZenonT(60)
<1>2. Len(s) \in Nat
  BY LenProperties
<1> DEFINE Good(n) == \A m : (\E i \in 1..Len(r[n]) : r[n][i] = m)
                               <=> (m \in wanted /\ \E i \in 1..n : s[i] = m)
           S == {n \in Nat : n <= Len(s) => Good(n)}
<1>3. 0 \in S
  <2>1. Len(r[0]) = 0 BY <1>1
  <2>2. Good(0) BY <2>1
  <2> QED BY <2>2
<1>4. ASSUME NEW n \in Nat, n \in S PROVE n + 1 \in S
  <2> SUFFICES ASSUME n + 1 <= Len(s) PROVE Good(n + 1)
    OBVIOUS
  <2>1. Good(n) BY <1>2, <1>4
  <2>2. n + 1 \in 1..Len(s) /\ (n + 1) - 1 = n /\ n \in 0..Len(s) BY <1>2
  <2>3. r[n] \in Seq(E) /\ Len(r[n]) \in Nat BY <2>2, LenProperties
  <2>4. s[n + 1] \in E BY <2>2, ElementOfSeq
  <2>5. CASE s[n + 1] \notin wanted
    <3>1. r[n + 1] = r[n] BY <1>1, <2>2, <2>5 DEF Keep
    <3>2. \A m \in wanted : (\E i \in 1..n : s[i] = m) <=> (\E i \in 1..(n + 1) : s[i] = m)
      BY <2>5
    <3> QED BY <2>1, <3>1, <3>2
  <2>6. CASE s[n + 1] \in wanted
    <3>1. r[n + 1] = Append(r[n], s[n + 1]) BY <1>1, <2>2, <2>6 DEF Keep
    <3>2. /\ Len(r[n + 1]) = Len(r[n]) + 1
          /\ \A i \in 1..Len(r[n]) : r[n + 1][i] = r[n][i]
          /\ r[n + 1][Len(r[n]) + 1] = s[n + 1]
      BY <2>3, <2>4, <3>1, AppendProperties
    <3>3. \A m : (\E i \in 1..Len(r[n + 1]) : r[n + 1][i] = m)
                   <=> (m = s[n + 1] \/ \E i \in 1..Len(r[n]) : r[n][i] = m)
      <4>1. ASSUME NEW i \in 1..Len(r[n + 1])
            PROVE  i \in 1..Len(r[n]) \/ i = Len(r[n]) + 1
        BY <2>3, <3>2
      <4>2. \A i \in 1..Len(r[n]) : i \in 1..Len(r[n + 1])
        BY <2>3, <3>2
      <4>3. Len(r[n]) + 1 \in 1..Len(r[n + 1])
        BY <2>3, <3>2
      <4> QED BY <3>2, <4>1, <4>2, <4>3
    <3>4. \A m : (\E i \in 1..(n + 1) : s[i] = m)
                   <=> (m = s[n + 1] \/ \E i \in 1..n : s[i] = m)
      OBVIOUS
    <3> QED BY <2>1, <2>6, <3>3, <3>4
  <2> QED BY <2>5, <2>6
<1>5. Len(s) \in S
  <2> HIDE DEF S
  <2> QED BY <1>2, <1>3, <1>4, Induction
<1>6. Good(Len(s))
  BY <1>2, <1>5
<1>7. r[Len(s)] \in Seq(E)
  BY <1>2
<1> QED BY <1>1, <1>6, <1>7

\* The cost of lines is added up one by one.
LEMMA CostRun ==
  ASSUME NEW s \in Seq(Message)
  PROVE  \E r \in [0..Len(s) -> Int] :
           /\ r[0] = 0
           /\ \A n \in 1..Len(s) : r[n] = r[n - 1] + s[n].size + 1
           /\ Cost(s) = r[Len(s)]
<1> DEFINE F == [p \in Int \X Message |-> p[1] + p[2].size + 1]
           Step(g) == [T \in SUBSET DOMAIN s |->
                         IF T = {} THEN 0 ELSE g[T \ {Max(T)}] + s[Max(T)].size + 1]
           it == CHOOSE g : g = Step(g)
<1>1. Len(s) \in Nat /\ DOMAIN s = 1..Len(s)
  BY LenProperties
<1>2. ASSUME NEW x \in Int, NEW y \in Message PROVE x + y.size + 1 \in Int
  BY DEF Message
<1>3. F \in [Int \X Message -> Int]
  BY <1>2
<1>4. ASSUME NEW x \in Int, NEW y \in Message PROVE F[<<x, y>>] = x + y.size + 1
  OBVIOUS
<1>5. ASSUME NEW T \in SUBSET (1..Len(s)), T # {} PROVE s[Max(T)] \in Message
  <2>1. Max(T) \in 1..Len(s) BY <1>1, <1>5, MaxOf
  <2> QED BY <2>1, ElementOfSeq
<1>b. 0 \in Int
  OBVIOUS
<1> HIDE DEF F
<1>6. \E g : g = Step(g)
  <2>1. PICK g \in [SUBSET (1..Len(s)) -> Int] : IsFold(g, F, 0, s)
    BY <1>3, <1>b, FoldExists
  <2>2. ASSUME NEW T \in SUBSET (1..Len(s)), T # {}
        PROVE  F[<<g[T \ {Max(T)}], s[Max(T)]>>] = g[T \ {Max(T)}] + s[Max(T)].size + 1
    BY <1>4, <1>5, <2>2
  <2>3. g = Step(g) BY <1>1, <2>1, <2>2 DEF IsFold
  <2> QED BY <2>3
<1>7. it = Step(it)
  <2> HIDE DEF Step
  <2> QED BY <1>6
<1>8. Cost(s) = it[DOMAIN s]
  BY DEF FoldLeft, MapThenFoldSet, Cost
<1> HIDE DEF it
<1>9. Folds(it, Int, F, 0, s)
  <2>1. ASSUME NEW T \in SUBSET (1..Len(s))
        PROVE  it[T] = IF T = {} THEN 0 ELSE it[T \ {Max(T)}] + s[Max(T)].size + 1
    BY <1>1, <1>7
  <2> QED BY <1>4, <1>5, <2>1 DEF Folds
<1>10. PICK r \in [0..Len(s) -> Int] : Path(r, it, F, 0, s)
  BY <1>3, <1>9, <1>b, FoldPath
<1>11. ASSUME NEW n \in 1..Len(s) PROVE r[n] = r[n - 1] + s[n].size + 1
  <2>0. n - 1 \in 0..Len(s) BY <1>1
  <2>1. r[n - 1] \in Int BY <2>0
  <2>2. s[n] \in Message BY ElementOfSeq
  <2>3. r[n] = F[<<r[n - 1], s[n]>>] BY <1>10 DEF Path
  <2>4. F[<<r[n - 1], s[n]>>] = r[n - 1] + s[n].size + 1 BY <1>4, <2>1, <2>2
  <2> QED BY <2>3, <2>4
<1>12. r[0] = 0 /\ Cost(s) = r[Len(s)]
  <2>1. r[0] = 0 BY <1>10 DEF Path
  <2>2. r[Len(s)] = it[1..Len(s)]
    <3>1. Len(s) \in 0..Len(s) BY <1>1
    <3> QED BY <1>10, <3>1 DEF Path
  <2> QED BY <1>1, <1>8, <2>1, <2>2
<1> QED BY <1>10, <1>11, <1>12 DEF Path

\* A line more costs its length and its newline.
LEMMA CostProperties ==
  /\ Cost(<<>>) = 0
  /\ \A l \in Seq(Message) : Cost(l) \in Int
  /\ \A l \in Seq(Message), m \in Message : Cost(Append(l, m)) = Cost(l) + m.size + 1
<1>1. Cost(<<>>) = 0
  <2>1. <<>> \in Seq(Message) /\ Len(<<>>) = 0 OBVIOUS
  <2> QED BY <2>1, CostRun
<1>2. ASSUME NEW l \in Seq(Message) PROVE Cost(l) \in Int
  <2>1. Len(l) \in Nat BY LenProperties
  <2> QED BY <2>1, CostRun
<1>3. ASSUME NEW l \in Seq(Message), NEW m \in Message
      PROVE  Cost(Append(l, m)) = Cost(l) + m.size + 1
  <2> DEFINE k == Append(l, m)
  <2>1. /\ k \in Seq(Message) /\ Len(l) \in Nat /\ Len(k) = Len(l) + 1
        /\ k[Len(l) + 1] = m /\ \A i \in 1..Len(l) : k[i] = l[i]
    BY AppendProperties, LenProperties
  <2> HIDE DEF k
  <2>2. PICK r \in [0..Len(l) -> Int] :
           /\ r[0] = 0
           /\ \A n \in 1..Len(l) : r[n] = r[n - 1] + l[n].size + 1
           /\ Cost(l) = r[Len(l)]
    BY CostRun
  <2>3. PICK q \in [0..Len(k) -> Int] :
           /\ q[0] = 0
           /\ \A n \in 1..Len(k) : q[n] = q[n - 1] + k[n].size + 1
           /\ Cost(k) = q[Len(k)]
    BY <2>1, CostRun
  <2> DEFINE S == {n \in Nat : n <= Len(l) => q[n] = r[n]}
  <2>4. 0 \in S BY <2>2, <2>3
  <2>5. ASSUME NEW n \in Nat, n \in S PROVE n + 1 \in S
    <3> SUFFICES ASSUME n + 1 <= Len(l) PROVE q[n + 1] = r[n + 1]
      OBVIOUS
    <3>1. q[n] = r[n] BY <2>1, <2>5
    <3>2. n + 1 \in 1..Len(l) /\ n + 1 \in 1..Len(k) /\ (n + 1) - 1 = n BY <2>1
    <3> QED BY <2>1, <2>2, <2>3, <3>1, <3>2
  <2>6. Len(l) \in S
    <3> HIDE DEF S
    <3> QED BY <2>1, <2>4, <2>5, Induction
  <2>7. q[Len(l)] = Cost(l) BY <2>1, <2>2, <2>6
  <2>8. q[Len(k)] = q[Len(l)] + m.size + 1 BY <2>1, <2>3
  <2> QED BY <2>3, <2>7, <2>8 DEF k
<1> QED BY <1>1, <1>2, <1>3

\* The transcript of any messages fits any budget, holds the first of those that
\* are to be shown, and stops only at one that does not fit.
THEOREM BudgetIsFilled ==
  ASSUME NEW msgs \in Seq(Message), NEW trigger, NEW maxChars \in Nat
  PROVE  FillsTheBudget(msgs, trigger, maxChars)
<1> DEFINE shown == Shown(msgs, trigger)
           budget == IF maxChars = 0 THEN DefaultChars ELSE maxChars
           b == [lines |-> <<>>, cut |-> FALSE, left |-> budget]
<1>1. shown \in Seq(Message) /\ Len(shown) \in Nat
  BY KeptProperties, LenProperties DEF Shown
<1>2. budget \in Nat
  BY ThreadBounds
<1>3. b \in Written
  BY <1>2 DEF Written
<1> HIDE DEF shown, budget
<1>4. Transcript(msgs, trigger, maxChars) = FoldLeft(AppendLine, b, shown)
  BY DEF Transcript, shown, budget
<1> HIDE DEF b
<1>5. PICK r \in [0..Len(shown) -> Written] :
           /\ r[0] = b
           /\ \A n \in 1..Len(shown) : r[n] = AppendLine(r[n - 1], shown[n])
           /\ FoldLeft(AppendLine, b, shown) = r[Len(shown)]
  BY <1>1, <1>3, TranscriptRun
<1> DEFINE Leading(n) == SubSeq(shown, 1, n)
           k(n) == Len(r[n].lines)
           Good(n) == /\ k(n) \in 0..n
                      /\ r[n].lines = Leading(k(n))
                      /\ Cost(r[n].lines) <= budget
                      /\ ~r[n].cut => k(n) = n /\ r[n].left = budget - Cost(r[n].lines)
                      /\ r[n].cut => k(n) < n /\ Cost(Leading(k(n) + 1)) > budget
           S == {n \in Nat : n <= Len(shown) => Good(n)}
<1>6. 0 \in S
  <2>1. r[0].lines = <<>> /\ ~r[0].cut /\ r[0].left = budget
    BY <1>5 DEF b
  <2>2. Leading(0) = <<>> /\ Len(<<>>) = 0
    BY <1>1
  <2>3. Good(0)
    BY <1>2, <2>1, <2>2, CostProperties
  <2> QED BY <2>3
<1>7. ASSUME NEW n \in Nat, n \in S PROVE n + 1 \in S
  <2> SUFFICES ASSUME n + 1 <= Len(shown) PROVE Good(n + 1)
    OBVIOUS
  <2>1. Good(n)
    <3> HIDE DEF Good
    <3> QED BY <1>1, <1>7
  <2>2. n + 1 \in 1..Len(shown) /\ (n + 1) - 1 = n /\ n \in 0..Len(shown)
    BY <1>1
  <2> DEFINE m == shown[n + 1]
             st == r[n]
  <2>3. m \in Message /\ m.size \in Nat
    <3>1. m \in Message BY <1>1, <2>2, ElementOfSeq
    <3> QED BY <3>1 DEF Message
  <2>4. st \in Written
    BY <2>2
  <2>5. st.lines \in Seq(Message) /\ st.cut \in BOOLEAN /\ st.left \in Int /\ Cost(st.lines) \in Int
    BY <2>4, CostProperties DEF Written
  <2>6. r[n + 1] = AppendLine(st, m)
    BY <1>5, <2>2
  <2> HIDE DEF m, st
  <2>7. CASE st.cut
    <3>1. r[n + 1] = st BY <2>6, <2>7 DEF AppendLine
    <3> QED BY <2>1, <2>7, <3>1 DEF st
  <2>8. CASE ~st.cut
    <3>1. /\ k(n) = n /\ st.lines = Leading(n) /\ Len(st.lines) = n
          /\ st.left = budget - Cost(st.lines) /\ Cost(st.lines) <= budget
      BY <2>1, <2>8 DEF st
    <3>2. Leading(n + 1) = Append(Leading(n), m)
      BY <1>1, <2>2, PrefixOf DEF m
    <3>3. Cost(Leading(n + 1)) = Cost(st.lines) + m.size + 1
      BY <2>3, <2>5, <3>1, <3>2, CostProperties
    <3>4. CASE m.size + 1 > st.left
      <4>1. r[n + 1].lines = st.lines /\ r[n + 1].cut
        BY <2>4, <2>6, <2>8, <3>4 DEF AppendLine, Written
      <4>2. Cost(Leading(n + 1)) > budget
        BY <1>2, <2>3, <2>5, <3>1, <3>3, <3>4
      <4> HIDE DEF Leading
      <4> QED BY <3>1, <4>1, <4>2
    <3>5. CASE ~(m.size + 1 > st.left)
      <4>1. /\ r[n + 1].lines = Leading(n + 1) /\ ~r[n + 1].cut
            /\ r[n + 1].left = st.left - (m.size + 1)
        BY <2>4, <2>6, <2>8, <3>1, <3>2, <3>5 DEF AppendLine, Written
      <4>2. Len(Leading(n + 1)) = n + 1
        BY <1>1, <2>2, PrefixOf
      <4> HIDE DEF Leading
      <4>3. Cost(Leading(n + 1)) <= budget /\ r[n + 1].left = budget - Cost(Leading(n + 1))
        BY <1>2, <2>3, <2>5, <3>1, <3>3, <3>5, <4>1, SMTT(60)
      <4> QED BY <4>1, <4>2, <4>3
    <3> QED BY <3>4, <3>5
  <2> QED BY <2>5, <2>7, <2>8
<1>8. Good(Len(shown))
  <2>1. Len(shown) \in S
    <3> HIDE DEF S
    <3> QED BY <1>1, <1>6, <1>7, Induction
  <2> HIDE DEF Good
  <2> QED BY <1>1, <2>1
<1>9. r[Len(shown)] \in Written
  BY <1>1
<1> QED
  BY <1>1, <1>2, <1>4, <1>5, <1>8, <1>9 DEF FillsTheBudget, shown, budget, Written

\* The smaller of two numbers.
LEMMA MinOfTwo ==
  ASSUME NEW a \in Int, NEW b \in Int
  PROVE  Min({a, b}) = IF a <= b THEN a ELSE b
<1>1. \E x \in {a, b} : \A y \in {a, b} : x =< y
  OBVIOUS
<1>2. Min({a, b}) \in {a, b} /\ \A y \in {a, b} : Min({a, b}) =< y
  BY <1>1 DEF Min
<1> QED BY <1>2

\* The larger of two numbers.
LEMMA MaxOfTwo ==
  ASSUME NEW a \in Int, NEW b \in Int
  PROVE  Max({a, b}) = IF a >= b THEN a ELSE b
<1>1. \E x \in {a, b} : \A y \in {a, b} : x >= y
  OBVIOUS
<1>2. Max({a, b}) \in {a, b} /\ \A y \in {a, b} : Max({a, b}) >= y
  BY <1>1 DEF Max
<1> QED BY <1>2

\* What the loop of CollectReplies may have: the first n messages.
Reading(thread, max) ==
  {st \in [got : {SubSeq(thread, 1, n) : n \in 0..Len(thread)}, pc : {"run", "done", "error"}] :
     \E n \in 0..Len(thread) : st.got = SubSeq(thread, 1, n)}

\* How far the thread has been read.
LEMMA ReadingMember ==
  ASSUME NEW thread, NEW max, NEW n \in 0..Len(thread),
         NEW c \in {"run", "done", "error"}
  PROVE  [got |-> SubSeq(thread, 1, n), pc |-> c] \in Reading(thread, max)
BY DEF Reading

\* The beginning of a beginning.
LEMMA PrefixOfPrefix ==
  ASSUME NEW E, NEW s \in Seq(E), NEW k \in 0..Len(s), NEW n \in 0..k
  PROVE  SubSeq(SubSeq(s, 1, k), 1, n) = SubSeq(s, 1, n)
<1> DEFINE w == SubSeq(s, 1, k)
           a == SubSeq(w, 1, n)
           b == SubSeq(s, 1, n)
<1>1. Len(s) \in Nat BY LenProperties
<1>2. w \in Seq(E) /\ Len(w) = k /\ \A i \in 1..k : w[i] = s[i]
  BY PrefixOf
<1>3. n \in 0..Len(s) /\ n \in 0..Len(w) BY <1>1, <1>2
<1> HIDE DEF w
<1>4. a \in Seq(E) /\ Len(a) = n /\ \A i \in 1..n : a[i] = w[i]
  BY <1>2, <1>3, PrefixOf
<1>5. b \in Seq(E) /\ Len(b) = n /\ \A i \in 1..n : b[i] = s[i]
  BY <1>3, PrefixOf
<1>6. \A i \in 1..n : a[i] = b[i]
  BY <1>1, <1>2, <1>3, <1>4, <1>5
<1> HIDE DEF a, b
<1>7. a = b
  BY <1>4, <1>5, <1>6, SeqEqual
<1> QED BY <1>7 DEF a, b, w

\* A request that does not fail reads on from where the last one stopped, and an
\* undisturbed one does not stand still before the end.
LEMMA RequestGets ==
  ASSUME NEW E, NEW thread \in Seq(E), NEW max \in Nat, NEW n \in 0..Len(thread), n < max,
         NEW p \in SlackPage, ~p.fails
  PROVE  \E m \in n..Len(thread) :
           /\ Request(thread, max, [got |-> SubSeq(thread, 1, n), pc |-> "run"], p) =
                [got |-> SubSeq(thread, 1, m),
                 pc  |-> IF m < Length(thread, p) /\ m > n THEN "run" ELSE "done"]
           /\ ~Disturbed(p) => Length(thread, p) = Len(thread) /\ (n < Len(thread) => m > n)
<1>1. Len(thread) \in Nat
  BY LenProperties
<1>2. p.size \in Nat /\ p.missing \in Nat /\ p.extra \in Nat
  BY DEF SlackPage
<1>3. Length(thread, p) \in 0..Len(thread) /\ (p.missing = 0 => Length(thread, p) = Len(thread))
  BY <1>1, <1>2, MaxOfTwo DEF Length
<1>4. BatchCap \in Nat \ {0}
  BY ThreadBounds
<1> DEFINE st == [got |-> SubSeq(thread, 1, n), pc |-> "run"]
           asked == Min({max - n, BatchCap})
           upto == Min({n + Min({asked, p.size}) + p.extra, Length(thread, p)})
           page == SubSeq(thread, n + 1, upto)
           m == IF upto > n THEN upto ELSE n
<1>5. asked \in Nat \ {0} /\ asked <= max - n
  BY <1>4, MinOfTwo
<1>6. Min({asked, p.size}) \in 0..asked /\ (p.size # 0 => Min({asked, p.size}) # 0)
  <2> HIDE DEF asked
  <2> QED BY <1>2, <1>5, MinOfTwo
<1>7. /\ upto \in 0..Len(thread) /\ upto <= Length(thread, p)
      /\ p.size # 0 /\ n < Length(thread, p) => upto > n
  <2>1. n + Min({asked, p.size}) + p.extra \in Int /\ Length(thread, p) \in Int
    BY <1>2, <1>3, <1>5, <1>6
  <2> DEFINE far == n + Min({asked, p.size}) + p.extra
             len == Length(thread, p)
  <2>2. far \in Int /\ far >= n /\ (p.size # 0 => far > n)
    <3> HIDE DEF asked
    <3> QED BY <1>2, <1>5, <1>6
  <2>3. len \in 0..Len(thread) BY <1>3
  <2> HIDE DEF asked, far, len
  <2>4. Min({far, len}) = IF far <= len THEN far ELSE len
    BY <1>1, <2>2, <2>3, MinOfTwo
  <2>5. upto = Min({far, len}) BY DEF far, len
  <2>6. /\ upto \in 0..Len(thread) /\ upto <= len
        /\ p.size # 0 /\ n < len => upto > n
    <3> HIDE DEF upto
    <3> QED BY <1>1, <2>2, <2>3, <2>4, <2>5
  <2> QED BY <2>6 DEF len
<1>8. m \in n..Len(thread)
  <2> HIDE DEF upto
  <2> QED BY <1>1, <1>7
<1>9. Len(page) = m - n /\ (page = <<>> <=> m = n)
  <2> HIDE DEF upto
  <2>1. \A i \in (n + 1)..upto : thread[i] \in E BY <1>1, <1>7, ElementOfSeq
  <2>2. page \in Seq(E) /\ Len(page) = IF n + 1 <= upto THEN upto - (n + 1) + 1 ELSE 0
    BY <1>7, <2>1, SubSeqProperties
  <2>3. page = <<>> <=> Len(page) = 0
    BY <2>2, EmptySeq
  <2> HIDE DEF page
  <2> QED BY <1>7, <2>2, <2>3
<1>10. SubSeq(thread, 1, n) \o page = SubSeq(thread, 1, m)
  <2> HIDE DEF upto
  <2>1. CASE upto > n
    <3>1. 1 \in 1..(Len(thread) + 1) /\ n \in (1 - 1)..Len(thread) /\ upto \in n..Len(thread)
      BY <1>1, <1>7, <2>1
    <3>2. SubSeq(thread, 1, n) \o SubSeq(thread, n + 1, upto) = SubSeq(thread, 1, upto)
      BY <3>1, ConcatAdjacentSubSeq
    <3> QED BY <2>1, <3>2
  <2>2. CASE ~(upto > n)
    <3>1. page = <<>>
      BY <1>7, <2>2, SubSeqEmpty
    <3>2. SubSeq(thread, 1, n) \in Seq(E)
      BY PrefixOf
    <3>3. SubSeq(thread, 1, n) \o <<>> = SubSeq(thread, 1, n)
      BY <3>2, ConcatEmptySeq
    <3> QED BY <2>2, <3>1, <3>3
  <2> QED BY <2>1, <2>2
<1>11. Len(st.got) = n
  BY PrefixOf
<1>12. Request(thread, max, st, p) =
         [got |-> SubSeq(thread, 1, n) \o page,
          pc  |-> IF n + Len(page) < Length(thread, p) /\ page # <<>> THEN "run" ELSE "done"]
  <2>1. st.pc = "run" /\ st.got = SubSeq(thread, 1, n) OBVIOUS
  <2> DEFINE
        R(had) ==
          LET ask == Min({max - had, BatchCap})
              new == SubSeq(thread, had + 1, Min({had + Min({ask, p.size}) + p.extra, Length(thread, p)}))
              more == had + Len(new) < Length(thread, p)
          IN [got |-> SubSeq(thread, 1, n) \o new,
              pc  |-> IF more /\ new # <<>> THEN "run" ELSE "done"]
  <2>2. Request(thread, max, st, p) = R(Len(st.got))
    <3>1. ~(Len(st.got) >= max) BY <1>11
    <3> HIDE DEF st
    <3> QED BY <2>1, <3>1 DEF Request
  <2>3. R(Len(st.got)) = R(n)
    <3> HIDE DEF R, st
    <3> QED BY <1>11
  <2> QED BY <2>2, <2>3
<1>13. n + Len(page) = m
  <2> HIDE DEF page, m
  <2> QED BY <1>8, <1>9
<1>14. ~Disturbed(p) => Length(thread, p) = Len(thread) /\ (n < Len(thread) => m > n)
  <2> HIDE DEF upto
  <2> QED BY <1>3, <1>7 DEF Disturbed
<1>15. Request(thread, max, st, p) =
         [got |-> SubSeq(thread, 1, m),
          pc  |-> IF m < Length(thread, p) /\ m > n THEN "run" ELSE "done"]
  <2> HIDE DEF page, m, st
  <2>1. page # <<>> <=> m > n BY <1>8, <1>9
  <2> QED BY <1>10, <1>12, <1>13, <2>1
<1> HIDE DEF m
<1> QED BY <1>8, <1>14, <1>15

\* Whatever Slack answers, what has been read is the beginning of the thread.
LEMMA RequestType ==
  ASSUME NEW E, NEW thread \in Seq(E), NEW max \in Nat, NEW st \in Reading(thread, max),
         NEW p \in SlackPage
  PROVE  Request(thread, max, st, p) \in Reading(thread, max)
<1>1. Len(thread) \in Nat
  BY LenProperties
<1>2. PICK n \in 0..Len(thread), c \in {"run", "done", "error"} :
           st = [got |-> SubSeq(thread, 1, n), pc |-> c]
  BY DEF Reading
<1>3. Len(st.got) = n
  BY <1>2, PrefixOf
<1>4. CASE c # "run" \/ n >= max
  <2>1. st.pc # "run" \/ Len(st.got) >= max
    BY <1>2, <1>3, <1>4
  <2>2. Request(thread, max, st, p) = st
    BY <2>1 DEF Request
  <2> QED BY <2>2
<1>5. CASE c = "run" /\ n < max /\ p.fails
  <2>1. Request(thread, max, st, p) = [got |-> <<>>, pc |-> "error"]
    BY <1>2, <1>3, <1>5 DEF Request
  <2>2. SubSeq(thread, 1, 0) = <<>> /\ 0 \in 0..Len(thread)
    BY <1>1
  <2>3. [got |-> SubSeq(thread, 1, 0), pc |-> "error"] \in Reading(thread, max)
    BY <2>2, ReadingMember
  <2> QED BY <2>1, <2>2, <2>3
<1>6. CASE c = "run" /\ n < max /\ ~p.fails
  <2>1. PICK m \in n..Len(thread) :
           /\ Request(thread, max, [got |-> SubSeq(thread, 1, n), pc |-> "run"], p) =
                [got |-> SubSeq(thread, 1, m),
                 pc  |-> IF m < Length(thread, p) /\ m > n THEN "run" ELSE "done"]
    BY <1>6, RequestGets
  <2>2. m \in 0..Len(thread)
    BY <1>1, <2>1
  <2> DEFINE e == IF m < Length(thread, p) /\ m > n THEN "run" ELSE "done"
  <2>3. e \in {"run", "done", "error"}
    OBVIOUS
  <2>4. Request(thread, max, st, p) = [got |-> SubSeq(thread, 1, m), pc |-> e]
    BY <1>2, <1>6, <2>1
  <2> HIDE DEF e
  <2> QED BY <2>2, <2>3, <2>4, ReadingMember
<1> QED BY <1>1, <1>2, <1>4, <1>5, <1>6

\* The state of the loop after the pages of s.
Collected(thread, max, b, s) ==
  FoldLeft(LAMBDA st, p : Request(thread, max, st, p), b, s)

\* The pages are asked for one after the other.
LEMMA CollectRun ==
  ASSUME NEW E, NEW thread \in Seq(E), NEW max \in Nat, NEW s \in Seq(SlackPage),
         NEW b \in Reading(thread, max)
  PROVE  \E r \in [0..Len(s) -> Reading(thread, max)] :
           /\ r[0] = b
           /\ \A n \in 1..Len(s) : r[n] = Request(thread, max, r[n - 1], s[n])
           /\ Collected(thread, max, b, s) = r[Len(s)]
<1> DEFINE F == [p \in Reading(thread, max) \X SlackPage |-> Request(thread, max, p[1], p[2])]
           Step(g) == [T \in SUBSET DOMAIN s |->
                         IF T = {} THEN b ELSE Request(thread, max, g[T \ {Max(T)}], s[Max(T)])]
           it == CHOOSE g : g = Step(g)
<1>1. Len(s) \in Nat /\ DOMAIN s = 1..Len(s)
  BY LenProperties
<1>2. ASSUME NEW x \in Reading(thread, max), NEW y \in SlackPage PROVE Request(thread, max, x, y) \in Reading(thread, max)
  BY RequestType
<1>3. F \in [Reading(thread, max) \X SlackPage -> Reading(thread, max)]
  BY <1>2
<1>4. ASSUME NEW x \in Reading(thread, max), NEW y \in SlackPage PROVE F[<<x, y>>] = Request(thread, max, x, y)
  OBVIOUS
<1>5. ASSUME NEW T \in SUBSET (1..Len(s)), T # {} PROVE s[Max(T)] \in SlackPage
  <2>1. Max(T) \in 1..Len(s) BY <1>1, <1>5, MaxOf
  <2> QED BY <2>1, ElementOfSeq
<1>b. b \in Reading(thread, max)
  OBVIOUS
<1> HIDE DEF F
<1>6. \E g : g = Step(g)
  <2>1. PICK g \in [SUBSET (1..Len(s)) -> Reading(thread, max)] : IsFold(g, F, b, s)
    BY <1>3, <1>b, FoldExists
  <2>2. ASSUME NEW T \in SUBSET (1..Len(s)), T # {}
        PROVE  F[<<g[T \ {Max(T)}], s[Max(T)]>>] = Request(thread, max, g[T \ {Max(T)}], s[Max(T)])
    BY <1>4, <1>5, <2>2
  <2>3. g = Step(g) BY <1>1, <2>1, <2>2 DEF IsFold
  <2> QED BY <2>3
<1>7. it = Step(it)
  <2> HIDE DEF Step
  <2> QED BY <1>6
<1>8. Collected(thread, max, b, s) = it[DOMAIN s]
  BY DEF FoldLeft, MapThenFoldSet, Collected
<1> HIDE DEF it
<1>9. Folds(it, Reading(thread, max), F, b, s)
  <2>1. ASSUME NEW T \in SUBSET (1..Len(s))
        PROVE  it[T] = IF T = {} THEN b ELSE Request(thread, max, it[T \ {Max(T)}], s[Max(T)])
    BY <1>1, <1>7
  <2> QED BY <1>4, <1>5, <2>1 DEF Folds
<1>10. PICK r \in [0..Len(s) -> Reading(thread, max)] : Path(r, it, F, b, s)
  BY <1>3, <1>9, <1>b, FoldPath
<1>11. ASSUME NEW n \in 1..Len(s) PROVE r[n] = Request(thread, max, r[n - 1], s[n])
  <2>0. n - 1 \in 0..Len(s) BY <1>1
  <2>1. r[n - 1] \in Reading(thread, max) BY <2>0
  <2>2. s[n] \in SlackPage BY ElementOfSeq
  <2>3. r[n] = F[<<r[n - 1], s[n]>>] BY <1>10 DEF Path
  <2>4. F[<<r[n - 1], s[n]>>] = Request(thread, max, r[n - 1], s[n]) BY <1>4, <2>1, <2>2
  <2> QED BY <2>3, <2>4
<1>12. r[0] = b /\ Collected(thread, max, b, s) = r[Len(s)]
  <2>1. r[0] = b BY <1>10 DEF Path
  <2>2. r[Len(s)] = it[1..Len(s)]
    <3>1. Len(s) \in 0..Len(s) BY <1>1
    <3> QED BY <1>10, <3>1 DEF Path
  <2> QED BY <1>1, <1>8, <2>1, <2>2
<1> QED BY <1>10, <1>11, <1>12 DEF Path

\* What CollectReplies returns is the beginning of the thread; if Slack is not
\* disturbed it ends at max or at the end of the thread, without an error.
LEMMA CollectProperties ==
  ASSUME NEW E, NEW thread \in Seq(E), NEW maxMsgs \in Nat, NEW pages \in Seq(SlackPage),
         NEW max, max = IF maxMsgs = 0 THEN DefaultMax ELSE maxMsgs
  PROVE  \E n \in 0..Len(thread) :
           /\ n <= max
           /\ CollectReplies(thread, maxMsgs, pages).got = SubSeq(thread, 1, n)
           /\ (\A i \in 1..Len(pages) : ~Disturbed(pages[i])) =>
                /\ CollectReplies(thread, maxMsgs, pages).pc # "error"
                /\ n = max \/ n = Len(thread)
<1>1. Len(thread) \in Nat /\ Len(pages) \in Nat
  BY LenProperties
<1>2. max \in Nat \ {0}
  BY ThreadBounds
<1> DEFINE b == [got |-> <<>>, pc |-> "run"]
           rest == [i \in 1..(Len(thread) + 1) |-> FullPage]
           s == pages \o rest
           end == Collected(thread, max, b, s)
<1>3. FullPage \in SlackPage /\ ~Disturbed(FullPage)
  BY ThreadBounds DEF FullPage, SlackPage, Disturbed
<1>4. rest \in Seq(SlackPage) /\ Len(rest) = Len(thread) + 1
  BY <1>1, <1>3
<1>5. /\ s \in Seq(SlackPage) /\ Len(s) = Len(pages) + Len(thread) + 1
      /\ \A i \in 1..Len(s) : s[i] = IF i <= Len(pages) THEN pages[i] ELSE FullPage
  <2>1. \A i \in 1..(Len(thread) + 1) : rest[i] = FullPage OBVIOUS
  <2> HIDE DEF rest
  <2>2. /\ s \in Seq(SlackPage) /\ Len(s) = Len(pages) + Len(rest)
        /\ \A i \in 1..(Len(pages) + Len(rest)) :
             s[i] = IF i <= Len(pages) THEN pages[i] ELSE rest[i - Len(pages)]
    BY <1>4, ConcatProperties
  <2> HIDE DEF s
  <2> QED BY <1>1, <1>4, <2>1, <2>2, SMTT(60)
<1>6. b \in Reading(thread, max)
  <2>1. SubSeq(thread, 1, 0) = <<>> /\ 0 \in 0..Len(thread) BY <1>1, <1>2
  <2>2. [got |-> SubSeq(thread, 1, 0), pc |-> "run"] \in Reading(thread, max)
    BY <2>1, ReadingMember
  <2> QED BY <2>1, <2>2
<1>7. CollectReplies(thread, maxMsgs, pages) =
        [end EXCEPT !.got = SubSeq(end.got, 1, Min({max, Len(end.got)}))]
  BY DEF CollectReplies, Collected
<1> HIDE DEF s
<1>8. PICK r \in [0..Len(s) -> Reading(thread, max)] :
           /\ r[0] = b
           /\ \A n \in 1..Len(s) : r[n] = Request(thread, max, r[n - 1], s[n])
           /\ Collected(thread, max, b, s) = r[Len(s)]
  <2> HIDE DEF b
  <2>1. s \in Seq(SlackPage) /\ b \in Reading(thread, max) /\ max \in Nat
    BY <1>2, <1>5, <1>6
  <2>2. \E r \in [0..Len(s) -> Reading(thread, max)] :
           /\ r[0] = b
           /\ \A n \in 1..Len(s) : r[n] = Request(thread, max, r[n - 1], s[n])
           /\ Collected(thread, max, b, s) = r[Len(s)]
    BY <2>1, CollectRun, SMTT(90)
  <2> QED BY <2>2
<1>9. ASSUME NEW n \in 0..Len(s)
      PROVE  \E k \in 0..Len(thread), c \in {"run", "done", "error"} :
               r[n] = [got |-> SubSeq(thread, 1, k), pc |-> c]
  BY <1>8 DEF Reading
<1>10. ASSUME \A i \in 1..Len(pages) : ~Disturbed(pages[i])
       PROVE  \E k \in 0..Len(thread) : \E c \in {"run", "done"} :
                /\ r[Len(s)] = [got |-> SubSeq(thread, 1, k), pc |-> c]
                /\ k >= max \/ k = Len(thread)
  <2> DEFINE Good(n) == \E k \in 0..Len(thread) : \E c \in {"run", "done"} :
                          /\ r[n] = [got |-> SubSeq(thread, 1, k), pc |-> c]
                          /\ c = "done" => k = Len(thread)
                          /\ c = "run" => k >= n \/ k >= max
             S == {n \in Nat : n <= Len(s) => Good(n)}
  <2>1. 0 \in S
    <3>1. SubSeq(thread, 1, 0) = <<>> /\ 0 \in 0..Len(thread) BY <1>1, <1>2
    <3>2. r[0] = [got |-> SubSeq(thread, 1, 0), pc |-> "run"] BY <1>8, <3>1
    <3>3. Good(0) BY <3>1, <3>2
    <3> HIDE DEF Good
    <3> QED BY <3>3
  <2>2. ASSUME NEW n \in Nat, n \in S PROVE n + 1 \in S
    <3> SUFFICES ASSUME n + 1 <= Len(s) PROVE Good(n + 1)
      <4> HIDE DEF Good
      <4> QED OBVIOUS
    <3>1. Good(n)
      <4> HIDE DEF Good
      <4> QED BY <1>1, <1>5, <2>2
    <3>2. PICK k \in 0..Len(thread), c \in {"run", "done"} :
                          /\ r[n] = [got |-> SubSeq(thread, 1, k), pc |-> c]
                          /\ c = "done" => k = Len(thread)
                          /\ c = "run" => k >= n \/ k >= max
      BY <3>1
    <3>3. n + 1 \in 1..Len(s) /\ (n + 1) - 1 = n
      BY <1>1, <1>5
    <3> DEFINE p == s[n + 1]
    <3>4. p \in SlackPage /\ ~Disturbed(p)
      <4>1. p \in SlackPage BY <1>5, <3>3, ElementOfSeq
      <4>2. n + 1 <= Len(pages) => n + 1 \in 1..Len(pages) BY <1>1, <3>3
      <4>3. p = IF n + 1 <= Len(pages) THEN pages[n + 1] ELSE FullPage BY <1>5, <3>3
      <4>4. n + 1 <= Len(pages) => ~Disturbed(pages[n + 1]) BY <1>10, <4>2
      <4> QED BY <1>3, <4>1, <4>3, <4>4
    <3>5. r[n + 1] = Request(thread, max, r[n], p)
      BY <1>8, <3>3
    <3> HIDE DEF p
    <3>6. Len(SubSeq(thread, 1, k)) = k
      BY PrefixOf
    <3>7. CASE c = "done" \/ k >= max
      <4>1. r[n + 1] = r[n]
        <5>1. r[n].pc # "run" \/ Len(r[n].got) >= max BY <1>2, <3>2, <3>6, <3>7
        <5> QED BY <3>5, <5>1 DEF Request
      <4> QED BY <3>2, <3>7, <4>1
    <3>8. CASE c = "run" /\ ~(k >= max)
      <4>1. k < max /\ ~p.fails /\ k >= n
        BY <1>2, <3>2, <3>4, <3>8 DEF Disturbed
      <4>2. PICK m \in k..Len(thread) :
           /\ Request(thread, max, [got |-> SubSeq(thread, 1, k), pc |-> "run"], p) =
                [got |-> SubSeq(thread, 1, m),
                 pc  |-> IF m < Length(thread, p) /\ m > k THEN "run" ELSE "done"]
           /\ ~Disturbed(p) => Length(thread, p) = Len(thread) /\ (k < Len(thread) => m > k)
        BY <1>2, <3>4, <4>1, RequestGets
      <4>3. m \in 0..Len(thread) /\ (k < Len(thread) => m >= n + 1)
        BY <1>1, <1>2, <3>4, <4>1, <4>2
      <4>4. CASE m < Len(thread) /\ m > k
        <5>1. r[n + 1] = [got |-> SubSeq(thread, 1, m), pc |-> "run"]
          BY <3>2, <3>4, <3>5, <3>8, <4>2, <4>4
        <5>2. m >= n + 1
          BY <1>1, <4>3, <4>4
        <5> QED BY <4>3, <5>1, <5>2
      <4>5. CASE ~(m < Len(thread) /\ m > k)
        <5>1. r[n + 1] = [got |-> SubSeq(thread, 1, m), pc |-> "done"]
          BY <3>2, <3>4, <3>5, <3>8, <4>2, <4>5
        <5>2. m = Len(thread)
          BY <1>1, <3>4, <4>2, <4>5
        <5> QED BY <4>3, <5>1, <5>2
      <4> QED BY <4>4, <4>5
    <3> QED BY <3>7, <3>8
  <2>3. Len(s) \in S
    <3> HIDE DEF S
    <3>1. Len(s) \in Nat BY <1>1, <1>5
    <3> QED BY <2>1, <2>2, <3>1, Induction
  <2>4. Good(Len(s))
    <3> HIDE DEF Good
    <3> QED BY <1>1, <1>5, <2>3
  <2>5. PICK k \in 0..Len(thread), c \in {"run", "done"} :
                          /\ r[Len(s)] = [got |-> SubSeq(thread, 1, k), pc |-> c]
                          /\ c = "done" => k = Len(thread)
                          /\ c = "run" => k >= Len(s) \/ k >= max
    BY <2>4
  <2>6. k >= max \/ k = Len(thread)
    BY <1>1, <1>5, <2>5
  <2> QED BY <2>5, <2>6
\* However far the loop has read, the cut leaves the first max messages of it.
<1>11. ASSUME NEW k \in 0..Len(thread), NEW c \in {"run", "done", "error"},
              end = [got |-> SubSeq(thread, 1, k), pc |-> c],
              NEW u, u = CollectReplies(thread, maxMsgs, pages)
       PROVE  \E n \in 0..Len(thread) :
                n <= max /\ u.got = SubSeq(thread, 1, n) /\ u.pc = c /\ (k < max => n = k) /\ (k >= max => n = max)
  <2> DEFINE n == Min({max, k})
             w == SubSeq(thread, 1, k)
  <2>1. n \in 0..k /\ n <= max /\ (k < max => n = k) /\ (k >= max => n = max)
    BY <1>2, <1>1, MinOfTwo, SMTT(60)
  <2>2. Len(w) = k /\ w \in Seq(E)
    BY PrefixOf
  <2> HIDE DEF w, end
  <2>3. u = [got |-> SubSeq(w, 1, Min({max, Len(w)})), pc |-> c]
    <3>1. end = [got |-> w, pc |-> c] BY <1>11 DEF w
    <3>2. u = [end EXCEPT !.got = SubSeq(end.got, 1, Min({max, Len(end.got)}))]
      BY <1>7, <1>11
    <3> DEFINE v == SubSeq(w, 1, Min({max, Len(w)}))
    <3>3. u = [end EXCEPT !.got = v] BY <3>1, <3>2
    <3> HIDE DEF v
    <3>4. u = [got |-> v, pc |-> c] BY <3>1, <3>3
    <3> QED BY <3>4 DEF v
  <2>4. u.got = SubSeq(w, 1, n) /\ u.pc = c
    BY <2>2, <2>3
  <2> HIDE DEF n
  <2>5. SubSeq(w, 1, n) = SubSeq(thread, 1, n)
    BY <1>1, <2>1, PrefixOfPrefix DEF w
  <2> QED BY <1>1, <2>1, <2>4, <2>5
<1>12. CASE \A i \in 1..Len(pages) : ~Disturbed(pages[i])
  <2>1. PICK k \in 0..Len(thread), c \in {"run", "done"} :
                /\ r[Len(s)] = [got |-> SubSeq(thread, 1, k), pc |-> c]
                /\ k >= max \/ k = Len(thread)
    BY <1>10, <1>12
  <2>2. end = [got |-> SubSeq(thread, 1, k), pc |-> c]
    BY <1>8, <2>1
  <2> DEFINE u == CollectReplies(thread, maxMsgs, pages)
  <2> HIDE DEF end, u
  <2>3. \E n \in 0..Len(thread) :
          n <= max /\ u.got = SubSeq(thread, 1, n) /\ u.pc = c /\ (k < max => n = k) /\ (k >= max => n = max)
    BY <1>11, <2>2 DEF u
  <2>4. \E n \in 0..Len(thread) :
          n <= max /\ u.got = SubSeq(thread, 1, n) /\ u.pc # "error" /\ (n = max \/ n = Len(thread))
    BY <1>1, <1>2, <2>1, <2>3
  <2> QED BY <2>4 DEF u
<1>13. CASE ~\A i \in 1..Len(pages) : ~Disturbed(pages[i])
  <2>1. Len(s) \in 0..Len(s) BY <1>1, <1>5
  <2>2. PICK k \in 0..Len(thread), c \in {"run", "done", "error"} :
               r[Len(s)] = [got |-> SubSeq(thread, 1, k), pc |-> c]
    BY <1>9, <2>1
  <2>3. end = [got |-> SubSeq(thread, 1, k), pc |-> c]
    BY <1>8, <2>2
  <2> DEFINE u == CollectReplies(thread, maxMsgs, pages)
  <2> HIDE DEF end, u
  <2>4. \E n \in 0..Len(thread) :
          n <= max /\ u.got = SubSeq(thread, 1, n) /\ u.pc = c /\ (k < max => n = k) /\ (k >= max => n = max)
    BY <1>11, <2>3, ZenonT(60) DEF u
  <2> QED BY <1>13, <2>4 DEF u
<1> QED BY <1>12, <1>13

\* For every thread, limit and sequence of pages Slack may send, short, empty,
\* lagging or failing: CollectReplies returns the first messages of the thread,
\* no more than asked for, and all it should when Slack is undisturbed.
THEOREM RepliesAreRead ==
  ASSUME NEW E, NEW thread \in Seq(E), NEW maxMsgs \in Nat, NEW pages \in Seq(SlackPage)
  PROVE  ReadsFromTheStart(thread, maxMsgs, pages)
<1> DEFINE max == IF maxMsgs = 0 THEN DefaultMax ELSE maxMsgs
           r == CollectReplies(thread, maxMsgs, pages)
<1>1. Len(thread) \in Nat
  BY LenProperties
<1>2. max \in Nat
  BY ThreadBounds
<1> HIDE DEF max, r
<1>3. PICK n \in 0..Len(thread) :
           /\ n <= max
           /\ r.got = SubSeq(thread, 1, n)
           /\ (\A i \in 1..Len(pages) : ~Disturbed(pages[i])) => n = max \/ n = Len(thread)
  BY CollectProperties DEF max, r
<1>4. Len(r.got) = n
  BY <1>3, PrefixOf
<1>5. (\A i \in 1..Len(pages) : ~Disturbed(pages[i])) => n = Min({max, Len(thread)})
  BY <1>1, <1>2, <1>3, MinOfTwo
<1> QED
  BY <1>3, <1>4, <1>5 DEF ReadsFromTheStart, max, r

\* For every thread within the limit the Context API answers exactly the messages
\* that are newer than oldest, without the excluded one.
THEOREM WindowIsAnswered ==
  ASSUME NEW thread \in Seq(Message), NEW pages \in Seq(SlackPage), NEW given \in Nat,
         NEW exclude, NEW oldest
  PROVE  AnswersTheWindow(thread, pages, given, exclude, oldest)
<1> DEFINE limit == Limit(given)
           r == CollectReplies(thread, limit, pages)
           wanted == {m \in Range(r.got) : m.ts # exclude /\ m.ts > oldest}
           a == ThreadMessages(thread, pages, given, exclude, oldest)
<1> SUFFICES ASSUME \A i \in 1..Len(pages) : ~Disturbed(pages[i]), Len(thread) <= limit
             PROVE  {a.messages[i] : i \in 1..Len(a.messages)} =
                      {thread[i] : i \in {i \in 1..Len(thread) :
                               thread[i].ts > oldest /\ thread[i].ts # exclude}}
  BY DEF AnswersTheWindow
<1>1. Len(thread) \in Nat
  BY LenProperties
<1>2. limit \in Nat \ {0}
  BY ThreadBounds, MinOfTwo DEF Limit
<1> HIDE DEF limit
<1>3. r.got = thread /\ r.pc # "error"
  <2>1. PICK n \in 0..Len(thread) :
           /\ n <= limit
           /\ r.got = SubSeq(thread, 1, n)
           /\ r.pc # "error"
           /\ n = limit \/ n = Len(thread)
    BY <1>2, CollectProperties
  <2>2. n = Len(thread) BY <1>1, <1>2, <2>1
  <2> QED BY <2>1, <2>2, SubSeqFull
<1>4. a.messages = Kept(thread, wanted)
  BY <1>3 DEF ThreadMessages, limit
<1>5. \A m : (\E i \in 1..Len(a.messages) : a.messages[i] = m)
               <=> (m \in wanted /\ \E i \in 1..Len(thread) : thread[i] = m)
  <2>1. \A m : (\E i \in 1..Len(Kept(thread, wanted)) : Kept(thread, wanted)[i] = m)
                  <=> (m \in wanted /\ \E i \in 1..Len(thread) : thread[i] = m)
    <3> HIDE DEF wanted
    <3> QED BY KeptProperties, SMTT(60)
  <2> HIDE DEF a, wanted
  <2> QED BY <1>4, <2>1
<1>6. \A m : m \in wanted <=> (m.ts # exclude /\ m.ts > oldest /\ \E i \in 1..Len(thread) : thread[i] = m)
  <2>1. Range(thread) = {thread[i] : i \in 1..Len(thread)}
    BY LenProperties DEF Range
  <2> QED BY <1>3, <2>1
<1> HIDE DEF a, wanted
<1>7. {a.messages[i] : i \in 1..Len(a.messages)} =
        {m \in Range(thread) : m.ts > oldest /\ m.ts # exclude}
  <2>1. Range(thread) = {thread[i] : i \in 1..Len(thread)}
    BY LenProperties DEF Range
  <2>2. \A m : m \in {a.messages[i] : i \in 1..Len(a.messages)} <=>
               m \in {x \in Range(thread) : x.ts > oldest /\ x.ts # exclude}
    BY <1>5, <1>6, <2>1, SMTT(60)
  <2> QED BY <2>2
<1>8. {m \in Range(thread) : m.ts > oldest /\ m.ts # exclude} =
        {thread[i] : i \in {i \in 1..Len(thread) : thread[i].ts > oldest /\ thread[i].ts # exclude}}
  BY LenProperties DEF Range
<1> QED BY <1>7, <1>8

-----------------------------------------------------------------------------
(* The Context API's proxy.                                                 *)

\* What a body is parsed to: a JSON body has one value of each name at most, and
\* a form has those it gives.
LEMMA ParsedOnce ==
  ASSUME NEW q, NEW n \in Param, q.body = "json" \/ Len(q.given[n]) <= 1,
         NEW V, q.given \in [Param -> Seq(V)]
  PROVE  Parsed(q)[n] = <<>> \/ \E v : Parsed(q)[n] = <<v>>
<1>1. CASE q.body = "form"
  <2>1. Parsed(q)[n] = q.given[n]
    BY <1>1 DEF Parsed
  <2>2. q.given[n] \in Seq(V) /\ Len(q.given[n]) <= 1
    BY <1>1
  <2> DEFINE w == q.given[n]
  <2> HIDE DEF w
  <2>3. w = <<>> \/ w = <<w[1]>>
    <3>1. w \in Seq(V) /\ Len(w) <= 1
      BY <2>2 DEF w
    <3>2. Len(w) \in Nat
      BY <3>1, LenProperties
    <3> DEFINE k == Len(w)
    <3>3. k = 0 \/ k = 1
      <4>1. k \in Nat /\ k <= 1
        BY <3>1, <3>2
      <4> HIDE DEF k
      <4> QED BY <4>1
    <3> QED BY <3>1, <3>3, EmptySeq
  <2>4. q.given[n] = <<>> \/ q.given[n] = <<q.given[n][1]>>
    BY <2>3 DEF w
  <2> QED BY <2>1, <2>4
<1>2. CASE q.body = "json" /\ q.given[n] # <<>>
  BY <1>2 DEF Parsed
<1>3. CASE q.body # "form" /\ ~(q.body = "json" /\ q.given[n] # <<>>)
  BY <1>3 DEF Parsed
<1> QED BY <1>1, <1>2, <1>3

\* For every registry of sessions and every request, of any number of values of
\* each parameter: the proxy forwards exactly the requests that name the session
\* of their token first, what it forwards names no other session unless a form
\* repeats a parameter, and a token never goes.
THEOREM ProxyIsKept ==
  ASSUME NEW V, NEW reg, NEW bot \in BOOLEAN,
         NEW q, q.given \in [Param -> Seq(V)], reg = NoValue \/ NoValue \notin DOMAIN reg
  PROVE  ProxyKeepsToItsThread(reg, bot, q)
<1> DEFINE parsed == Parsed(q)
           stripped == Stripped(parsed)
           a == Proxy(reg, bot, q)
           s == reg[q.token]
           judged == Judged(q.method)
           once == q.body = "json" \/ \A n \in judged : Len(q.given[n]) <= 1
           named == \A n \in judged : Names(First(parsed, n), n, s)
<1>1. \A n \in Param : stripped[n] = IF n \in {"token", "TOKEN"} THEN <<>> ELSE parsed[n]
  <2>1. parsed = [n \in Param |-> parsed[n]]
    BY DEF Parsed
  <2> HIDE DEF parsed
  <2> QED BY <2>1 DEF Stripped, Param
<1>2. a.params = stripped
  BY DEF Proxy
<1>3. a.status = "forwarded" <=>
        /\ Admission(reg, q.verb, "POST", q.token) = "ok"
        /\ bot /\ q.method # NoValue /\ q.method \in Allowed /\ q.body # "unreadable"
        /\ SessionRules(q.method, stripped, s)
  <2>1. Admission(reg, q.verb, "POST", q.token) # "forwarded"
    BY DEF Admission
  <2> HIDE DEF stripped, parsed
  <2> QED BY <2>1 DEF Proxy, stripped, parsed
<1>4. Admission(reg, q.verb, "POST", q.token) = "ok" <=>
        q.verb = "POST" /\ reg # NoValue /\ q.token \in DOMAIN reg
  <2>1. CASE reg = NoValue BY <2>1 DEF Admission
  <2>2. CASE reg # NoValue /\ NoValue \notin DOMAIN reg BY <2>2 DEF Admission
  <2> QED BY <2>1, <2>2
<1>5. q.method \in Allowed => q.method # NoValue
  BY MethodAssumption
<1>6. judged \subseteq {"channel", "ts", "team"} /\ judged \subseteq Param
      /\ \A n \in judged : stripped[n] = parsed[n]
  <2>1. judged \subseteq {"channel", "ts", "team"}
    BY DEF Judged
  <2>2. {"channel", "ts", "team"} \subseteq Param /\ {"channel", "ts", "team"} \cap {"token", "TOKEN"} = {}
    BY DEF Param
  <2> HIDE DEF judged, stripped
  <2> QED BY <1>1, <2>1, <2>2
<1>7. q.method \in Allowed => (SessionRules(q.method, stripped, s) <=> named)
  <2>1. First(stripped, "channel") = First(parsed, "channel")
        /\ First(stripped, "ts") = First(parsed, "ts")
        /\ First(stripped, "team") = First(parsed, "team")
    <3>1. stripped["channel"] = parsed["channel"] /\ stripped["ts"] = parsed["ts"]
          /\ stripped["team"] = parsed["team"]
      BY <1>1 DEF Param
    <3> HIDE DEF stripped, parsed
    <3> QED BY <3>1 DEF First
  <2> DEFINE c == First(parsed, "channel")
             r == First(parsed, "ts")
             t == First(parsed, "team")
  <2>2. named <=> \A n \in judged : Names(IF n = "channel" THEN c ELSE IF n = "ts" THEN r ELSE t, n, s)
    BY <1>6
  <2> HIDE DEF stripped, parsed, s, c, r, t, named
  <2>3. CASE q.method = "conversations.replies"
    BY <2>1, <2>2, <2>3 DEF SessionRules, Names, Judged, judged, c, r, t
  <2>4. CASE q.method \in {"conversations.info", "conversations.history"}
    BY <2>1, <2>2, <2>4 DEF SessionRules, Names, Judged, judged, c, r, t
  <2>5. CASE q.method = "team.info"
    BY <2>1, <2>2, <2>5 DEF SessionRules, Names, Judged, judged, c, r, t
  <2>6. CASE q.method \notin {"conversations.replies", "conversations.info",
                              "conversations.history", "team.info"}
    BY <2>1, <2>2, <2>6 DEF SessionRules, Names, Judged, judged
  <2> QED BY <2>3, <2>4, <2>5, <2>6
<1> HIDE DEF a, stripped, s, named, parsed
<1>8. a.status = "forwarded" <=>
        /\ bot /\ reg # NoValue /\ q.token \in DOMAIN reg
        /\ q.verb = "POST" /\ q.method \in Allowed /\ q.body # "unreadable"
        /\ named
  BY <1>3, <1>4, <1>5, <1>7
<1>9. ASSUME a.status = "forwarded", once
      PROVE  \A n \in judged : \A i \in DOMAIN a.params[n] : Names(a.params[n][i].texts, n, s)
  <2> SUFFICES ASSUME NEW n \in judged, NEW i \in DOMAIN a.params[n]
               PROVE  Names(a.params[n][i].texts, n, s)
    OBVIOUS
  <2>1. a.params[n] = parsed[n] /\ Names(First(parsed, n), n, s) /\ n \in Param
    BY <1>2, <1>6, <1>8, <1>9 DEF named
  <2>2. q.body = "json" \/ Len(q.given[n]) <= 1
    BY <1>9
  <2>3. parsed[n] = <<>> \/ \E v : parsed[n] = <<v>>
    BY <2>1, <2>2, ParsedOnce DEF parsed
  <2>4. i = 1 /\ parsed[n] # <<>>
    BY <2>1, <2>3
  <2>5. First(parsed, n) = parsed[n][1].texts
    BY <2>4 DEF First
  <2> QED BY <2>1, <2>4, <2>5
<1>10. \A n \in Param : a.params[n] = IF n \in {"token", "TOKEN"} THEN <<>> ELSE parsed[n]
  BY <1>1, <1>2
<1> QED BY <1>8, <1>9, <1>10 DEF ProxyKeepsToItsThread, a, s, named, parsed

-----------------------------------------------------------------------------
(* The agent's file.                                                        *)

\* The minimum of a set of places is one of them, and no other is smaller.
LEMMA MinOf ==
  ASSUME NEW n \in Nat, NEW T \in SUBSET (1..n), T # {}
  PROVE  Min(T) \in T /\ \A k \in T : Min(T) <= k
<1> DEFINE S == {k \in Nat : \A U \in SUBSET (1..k) :
                   U # {} => \E m \in U : \A i \in U : m =< i}
<1>1. 0 \in S
  <2>1. 1..0 = {} OBVIOUS
  <2> QED BY <2>1
<1>2. ASSUME NEW k \in Nat, k \in S PROVE k + 1 \in S
  <2> SUFFICES ASSUME NEW U \in SUBSET (1..(k + 1)), U # {}
               PROVE  \E m \in U : \A i \in U : m =< i
    OBVIOUS
  <2>1. CASE U \cap (1..k) # {}
    <3>1. PICK m \in U \cap (1..k) : \A i \in U \cap (1..k) : m =< i
      BY <1>2, <2>1
    <3>2. \A i \in U : m =< i BY <3>1
    <3> QED BY <3>1, <3>2
  <2>2. CASE U \cap (1..k) = {}
    <3>1. U = {k + 1}
      <4>1. \A i \in U : i = k + 1 BY <2>2
      <4> QED BY <2>2, <4>1
    <3> QED BY <3>1
  <2> QED BY <2>1, <2>2
<1>3. n \in S
  <2> HIDE DEF S
  <2> QED BY <1>1, <1>2, Induction
<1>4. \E m \in T : \A i \in T : m =< i
  BY <1>3
<1>5. Min(T) \in T /\ \A i \in T : Min(T) =< i
  BY <1>4 DEF Min
<1> QED BY <1>5

\* u is s, and after it t.
Concats(u, s, t) ==
  /\ Len(u) = Len(s) + Len(t)
  /\ \A i \in 1..Len(s) : u[i] = s[i]
  /\ \A i \in 1..Len(t) : u[Len(s) + i] = t[i]

\* Two sequences, one after the other, element by element.
LEMMA ConcatOf ==
  ASSUME NEW E, NEW s \in Seq(E), NEW t \in Seq(E)
  PROVE  s \o t \in Seq(E) /\ Concats(s \o t, s, t)
<1>1. Len(s) \in Nat /\ Len(t) \in Nat
  BY LenProperties
<1>2. /\ s \o t \in Seq(E) /\ Len(s \o t) = Len(s) + Len(t)
      /\ \A i \in 1..(Len(s) + Len(t)) :
           (s \o t)[i] = IF i <= Len(s) THEN s[i] ELSE t[i - Len(s)]
  BY ConcatProperties
<1>3. ASSUME NEW i \in 1..Len(t) PROVE (s \o t)[Len(s) + i] = t[i]
  <2>1. /\ Len(s) + i \in 1..(Len(s) + Len(t)) /\ ~(Len(s) + i <= Len(s))
        /\ (Len(s) + i) - Len(s) = i
    BY <1>1
  <2>2. (s \o t)[Len(s) + i] = IF Len(s) + i <= Len(s) THEN s[Len(s) + i] ELSE t[(Len(s) + i) - Len(s)]
    BY <1>2, <2>1
  <2> QED BY <2>1, <2>2
<1>4. ASSUME NEW i \in 1..Len(s) PROVE (s \o t)[i] = s[i]
  <2>1. i \in 1..(Len(s) + Len(t)) /\ i <= Len(s) BY <1>1
  <2> QED BY <1>2, <2>1
<1> QED BY <1>1, <1>2, <1>3, <1>4 DEF Concats

\* A trimmed body is a beginning of the body.
LEMMA TrimmedOf ==
  ASSUME NEW Tok, NEW body \in Seq(Tok)
  PROVE  /\ Trimmed(body) \in Seq(Tok)
         /\ Len(Trimmed(body)) <= Len(body)
         /\ \A i \in 1..Len(Trimmed(body)) : Trimmed(body)[i] = body[i]
<1> DEFINE U == {i \in 1..Len(body) : body[i] # LineEnd}
           k == Max({0} \cup U)
<1>1. Len(body) \in Nat
  BY LenProperties
<1>2. k \in 0..Len(body)
  <2>1. \E m \in {0} \cup U : \A i \in {0} \cup U : m >= i
    <3>1. CASE U = {}
      BY <3>1
    <3>2. CASE U # {}
      <4>1. U \in SUBSET (1..Len(body)) OBVIOUS
      <4> HIDE DEF U
      <4>2. Max(U) \in U /\ \A i \in U : i <= Max(U) BY <1>1, <3>2, <4>1, MaxOf
      <4>3. Max(U) \in 1..Len(body) BY <4>1, <4>2
      <4>4. Max(U) \in {0} \cup U /\ \A i \in {0} \cup U : Max(U) >= i
        BY <1>1, <4>1, <4>2, <4>3
      <4> QED BY <4>4
    <3> QED BY <3>1, <3>2
  <2>2. k \in {0} \cup U
    <3> HIDE DEF U
    <3> QED BY <2>1 DEF Max
  <2> HIDE DEF k
  <2> QED BY <1>1, <2>2
<1> HIDE DEF k
<1>3. Trimmed(body) = SubSeq(body, 1, k)
  BY DEF Trimmed, k
<1> QED BY <1>1, <1>2, <1>3, PrefixOf

\* The tokens of the file that are not a message's.
Tokens == {"constraints", "intro", StartMarker, EndMarker, LineEnd, "bot", "api"}

\* What is in front of the context.
Opening == Before \o <<StartMarker, LineEnd>>

\* The four tokens in front of the context.
LEMMA OpeningIs ==
  ASSUME NEW Tok, Tokens \subseteq Tok
  PROVE  /\ Opening \in Seq(Tok) /\ Len(Opening) = 4
         /\ Opening[1] = "constraints" /\ Opening[2] = "intro"
         /\ Opening[3] = StartMarker /\ Opening[4] = LineEnd
<1>1. /\ Before \in Seq(Tok) /\ Len(Before) = 2
      /\ Before[1] = "constraints" /\ Before[2] = "intro"
  BY DEF Before, Tokens
<1> DEFINE two == <<StartMarker, LineEnd>>
<1>2. two \in Seq(Tok) /\ Len(two) = 2 /\ two[1] = StartMarker /\ two[2] = LineEnd
  BY DEF StartMarker, LineEnd, Tokens
<1> HIDE DEF two
<1>3. /\ Before \o two \in Seq(Tok) /\ Len(Before \o two) = 4
      /\ \A i \in 1..2 : (Before \o two)[i] = Before[i]
      /\ \A i \in 1..2 : (Before \o two)[2 + i] = two[i]
  <2>1. Before \o two \in Seq(Tok) /\ Concats(Before \o two, Before, two)
    BY <1>1, <1>2, ConcatOf
  <2> QED BY <1>1, <1>2, <2>1 DEF Concats
<1> QED BY <1>1, <1>2, <1>3 DEF Opening, two

\* A file whose context is x: what follows it is y.
File(x, y) == Opening \o x \o <<LineEnd>> \o y

\* The file f, place by place.
Contents(f, x, y) ==
  /\ Len(f) = 5 + Len(x) + Len(y)
  /\ \A i \in 1..4 : f[i] = Opening[i]
  /\ \A i \in 1..Len(x) : f[4 + i] = x[i]
  /\ f[5 + Len(x)] = LineEnd
  /\ \A i \in 1..Len(y) : f[5 + Len(x) + i] = y[i]

\* The file's length and elements.
LEMMA FileIs ==
  ASSUME NEW Tok, Tokens \subseteq Tok, NEW x \in Seq(Tok), NEW y \in Seq(Tok)
  PROVE  File(x, y) \in Seq(Tok) /\ Contents(File(x, y), x, y)
<1>1. Len(x) \in Nat /\ Len(y) \in Nat
  BY LenProperties
<1> DEFINE nl == <<LineEnd>>
           a == Opening \o x
           b == a \o nl
           f == b \o y
<1> HIDE DEF a, b, f
<1>2. nl \in Seq(Tok) /\ Len(nl) = 1 /\ nl[1] = LineEnd
  BY DEF LineEnd, Tokens
<1> HIDE DEF nl
<1>3. /\ a \in Seq(Tok) /\ Len(a) = 4 + Len(x)
      /\ \A i \in 1..4 : a[i] = Opening[i]
      /\ \A i \in 1..Len(x) : a[4 + i] = x[i]
  <2>1. Opening \in Seq(Tok) /\ Len(Opening) = 4 BY OpeningIs
  <2>2. Opening \o x \in Seq(Tok) /\ Concats(Opening \o x, Opening, x)
    BY <2>1, ConcatOf
  <2> QED BY <2>1, <2>2 DEF Concats, a
<1>4. /\ b \in Seq(Tok) /\ Len(b) = 4 + Len(x) + 1
      /\ \A i \in 1..(4 + Len(x)) : b[i] = a[i]
      /\ \A i \in 1..1 : b[4 + Len(x) + i] = nl[i]
  <2>1. a \o nl \in Seq(Tok) /\ Concats(a \o nl, a, nl)
    BY <1>2, <1>3, ConcatOf
  <2> QED BY <1>2, <1>3, <2>1 DEF Concats, b
<1>5. /\ f \in Seq(Tok) /\ Len(f) = 4 + Len(x) + 1 + Len(y)
      /\ \A i \in 1..(4 + Len(x) + 1) : f[i] = b[i]
      /\ \A i \in 1..Len(y) : f[4 + Len(x) + 1 + i] = y[i]
  <2>1. b \o y \in Seq(Tok) /\ Concats(b \o y, b, y)
    BY <1>4, ConcatOf
  <2> QED BY <1>4, <2>1 DEF Concats, f
<1>6. \A i \in 1..4 : f[i] = Opening[i]
  <2> SUFFICES ASSUME NEW i \in 1..4 PROVE f[i] = Opening[i]
    OBVIOUS
  <2>1. i \in 1..(4 + Len(x)) /\ i \in 1..(4 + Len(x) + 1) BY <1>1
  <2> QED BY <1>3, <1>4, <1>5, <2>1
<1>7. \A i \in 1..Len(x) : f[4 + i] = x[i]
  <2> SUFFICES ASSUME NEW i \in 1..Len(x) PROVE f[4 + i] = x[i]
    OBVIOUS
  <2>1. 4 + i \in 1..(4 + Len(x)) /\ 4 + i \in 1..(4 + Len(x) + 1) BY <1>1
  <2> QED BY <1>3, <1>4, <1>5, <2>1
<1>8. f[5 + Len(x)] = LineEnd
  <2>1. 4 + Len(x) + 1 \in 1..(4 + Len(x) + 1) /\ 5 + Len(x) = 4 + Len(x) + 1 /\ 1 \in 1..1
    BY <1>1
  <2> QED BY <1>2, <1>4, <1>5, <2>1
<1>9. \A i \in 1..Len(y) : f[5 + Len(x) + i] = y[i]
  <2> SUFFICES ASSUME NEW i \in 1..Len(y) PROVE f[5 + Len(x) + i] = y[i]
    OBVIOUS
  <2>1. 5 + Len(x) + i = 4 + Len(x) + 1 + i BY <1>1
  <2> QED BY <1>5, <2>1
<1>10. File(x, y) = f
  BY DEF File, a, b, f, nl
<1>11. Len(f) = 5 + Len(x) + Len(y)
  BY <1>1, <1>5
<1> QED BY <1>5, <1>6, <1>7, <1>8, <1>9, <1>10, <1>11 DEF Contents

\* A file with the opening and, at its end, an end marker and what came after it.
Framed(Tok, tail) ==
  {doc \in Seq(Tok) :
     /\ Len(doc) >= 4 + Len(tail)
     /\ \A i \in 1..4 : doc[i] = Opening[i]
     /\ \A i \in 1..Len(tail) : doc[Len(doc) - Len(tail) + i] = tail[i]}

\* Nothing of the context is an end marker.
Unquoted(doc, tail) == \A i \in 5..(Len(doc) - Len(tail)) : doc[i] # EndMarker

\* new is doc with its context replaced by body: what follows it begins with
\* the first end marker of doc.
Refreshed(new, doc, body, tail) ==
  \E j \in 5..(Len(doc) - Len(tail) + 1) :
    /\ doc[j] = EndMarker
    /\ Unquoted(doc, tail) => j = Len(doc) - Len(tail) + 1
    /\ new = File(Trimmed(body), SubSeq(doc, j, Len(doc)))

\* In a framed file the first start marker and the first line end behind it are
\* the frame's, so the context is replaced from there to the first end marker.
LEMMA RefreshIs ==
  ASSUME NEW Tok, Tokens \subseteq Tok, NEW tail \in Seq(Tok), Len(tail) >= 1, tail[1] = EndMarker,
         NEW doc \in Framed(Tok, tail), NEW body \in Seq(Tok)
  PROVE  Refreshed(Refresh(doc, body), doc, body, tail)
<1>1. /\ doc \in Seq(Tok) /\ Len(doc) \in Nat /\ Len(tail) \in Nat \ {0}
      /\ Len(doc) >= 4 + Len(tail)
      /\ \A i \in 1..4 : doc[i] = Opening[i]
  BY LenProperties DEF Framed
<1>2. doc[1] # StartMarker /\ doc[2] # StartMarker /\ doc[3] = StartMarker /\ doc[4] = LineEnd
  BY <1>1, OpeningIs DEF StartMarker
<1>3. \A i \in 1..4 : doc[i] # EndMarker
  BY <1>1, OpeningIs DEF StartMarker, EndMarker, LineEnd
<1> DEFINE last == Len(doc) - Len(tail) + 1
           j == Min(Places(doc, EndMarker))
<1>4. last \in 5..Len(doc) /\ doc[last] = EndMarker
  <2>1. 1 \in 1..Len(tail) BY <1>1
  <2>2. doc[Len(doc) - Len(tail) + 1] = tail[1] BY <2>1 DEF Framed
  <2> QED BY <1>1, <2>2
<1> HIDE DEF last
<1>5. j \in 5..last /\ doc[j] = EndMarker
  <2>1. Places(doc, EndMarker) \in SUBSET (1..Len(doc)) /\ last \in Places(doc, EndMarker)
    BY <1>1, <1>4 DEF Places
  <2>2. j \in Places(doc, EndMarker) /\ j <= last
    BY <1>1, <2>1, MinOf
  <2> HIDE DEF j
  <2>3. j \in 1..Len(doc) /\ doc[j] = EndMarker BY <2>2 DEF Places
  <2> QED BY <1>1, <1>3, <1>4, <2>2, <2>3
<1>6. Unquoted(doc, tail) => j = last
  <2> SUFFICES ASSUME Unquoted(doc, tail), j # last PROVE FALSE
    OBVIOUS
  <2> HIDE DEF j
  <2>1. j \in 5..(Len(doc) - Len(tail)) BY <1>1, <1>4, <1>5 DEF last
  <2> QED BY <1>5, <2>1 DEF Unquoted
<1>7. Min(Places(doc, StartMarker)) = 3
  <2>1. 3 \in Places(doc, StartMarker) BY <1>1, <1>2 DEF Places
  <2>2. \A i \in Places(doc, StartMarker) : i >= 3 /\ i \in Nat BY <1>1, <1>2 DEF Places
  <2>3. \A m \in Places(doc, StartMarker) :
          (\A i \in Places(doc, StartMarker) : m =< i) <=> m = 3
    BY <2>1, <2>2
  <2> QED BY <2>1, <2>3 DEF Min
<1>8. Min({k \in Places(doc, LineEnd) : k > 3}) = 4
  <2> DEFINE L == {k \in Places(doc, LineEnd) : k > 3}
  <2>1. 4 \in L BY <1>1, <1>2 DEF Places
  <2>2. \A i \in L : i >= 4 /\ i \in Nat BY <1>1 DEF Places
  <2> HIDE DEF L
  <2>3. \A m \in L : (\A i \in L : m =< i) <=> m = 4
    BY <2>1, <2>2
  <2>4. Min(L) = 4 BY <2>1, <2>3 DEF Min
  <2> QED BY <2>4 DEF L
<1>9. Replaceable(doc)
  <2>1. 3 \in Places(doc, StartMarker) /\ last \in Places(doc, EndMarker) /\ 4 \in Places(doc, LineEnd)
    BY <1>1, <1>2, <1>4 DEF Places
  <2>2. 3 < j /\ 4 > 3
    <3> HIDE DEF j
    <3> QED BY <1>4, <1>5
  <2> HIDE DEF j
  <2>3. Min(Places(doc, StartMarker)) < j BY <1>7, <2>2
  <2>4. \E i \in Places(doc, LineEnd) : i > Min(Places(doc, StartMarker))
    BY <1>7, <2>1, <2>2
  <2> QED BY <2>1, <2>3, <2>4 DEF Replaceable, j
<1>10. SubSeq(doc, 1, 4) = Opening
  <2>1. 4 \in 0..Len(doc) BY <1>1
  <2>2. /\ SubSeq(doc, 1, 4) \in Seq(Tok) /\ Len(SubSeq(doc, 1, 4)) = 4
        /\ \A i \in 1..4 : SubSeq(doc, 1, 4)[i] = doc[i]
    BY <1>1, <2>1, PrefixOf
  <2> QED BY <1>1, <2>2, OpeningIs, SeqEqual
<1>11. Refresh(doc, body) = Replaced(doc, body)
  BY <1>9 DEF Refresh
<1>12. Replaced(doc, body) = SubSeq(doc, 1, 4) \o Trimmed(body) \o <<LineEnd>> \o SubSeq(doc, j, Len(doc))
  BY <1>7, <1>8 DEF Replaced
<1>13. Refresh(doc, body) = File(Trimmed(body), SubSeq(doc, j, Len(doc)))
  <2> HIDE DEF j
  <2> QED BY <1>10, <1>11, <1>12 DEF File
<1> HIDE DEF j
<1> QED BY <1>5, <1>6, <1>13 DEF last, Refreshed

\* The last elements, from the j-th on.
LEMMA SuffixOf ==
  ASSUME NEW Tok, NEW s \in Seq(Tok), NEW j \in 1..Len(s)
  PROVE  /\ SubSeq(s, j, Len(s)) \in Seq(Tok)
         /\ Len(SubSeq(s, j, Len(s))) = Len(s) - j + 1
         /\ \A i \in 1..(Len(s) - j + 1) : SubSeq(s, j, Len(s))[i] = s[j + i - 1]
<1>1. Len(s) \in Nat
  BY LenProperties
<1>2. \A i \in j..Len(s) : s[i] \in Tok
  <2> SUFFICES ASSUME NEW i \in j..Len(s) PROVE s[i] \in Tok
    OBVIOUS
  <2>1. i \in 1..Len(s) BY <1>1
  <2> QED BY <2>1, ElementOfSeq
<1>3. /\ SubSeq(s, j, Len(s)) \in Seq(Tok)
      /\ Len(SubSeq(s, j, Len(s))) = IF j <= Len(s) THEN Len(s) - j + 1 ELSE 0
      /\ \A i \in 1..(Len(s) - j + 1) : SubSeq(s, j, Len(s))[i] = s[j + i - 1]
  BY <1>1, <1>2, SubSeqProperties
<1> QED BY <1>1, <1>3

\* A refreshed file is framed again, and without a quoted end marker if the body
\* has none and the file had none.
LEMMA RefreshType ==
  ASSUME NEW Tok, Tokens \subseteq Tok, NEW tail \in Seq(Tok), Len(tail) >= 1, tail[1] = EndMarker,
         NEW doc \in Framed(Tok, tail), NEW body \in Seq(Tok)
  PROVE  /\ Refresh(doc, body) \in Framed(Tok, tail)
         /\ Unquoted(doc, tail) /\ Places(body, EndMarker) = {} =>
              Unquoted(Refresh(doc, body), tail)
<1>1. /\ doc \in Seq(Tok) /\ Len(doc) \in Nat /\ Len(tail) \in Nat \ {0}
      /\ Len(doc) >= 4 + Len(tail)
      /\ \A i \in 1..Len(tail) : doc[Len(doc) - Len(tail) + i] = tail[i]
  BY LenProperties DEF Framed
<1>2. PICK j \in 5..(Len(doc) - Len(tail) + 1) :
           /\ Unquoted(doc, tail) => j = Len(doc) - Len(tail) + 1
           /\ Refresh(doc, body) = File(Trimmed(body), SubSeq(doc, j, Len(doc)))
  BY RefreshIs DEF Refreshed
<1> DEFINE x == Trimmed(body)
           y == SubSeq(doc, j, Len(doc))
           f == File(x, y)
<1>3. x \in Seq(Tok) /\ Len(x) \in Nat /\ Len(x) <= Len(body) /\ \A i \in 1..Len(x) : x[i] = body[i]
  BY TrimmedOf, LenProperties
<1>4. j \in 1..Len(doc)
  BY <1>1
<1>5. /\ y \in Seq(Tok) /\ Len(y) = Len(doc) - j + 1
      /\ \A i \in 1..(Len(doc) - j + 1) : y[i] = doc[j + i - 1]
  BY <1>1, <1>4, SuffixOf, SMTT(60)
<1> HIDE DEF x, y
<1>6. /\ f \in Seq(Tok) /\ Len(f) = 5 + Len(x) + Len(y)
      /\ \A i \in 1..4 : f[i] = Opening[i]
      /\ \A i \in 1..Len(x) : f[4 + i] = x[i]
      /\ f[5 + Len(x)] = LineEnd
      /\ \A i \in 1..Len(y) : f[5 + Len(x) + i] = y[i]
  <2>1. y \in Seq(Tok) BY <1>5
  <2>2. x \in Seq(Tok) BY <1>3
  <2>3. File(x, y) \in Seq(Tok) /\ Contents(File(x, y), x, y)
    BY <2>1, <2>2, FileIs
  <2> QED BY <2>3 DEF Contents, f
<1> HIDE DEF f
<1>7. Len(f) - Len(tail) >= 5 + Len(x)
  BY <1>1, <1>3, <1>4, <1>5, <1>6
<1>8. ASSUME NEW i \in 1..Len(tail) PROVE f[Len(f) - Len(tail) + i] = tail[i]
  <2> DEFINE h == Len(y) - Len(tail) + i
  <2>1. h \in 1..Len(y) /\ Len(f) - Len(tail) + i = 5 + Len(x) + h
    BY <1>1, <1>3, <1>4, <1>5, <1>6
  <2>2. f[5 + Len(x) + h] = y[h] BY <1>6, <2>1
  <2>3. y[h] = doc[j + h - 1] BY <1>5, <2>1
  <2>4. j + h - 1 = Len(doc) - Len(tail) + i BY <1>1, <1>4, <1>5
  <2> QED BY <1>1, <2>1, <2>2, <2>3, <2>4
<1>9. f \in Framed(Tok, tail)
  <2>1. Len(f) >= 4 + Len(tail) BY <1>1, <1>3, <1>6, <1>7
  <2>2. \A i \in 1..Len(tail) : f[Len(f) - Len(tail) + i] = tail[i] BY <1>8
  <2> QED BY <1>6, <2>1, <2>2 DEF Framed
<1>10. ASSUME Unquoted(doc, tail), Places(body, EndMarker) = {}
       PROVE  Unquoted(f, tail)
  <2>1. Len(y) = Len(tail)
    BY <1>1, <1>2, <1>5, <1>10
  <2> SUFFICES ASSUME NEW i \in 5..(Len(f) - Len(tail)) PROVE f[i] # EndMarker
    BY DEF Unquoted
  <2>2. i \in 5..(5 + Len(x)) BY <1>1, <1>3, <1>6, <2>1
  <2>3. CASE i = 5 + Len(x)
    BY <1>6, <2>3 DEF LineEnd, EndMarker
  <2>4. CASE i # 5 + Len(x)
    <3>1. (i - 4) \in 1..Len(x) /\ i = 4 + (i - 4) BY <1>3, <2>2, <2>4
    <3>2. f[i] = x[i - 4] BY <1>6, <3>1
    <3>3. x[i - 4] = body[i - 4] /\ (i - 4) \in 1..Len(body)
      <4>1. Len(body) \in Nat BY LenProperties
      <4> QED BY <1>3, <3>1, <4>1
    <3> QED BY <1>10, <3>2, <3>3 DEF Places
  <2> QED BY <2>3, <2>4
<1> QED BY <1>2, <1>9, <1>10 DEF f, x, y

\* The file after each of the bodies.
Updates(r, b, bodies, F) ==
  /\ r \in [0..Len(bodies) -> F]
  /\ r[0] = b
  /\ \A n \in 1..Len(bodies) : r[n] = Refresh(r[n - 1], bodies[n])
  /\ RefreshAll(b, bodies) = r[Len(bodies)]

\* The bodies are written one after the other.
LEMMA RefreshRun ==
  ASSUME NEW Tok, Tokens \subseteq Tok,
         NEW tail \in Seq(Tok), Len(tail) >= 1, tail[1] = EndMarker,
         NEW b \in Framed(Tok, tail), NEW s \in Seq(Seq(Tok))
  PROVE  \E r : Updates(r, b, s, Framed(Tok, tail))
<1> DEFINE F == [p \in Framed(Tok, tail) \X Seq(Tok) |-> Refresh(p[1], p[2])]
           Step(g) == [T \in SUBSET DOMAIN s |->
                         IF T = {} THEN b ELSE Refresh(g[T \ {Max(T)}], s[Max(T)])]
           it == CHOOSE g : g = Step(g)
<1>1. Len(s) \in Nat /\ DOMAIN s = 1..Len(s)
  BY LenProperties
<1>2. ASSUME NEW x \in Framed(Tok, tail), NEW y \in Seq(Tok) PROVE Refresh(x, y) \in Framed(Tok, tail)
  BY RefreshType
<1>3. F \in [Framed(Tok, tail) \X Seq(Tok) -> Framed(Tok, tail)]
  BY <1>2
<1>4. ASSUME NEW x \in Framed(Tok, tail), NEW y \in Seq(Tok) PROVE F[<<x, y>>] = Refresh(x, y)
  OBVIOUS
<1>5. ASSUME NEW T \in SUBSET (1..Len(s)), T # {} PROVE s[Max(T)] \in Seq(Tok)
  <2>1. Max(T) \in 1..Len(s) BY <1>1, <1>5, MaxOf
  <2> QED BY <2>1, ElementOfSeq
<1>b. b \in Framed(Tok, tail)
  OBVIOUS
<1> HIDE DEF F
<1>6. \E g : g = Step(g)
  <2>1. PICK g \in [SUBSET (1..Len(s)) -> Framed(Tok, tail)] : IsFold(g, F, b, s)
    BY <1>3, <1>b, FoldExists
  <2>2. ASSUME NEW T \in SUBSET (1..Len(s)), T # {}
        PROVE  F[<<g[T \ {Max(T)}], s[Max(T)]>>] = Refresh(g[T \ {Max(T)}], s[Max(T)])
    BY <1>4, <1>5, <2>2
  <2>3. g = Step(g) BY <1>1, <2>1, <2>2 DEF IsFold
  <2> QED BY <2>3
<1>7. it = Step(it)
  <2> HIDE DEF Step
  <2> QED BY <1>6
<1>8. RefreshAll(b, s) = it[DOMAIN s]
  BY DEF FoldLeft, MapThenFoldSet, RefreshAll
<1> HIDE DEF it
<1>9. Folds(it, Framed(Tok, tail), F, b, s)
  <2>1. ASSUME NEW T \in SUBSET (1..Len(s))
        PROVE  it[T] = IF T = {} THEN b ELSE Refresh(it[T \ {Max(T)}], s[Max(T)])
    BY <1>1, <1>7
  <2> QED BY <1>4, <1>5, <2>1 DEF Folds
<1>10. PICK r \in [0..Len(s) -> Framed(Tok, tail)] : Path(r, it, F, b, s)
  BY <1>3, <1>9, <1>b, FoldPath
<1>11. ASSUME NEW n \in 1..Len(s) PROVE r[n] = Refresh(r[n - 1], s[n])
  <2>0. n - 1 \in 0..Len(s) BY <1>1
  <2>1. r[n - 1] \in Framed(Tok, tail) BY <2>0
  <2>2. s[n] \in Seq(Tok) BY ElementOfSeq
  <2>3. r[n] = F[<<r[n - 1], s[n]>>] BY <1>10 DEF Path
  <2>4. F[<<r[n - 1], s[n]>>] = Refresh(r[n - 1], s[n]) BY <1>4, <2>1, <2>2
  <2> QED BY <2>3, <2>4
<1>12. r[0] = b /\ RefreshAll(b, s) = r[Len(s)]
  <2>1. r[0] = b BY <1>10 DEF Path
  <2>2. r[Len(s)] = it[1..Len(s)]
    <3>1. Len(s) \in 0..Len(s) BY <1>1
    <3> QED BY <1>10, <3>1 DEF Path
  <2> QED BY <1>1, <1>8, <2>1, <2>2
<1> QED BY <1>10, <1>11, <1>12 DEF Updates

\* What is behind the end marker is a sequence of tokens.
LEMMA AfterIs ==
  ASSUME NEW Tok, Tokens \subseteq Tok, NEW bot \in BOOLEAN, NEW api \in BOOLEAN,
         NEW appendix \in Seq(Tok)
  PROVE  /\ After(bot, api, appendix) \in Seq(Tok) /\ Len(After(bot, api, appendix)) >= 1
<1> DEFINE nls == <<LineEnd, LineEnd>>
           b == IF bot THEN <<"bot">> ELSE <<>>
           a == IF api THEN <<"api">> ELSE <<>>
<1>1. nls \in Seq(Tok) /\ Len(nls) = 2 /\ b \in Seq(Tok) /\ a \in Seq(Tok)
  BY DEF Tokens
<1>2. After(bot, api, appendix) = ((nls \o b) \o a) \o appendix
  BY DEF After
<1> HIDE DEF nls, b, a
<1>3. nls \o b \in Seq(Tok) /\ Concats(nls \o b, nls, b)
  BY <1>1, ConcatOf
<1>4. (nls \o b) \o a \in Seq(Tok) /\ Concats((nls \o b) \o a, nls \o b, a)
  BY <1>1, <1>3, ConcatOf
<1>5. /\ ((nls \o b) \o a) \o appendix \in Seq(Tok)
      /\ Concats(((nls \o b) \o a) \o appendix, (nls \o b) \o a, appendix)
  BY <1>4, ConcatOf
<1>6. Len(b) \in Nat /\ Len(a) \in Nat /\ Len(appendix) \in Nat
  BY <1>1, LenProperties
<1>7. Len(nls \o b) = 2 + Len(b)
  BY <1>1, <1>3 DEF Concats
<1>8. Len((nls \o b) \o a) = 2 + Len(b) + Len(a)
  BY <1>4, <1>7 DEF Concats
<1>9. Len(After(bot, api, appendix)) = 2 + Len(b) + Len(a) + Len(appendix)
  BY <1>2, <1>5, <1>8 DEF Concats
<1> QED BY <1>2, <1>5, <1>6, <1>9

\* CreateSessionWorkspace writes a framed file, with nothing quoted in it.
LEMMA NewDocIs ==
  ASSUME NEW Tok, Tokens \subseteq Tok, NEW bot \in BOOLEAN, NEW api \in BOOLEAN,
         NEW appendix \in Seq(Tok), NEW after, after = After(bot, api, appendix),
         NEW tail \in Seq(Tok), Concats(tail, <<EndMarker>>, after)
  PROVE  NewDoc(bot, api, appendix) \in Framed(Tok, tail)
         /\ Unquoted(NewDoc(bot, api, appendix), tail)
<1> DEFINE four == <<StartMarker, LineEnd, LineEnd, EndMarker>>
           front == Before \o four
           doc == front \o after
<1>1. /\ four \in Seq(Tok) /\ Len(four) = 4 /\ four[1] = StartMarker /\ four[2] = LineEnd
      /\ four[3] = LineEnd /\ four[4] = EndMarker
  BY DEF Tokens
<1>2. /\ Before \in Seq(Tok) /\ Len(Before) = 2
      /\ Before[1] = "constraints" /\ Before[2] = "intro"
  BY DEF Before, Tokens
<1>3. after \in Seq(Tok) /\ Len(after) \in Nat
  BY AfterIs, LenProperties
<1> HIDE DEF four, front, doc
<1>4. Before \o four \in Seq(Tok) /\ Concats(Before \o four, Before, four)
  BY <1>1, <1>2, ConcatOf
<1>5. /\ front \in Seq(Tok) /\ Len(front) = 6
      /\ front[1] = "constraints" /\ front[2] = "intro" /\ front[3] = StartMarker
      /\ front[4] = LineEnd /\ front[5] = LineEnd /\ front[6] = EndMarker
  <2>1. /\ Len(front) = 6
        /\ \A i \in 1..2 : front[i] = Before[i]
        /\ \A i \in 1..4 : front[2 + i] = four[i]
    BY <1>1, <1>2, <1>4, SMTT(60) DEF Concats, front
  <2>2. front[2 + 1] = four[1] /\ front[2 + 2] = four[2] /\ front[2 + 3] = four[3] /\ front[2 + 4] = four[4]
    BY <2>1
  <2>3. front[3] = four[1] /\ front[4] = four[2] /\ front[5] = four[3] /\ front[6] = four[4]
    BY <2>2
  <2> QED BY <1>1, <1>2, <1>4, <2>1, <2>3 DEF front
<1>6. front \o after \in Seq(Tok) /\ Concats(front \o after, front, after)
  BY <1>3, <1>5, ConcatOf
<1>7. /\ doc \in Seq(Tok) /\ Len(doc) = 6 + Len(after)
      /\ \A i \in 1..6 : doc[i] = front[i]
      /\ \A i \in 1..Len(after) : doc[6 + i] = after[i]
  BY <1>5, <1>6 DEF Concats, doc
<1> DEFINE one == <<EndMarker>>
<1>8. /\ Len(tail) = 1 + Len(after) /\ tail[1] = EndMarker
      /\ \A i \in 1..Len(after) : tail[1 + i] = after[i]
  <2>1. Len(one) = 1 /\ one[1] = EndMarker OBVIOUS
  <2>2. Concats(tail, one, after) OBVIOUS
  <2> HIDE DEF one
  <2> QED BY <2>1, <2>2 DEF Concats
<1>9. \A i \in 1..4 : doc[i] = Opening[i]
  <2>1. /\ Opening[1] = "constraints" /\ Opening[2] = "intro"
        /\ Opening[3] = StartMarker /\ Opening[4] = LineEnd
    BY OpeningIs
  <2> QED BY <1>5, <1>7, <2>1
<1>10. \A i \in 1..Len(tail) : doc[Len(doc) - Len(tail) + i] = tail[i]
  <2> SUFFICES ASSUME NEW i \in 1..Len(tail) PROVE doc[Len(doc) - Len(tail) + i] = tail[i]
    OBVIOUS
  <2>1. Len(doc) - Len(tail) + i = 5 + i BY <1>3, <1>7, <1>8
  <2>2. CASE i = 1
    <3>1. Len(doc) - Len(tail) + i = 6 BY <2>1, <2>2
    <3> QED BY <1>5, <1>7, <1>8, <2>2, <3>1
  <2>3. CASE i # 1
    <3>1. (i - 1) \in 1..Len(after) /\ 1 + (i - 1) = i /\ 6 + (i - 1) = 5 + i
      BY <1>3, <1>8, <2>3
    <3>2. doc[6 + (i - 1)] = after[i - 1] /\ tail[1 + (i - 1)] = after[i - 1]
      BY <1>7, <1>8, <3>1
    <3> QED BY <2>1, <3>1, <3>2
  <2> QED BY <2>2, <2>3
<1>11. doc \in Framed(Tok, tail)
  <2>1. Len(doc) >= 4 + Len(tail) BY <1>3, <1>7, <1>8
  <2> QED BY <1>7, <1>9, <1>10, <2>1 DEF Framed
<1>12. Unquoted(doc, tail)
  <2>1. Len(doc) - Len(tail) = 5 BY <1>3, <1>7, <1>8
  <2>2. doc[5] # EndMarker BY <1>5, <1>7 DEF LineEnd, EndMarker
  <2> QED BY <2>1, <2>2 DEF Unquoted
<1>13. NewDoc(bot, api, appendix) = doc
  BY DEF NewDoc, doc, front, four
<1> QED BY <1>11, <1>12, <1>13

\* For every user appendix and every sequence of context updates, whatever they
\* quote: the file keeps its opening and what follows the context, and its
\* context begins with the latest body; with nothing quoted it is only that.
THEOREM ContextIsKept ==
  ASSUME NEW Tok, Tokens \subseteq Tok, NEW bot \in BOOLEAN, NEW api \in BOOLEAN,
         NEW appendix \in Seq(Tok), NEW bodies \in Seq(Seq(Tok)), bodies # <<>>
  PROVE  ContextIsTheLatest(bot, api, appendix, bodies)
<1> DEFINE after == After(bot, api, appendix)
           one == <<EndMarker>>
           tail == one \o after
           new == NewDoc(bot, api, appendix)
           N == Len(bodies)
<1>1. N \in Nat \ {0}
  BY LenProperties, EmptySeq
<1>2. after \in Seq(Tok) /\ Len(after) \in Nat /\ Len(after) >= 1
  BY AfterIs, LenProperties
<1>3. one \in Seq(Tok) /\ Len(one) = 1 /\ one[1] = EndMarker
  BY DEF Tokens
<1> HIDE DEF after, one, tail, new
<1>4. one \o after \in Seq(Tok) /\ Concats(one \o after, one, after)
  BY <1>2, <1>3, ConcatOf
<1>5. /\ tail \in Seq(Tok) /\ Len(tail) = 1 + Len(after) /\ tail[1] = EndMarker
      /\ \A i \in 1..Len(after) : tail[1 + i] = after[i]
  <2>1. /\ Len(tail) = 1 + Len(after) /\ \A i \in 1..1 : tail[i] = one[i]
        /\ \A i \in 1..Len(after) : tail[1 + i] = after[i]
    BY <1>3, <1>4 DEF tail, Concats
  <2> QED BY <1>3, <1>4, <2>1 DEF tail
<1>6. Len(tail) >= 1
  BY <1>2, <1>5
<1>7. new \in Framed(Tok, tail) /\ Unquoted(new, tail)
  <2>1. Concats(tail, <<EndMarker>>, after) /\ tail \in Seq(Tok) BY <1>4 DEF tail, one
  <2> QED BY <2>1, NewDocIs DEF after, new
<1>8. PICK r : Updates(r, new, bodies, Framed(Tok, tail))
  BY <1>5, <1>6, <1>7, RefreshRun
<1>9. /\ r \in [0..N -> Framed(Tok, tail)]
      /\ r[0] = new
      /\ \A n \in 1..N : r[n] = Refresh(r[n - 1], bodies[n])
      /\ RefreshAll(new, bodies) = r[N]
  BY <1>8 DEF Updates
<1> DEFINE quoted == \E i \in 1..N : Places(bodies[i], EndMarker) # {}
           old == r[N - 1]
           body == bodies[N]
           latest == Trimmed(body)
           doc == RefreshAll(new, bodies)
<1>10. ASSUME ~quoted PROVE Unquoted(old, tail)
  <2> DEFINE S == {n \in Nat : n < N => Unquoted(r[n], tail)}
  <2>1. 0 \in S BY <1>7, <1>9
  <2>2. ASSUME NEW n \in Nat, n \in S PROVE n + 1 \in S
    <3> SUFFICES ASSUME n + 1 < N PROVE Unquoted(r[n + 1], tail)
      OBVIOUS
    <3>1. n \in 0..N /\ n + 1 \in 1..N /\ (n + 1) - 1 = n /\ n < N BY <1>1
    <3>2. r[n] \in Framed(Tok, tail) /\ Unquoted(r[n], tail) BY <1>9, <2>2, <3>1
    <3>3. r[n + 1] = Refresh(r[n], bodies[n + 1]) BY <1>9, <3>1
    <3>4. bodies[n + 1] \in Seq(Tok) BY <3>1, ElementOfSeq
    <3>5. Places(bodies[n + 1], EndMarker) = {} BY <1>10, <3>1
    <3>6. Unquoted(r[n], tail) /\ Places(bodies[n + 1], EndMarker) = {} =>
            Unquoted(Refresh(r[n], bodies[n + 1]), tail)
      BY <1>5, <1>6, <3>2, <3>4, RefreshType
    <3> QED BY <3>2, <3>3, <3>5, <3>6
  <2>3. N - 1 \in S
    <3> HIDE DEF S
    <3>1. N - 1 \in Nat BY <1>1
    <3> QED BY <2>1, <2>2, <3>1, Induction
  <2> QED BY <1>1, <2>3
<1>11. old \in Framed(Tok, tail) /\ body \in Seq(Tok) /\ doc = Refresh(old, body)
  <2>1. N \in 1..N /\ N - 1 \in 0..N BY <1>1
  <2> QED BY <1>9, <2>1, ElementOfSeq
<1> HIDE DEF old, body, doc, quoted
<1>12. doc \in Framed(Tok, tail)
  BY <1>5, <1>6, <1>11, RefreshType
<1>13. PICK j \in 5..(Len(old) - Len(tail) + 1) :
           /\ old[j] = EndMarker
           /\ Unquoted(old, tail) => j = Len(old) - Len(tail) + 1
           /\ doc = File(latest, SubSeq(old, j, Len(old)))
  <2>1. Refreshed(Refresh(old, body), old, body, tail)
    BY <1>5, <1>6, <1>11, RefreshIs
  <2> QED BY <1>11, <2>1 DEF Refreshed
<1> DEFINE y == SubSeq(old, j, Len(old))
<1>14. /\ old \in Seq(Tok) /\ Len(old) \in Nat /\ Len(old) >= 4 + Len(tail)
       /\ \A i \in 1..Len(tail) : old[Len(old) - Len(tail) + i] = tail[i]
       /\ doc \in Seq(Tok) /\ Len(doc) \in Nat /\ Len(doc) >= 4 + Len(tail)
       /\ \A i \in 1..Len(tail) : doc[Len(doc) - Len(tail) + i] = tail[i]
  BY <1>11, <1>12, LenProperties DEF Framed
<1>15. /\ y \in Seq(Tok) /\ Len(y) = Len(old) - j + 1
       /\ \A i \in 1..(Len(old) - j + 1) : y[i] = old[j + i - 1]
  <2>1. j \in 1..Len(old) BY <1>2, <1>5, <1>14
  <2> QED BY <1>14, <2>1, SuffixOf
<1>16. Len(y) >= Len(tail) /\ Len(y) \in Nat /\ y[1] = EndMarker
  <2>1. Len(y) >= Len(tail) /\ Len(y) \in Nat BY <1>2, <1>5, <1>14, <1>15
  <2>2. 1 \in 1..(Len(old) - j + 1) /\ j + 1 - 1 = j BY <1>2, <1>5, <1>14
  <2>3. y[1] = old[j] BY <1>15, <2>2
  <2> QED BY <1>13, <2>1, <2>3
<1> HIDE DEF y, latest
<1>17. latest \in Seq(Tok) /\ Len(latest) \in Nat
  BY <1>11, TrimmedOf, LenProperties DEF latest
<1>18. Contents(doc, latest, y)
  BY <1>13, <1>15, <1>17, FileIs DEF y
<1> DEFINE two == <<LineEnd, EndMarker>>
           front == Opening \o latest
           head == front \o two
<1>19. two \in Seq(Tok) /\ Len(two) = 2 /\ two[1] = LineEnd /\ two[2] = EndMarker
  BY DEF Tokens
<1> HIDE DEF two, front, head
<1>20. Opening \in Seq(Tok) /\ Len(Opening) = 4
  BY OpeningIs
<1>21. /\ front \in Seq(Tok) /\ Len(front) = 4 + Len(latest)
       /\ \A i \in 1..4 : front[i] = Opening[i]
       /\ \A i \in 1..Len(latest) : front[4 + i] = latest[i]
  <2>1. Opening \o latest \in Seq(Tok) /\ Concats(Opening \o latest, Opening, latest)
    BY <1>17, <1>20, ConcatOf
  <2> QED BY <1>20, <2>1 DEF Concats, front
<1>22. /\ head \in Seq(Tok) /\ Len(head) = 6 + Len(latest)
       /\ \A i \in 1..(4 + Len(latest)) : head[i] = front[i]
       /\ head[5 + Len(latest)] = LineEnd /\ head[6 + Len(latest)] = EndMarker
  <2>1. front \o two \in Seq(Tok) /\ Concats(front \o two, front, two)
    BY <1>19, <1>21, ConcatOf
  <2>2. /\ head \in Seq(Tok) /\ Len(head) = 4 + Len(latest) + 2
        /\ \A i \in 1..(4 + Len(latest)) : head[i] = front[i]
        /\ \A i \in 1..2 : head[4 + Len(latest) + i] = two[i]
    BY <1>19, <1>21, <2>1 DEF Concats, head
  <2>3. head[4 + Len(latest) + 1] = two[1] /\ head[4 + Len(latest) + 2] = two[2]
    BY <2>2
  <2>4. 4 + Len(latest) + 1 = 5 + Len(latest) /\ 4 + Len(latest) + 2 = 6 + Len(latest)
    BY <1>17
  <2> QED BY <1>19, <2>2, <2>3, <2>4
<1>23. ASSUME NEW i \in 1..Len(head) PROVE doc[i] = head[i]
  <2>1. /\ \A h \in 1..4 : doc[h] = Opening[h]
        /\ \A h \in 1..Len(latest) : doc[4 + h] = latest[h]
        /\ doc[5 + Len(latest)] = LineEnd
        /\ \A h \in 1..Len(y) : doc[5 + Len(latest) + h] = y[h]
    BY <1>18 DEF Contents
  <2>2. CASE i \in 1..4
    <3>1. i \in 1..(4 + Len(latest)) BY <1>17, <2>2
    <3> QED BY <1>21, <1>22, <2>1, <2>2, <3>1
  <2>3. CASE i \in 5..(4 + Len(latest))
    <3>1. (i - 4) \in 1..Len(latest) /\ 4 + (i - 4) = i /\ i \in 1..(4 + Len(latest)) BY <1>17, <2>3
    <3>2. doc[4 + (i - 4)] = latest[i - 4] /\ front[4 + (i - 4)] = latest[i - 4]
      BY <1>21, <2>1, <3>1
    <3> QED BY <1>22, <3>1, <3>2
  <2>4. CASE i = 5 + Len(latest)
    BY <1>22, <2>1, <2>4
  <2>5. CASE i = 6 + Len(latest)
    <3>1. 1 \in 1..Len(y) /\ 5 + Len(latest) + 1 = 6 + Len(latest) BY <1>6, <1>16, <1>17, <1>2, <1>5
    <3> QED BY <1>16, <1>22, <2>1, <2>5, <3>1
  <2>6. i \in 1..4 \/ i \in 5..(4 + Len(latest)) \/ i = 5 + Len(latest) \/ i = 6 + Len(latest)
    <3>1. Len(head) = 6 + Len(latest) BY <1>22
    <3>2. i \in Int /\ 1 <= i /\ i <= 6 + Len(latest) BY <1>17, <3>1
    <3>3. \A n \in Nat : \A h \in Int : 1 <= h /\ h <= 6 + n =>
            h \in 1..4 \/ h \in 5..(4 + n) \/ h = 5 + n \/ h = 6 + n
      OBVIOUS
    <3> QED BY <1>17, <3>2, <3>3
  <2> QED BY <2>2, <2>3, <2>4, <2>5, <2>6
<1>24. Len(doc) = 5 + Len(latest) + Len(y)
  BY <1>18 DEF Contents
<1>25. SubSeq(doc, 1, Len(head)) = head
  <2>1. Len(head) \in 0..Len(doc) BY <1>2, <1>5, <1>16, <1>17, <1>22, <1>24
  <2>2. /\ SubSeq(doc, 1, Len(head)) \in Seq(Tok) /\ Len(SubSeq(doc, 1, Len(head))) = Len(head)
        /\ \A i \in 1..Len(head) : SubSeq(doc, 1, Len(head))[i] = doc[i]
    BY <1>14, <2>1, PrefixOf
  <2>3. \A i \in 1..Len(head) : SubSeq(doc, 1, Len(head))[i] = head[i]
    BY <1>23, <2>2
  <2> QED BY <1>22, <2>2, <2>3, SeqEqual
<1>26. ASSUME NEW i \in 1..Len(after) PROVE doc[Len(doc) - Len(after) + i] = after[i]
  <2>1. 1 + i \in 1..Len(tail) /\ Len(doc) - Len(tail) + (1 + i) = Len(doc) - Len(after) + i
    BY <1>2, <1>5, <1>14
  <2> QED BY <1>5, <1>14, <2>1
<1>27. SubSeq(doc, Len(doc) - Len(after) + 1, Len(doc)) = after
  <2> DEFINE p == Len(doc) - Len(after) + 1
             z == SubSeq(doc, p, Len(doc))
  <2>1. p \in 1..Len(doc) BY <1>2, <1>5, <1>14
  <2>2. /\ z \in Seq(Tok) /\ Len(z) = Len(doc) - p + 1
        /\ \A i \in 1..(Len(doc) - p + 1) : z[i] = doc[p + i - 1]
    BY <1>14, <2>1, SuffixOf
  <2> HIDE DEF z
  <2>3. Len(z) = Len(after) BY <1>2, <1>14, <2>2
  <2>4. \A i \in 1..Len(after) : z[i] = after[i]
    <3> SUFFICES ASSUME NEW i \in 1..Len(after) PROVE z[i] = after[i]
      OBVIOUS
    <3>1. i \in 1..(Len(doc) - p + 1) /\ p + i - 1 = Len(doc) - Len(after) + i BY <1>2, <1>14
    <3> QED BY <1>26, <2>2, <3>1
  <2>5. z = after
    BY <1>2, <2>2, <2>3, <2>4, SeqEqual
  <2> QED BY <2>5 DEF z
<1>28. ASSUME ~quoted PROVE doc = head \o after
  <2>0. j = Len(old) - Len(tail) + 1
    BY <1>10, <1>13, <1>28
  <2>1. Len(y) = Len(tail)
    BY <1>2, <1>5, <1>14, <1>15, <2>0
  <2>2. Len(doc) = Len(head) + Len(after) /\ Len(head) \in Nat
    BY <1>2, <1>5, <1>17, <1>22, <1>24, <2>1
  <2>3. head \o after \in Seq(Tok) /\ Concats(head \o after, head, after)
    BY <1>2, <1>22, ConcatOf
  <2> DEFINE z == head \o after
  <2>4. /\ Len(z) = Len(head) + Len(after)
        /\ \A i \in 1..Len(head) : z[i] = head[i]
        /\ \A i \in 1..Len(after) : z[Len(head) + i] = after[i]
    BY <2>3 DEF Concats
  <2>5. z \in Seq(Tok) BY <2>3
  <2> HIDE DEF z
  <2>6. \A i \in 1..Len(doc) : doc[i] = z[i]
    <3> SUFFICES ASSUME NEW i \in 1..Len(doc) PROVE doc[i] = z[i]
      OBVIOUS
    <3>1. CASE i \in 1..Len(head)
      BY <1>23, <2>4, <3>1
    <3>2. CASE i \notin 1..Len(head)
      <4>1. (i - Len(head)) \in 1..Len(after) /\ Len(head) + (i - Len(head)) = i
        BY <1>2, <2>2, <3>2
      <4>2. Len(doc) - Len(after) + (i - Len(head)) = i BY <1>2, <2>2
      <4>3. doc[Len(doc) - Len(after) + (i - Len(head))] = after[i - Len(head)] BY <1>26, <4>1
      <4>4. z[Len(head) + (i - Len(head))] = after[i - Len(head)] BY <2>4, <4>1
      <4> QED BY <4>1, <4>2, <4>3, <4>4
    <3> QED BY <3>1, <3>2
  <2>7. doc = z
    BY <1>14, <2>2, <2>4, <2>5, <2>6, SeqEqual
  <2> QED BY <2>7 DEF z
<1>29. head = Before \o <<StartMarker, LineEnd>> \o latest \o <<LineEnd, EndMarker>>
  BY DEF head, front, two, Opening
<1> QED
  BY <1>25, <1>27, <1>28, <1>29 DEF ContextIsTheLatest, doc, latest, after, quoted, body, new

-----------------------------------------------------------------------------
(* The runs' inputs are inputs of the lemmas.                               *)

\* The pieces of a flattened sequence may be of any length.
LEMMA FlattenType ==
  ASSUME NEW E, NEW seqs \in Seq(Seq(E))
  PROVE  FlattenSeq(seqs) \in Seq(E)
<1> DEFINE F == [p \in Seq(E) \X Seq(E) |-> p[1] \o p[2]]
           N == Len(seqs)
           Flat(f) == [i \in 1..N |-> IF i = 1 THEN seqs[i] ELSE f[i - 1] \o seqs[i]]
           it == CHOOSE f : f = Flat(f)
<1>1. N \in Nat /\ \A i \in 1..N : seqs[i] \in Seq(E)
  BY LenProperties, ElementOfSeq
<1>2. CASE N = 0
  <2>1. seqs = <<>> BY <1>2, EmptySeq
  <2>2. FlattenSeq(seqs) = <<>> BY <1>2, <2>1 DEF FlattenSeq
  <2> QED BY <2>2, EmptySeq
<1>3. CASE N # 0
  <2>1. F \in [Seq(E) \X Seq(E) -> Seq(E)] /\ <<>> \in Seq(E)
    BY ConcatProperties, EmptySeq
  <2>2. \A x, y \in Seq(E) : F[<<x, y>>] = x \o y
    OBVIOUS
  <2> HIDE DEF F
  <2>3. PICK g \in [SUBSET (1..N) -> Seq(E)] : IsFold(g, F, <<>>, seqs)
    BY <2>1, FoldExists
  <2>4. Folds(g, Seq(E), F, <<>>, seqs)
    BY <2>3 DEF IsFold, Folds
  <2>5. PICK r \in [0..N -> Seq(E)] : Path(r, g, F, <<>>, seqs)
    BY <2>1, <2>4, FoldPath
  <2>6. r[0] = <<>> /\ \A n \in 1..N : r[n] = r[n - 1] \o seqs[n]
    <3>1. \A n \in 1..N : n \in 0..N /\ n - 1 \in 0..N BY <1>1
    <3> QED BY <1>1, <2>2, <2>5, <3>1 DEF Path
  <2>7. r[1] = seqs[1]
    <3>1. 1 \in 1..N /\ 1 - 1 = 0 BY <1>1, <1>3
    <3>2. r[1] = <<>> \o seqs[1] /\ seqs[1] \in Seq(E) BY <1>1, <2>6, <3>1
    <3> QED BY <3>2, ConcatEmptySeq
  <2> DEFINE f == [i \in 1..N |-> r[i]]
  <2>8. f = Flat(f)
    <3>1. ASSUME NEW i \in 1..N, i # 1 PROVE i - 1 \in 1..N BY <1>1, <3>1
    <3> QED BY <1>1, <2>6, <2>7, <3>1
  <2>9. it = Flat(it)
    <3>1. \E h : h = Flat(h) BY <2>8
    <3> HIDE DEF Flat
    <3> QED BY <3>1
  <2>10. FlattenSeq(seqs) = it[N]
    BY <1>3 DEF FlattenSeq
  <2> HIDE DEF it, f
  <2> DEFINE S == {k \in Nat : k + 1 <= N => it[k + 1] \in Seq(E)}
  <2>11. 0 \in S
    <3>1. 1 \in 1..N BY <1>1, <1>3
    <3> QED BY <1>1, <2>9, <3>1
  <2>12. ASSUME NEW k \in Nat, k \in S PROVE k + 1 \in S
    <3> SUFFICES ASSUME (k + 1) + 1 <= N PROVE it[(k + 1) + 1] \in Seq(E)
      OBVIOUS
    <3> DEFINE j == (k + 1) + 1
    <3>1. j \in 1..N /\ j # 1 /\ j - 1 = k + 1 BY <1>1
    <3>2. it[k + 1] \in Seq(E) BY <1>1, <2>12
    <3> HIDE DEF j
    <3>3. it[j] = it[k + 1] \o seqs[j] BY <2>9, <3>1
    <3>4. seqs[j] \in Seq(E) BY <1>1, <3>1
    <3>5. it[j] \in Seq(E) BY <3>2, <3>3, <3>4, ConcatProperties
    <3> QED BY <3>5 DEF j
  <2>13. it[N] \in Seq(E)
    <3>1. N - 1 \in Nat /\ (N - 1) + 1 = N BY <1>1, <1>3
    <3> HIDE DEF S
    <3>2. N - 1 \in S BY <2>11, <2>12, <3>1, Induction
    <3> QED BY <3>1, <3>2 DEF S
  <2> QED BY <2>10, <2>13
<1> QED BY <1>2, <1>3

\* Sequences over a larger set.
LEMMA SeqSubset ==
  ASSUME NEW S, NEW T, S \subseteq T
  PROVE  Seq(S) \subseteq Seq(T)
BY SeqMonotonic, ElementOfSeq

\* A sequence of bounded length is a sequence.
LEMMA UptoIsSeq ==
  ASSUME NEW S, NEW n \in Nat
  PROVE  Upto(S, n) \subseteq Seq(S)
<1> SUFFICES ASSUME NEW s \in Upto(S, n) PROVE s \in Seq(S)
  OBVIOUS
<1>1. PICK k \in 0..n : s \in [1..k -> S]
  BY DEF Upto
<1> QED BY <1>1, SeqDef

\* Anything the run may take for a behaviour's place, or nothing.
InputOK ==
  \/ input = Nothing
  \/ input \in Replies \/ input \in Lines
  \/ input \in Requests
  \/ input \in Docs
  \/ input \in Texts \/ input \in Tables

\* The input is chosen at the start and stays.
LEMMA InputIsKept == MCSpec => []InputOK
<1>1. MCInit => InputOK
  BY DEF MCInit, InputOK
<1>2. InputOK /\ [MCNext]_<<vars, input>> => InputOK'
  BY DEF InputOK, MCNext
<1> QED BY <1>1, <1>2, PTL DEF MCSpec

\* The kind of an input tells which set it is from.
LEMMA InputKinds ==
  ASSUME InputOK
  PROVE  /\ Is("replies") \/ Is("window") => input \in Replies
         /\ Is("lines") => input \in Lines
         /\ Is("request") => input \in Requests
         /\ Is("doc") => input \in Docs
         /\ Is("text") => input \in Texts
         /\ Is("table") => input \in Tables
<1>1. /\ \A x \in Replies : x.kind \in {"replies", "window"}
      /\ \A x \in Lines : x.kind = "lines"
      /\ \A x \in Requests : x.kind = "request"
  BY DEF Replies, Lines, Requests
<1>2. /\ \A x \in Docs : x.kind = "doc"
      /\ \A x \in Texts : x.kind = "text"
      /\ \A x \in Tables : x.kind = "table"
  BY DEF Docs, Texts, Tables
<1> QED BY <1>1, <1>2 DEF InputOK, Is

\* The threads, pages and lines of the run are among those of the theorems above.
LEMMA ThreadInputs == InputOK => ThreadIsReadInOrder
<1> SUFFICES ASSUME InputOK PROVE ThreadIsReadInOrder
  OBVIOUS
<1>1. Upto(Page, 2) \subseteq Seq(SlackPage) /\ Upto(Page, 1) \subseteq Seq(SlackPage)
  <2>1. Page \subseteq SlackPage
    BY ThreadBounds DEF Page, SlackPage
  <2>2. Seq(Page) \subseteq Seq(SlackPage)
    BY <2>1, SeqSubset
  <2>3. Upto(Page, 2) \subseteq Seq(Page) /\ Upto(Page, 1) \subseteq Seq(Page)
    BY UptoIsSeq
  <2> QED BY <2>2, <2>3
<1>2. \A k \in 0..4 : Thread(k) \in Seq(Message)
  <2> TAKE k \in 0..4
  <2>1. Thread(k) \in [1..k -> Message] BY DEF Thread, Message
  <2> QED BY <2>1, SeqDef
<1>3. ASSUME Is("replies")
      PROVE  ReadsFromTheStart(Thread(input.length), input.max, input.pages)
  <2>1. input.length \in 0..4 /\ input.max \in Nat /\ input.pages \in Upto(Page, 2)
    BY <1>3, InputKinds DEF Is, Replies
  <2>2. Thread(input.length) \in Seq(Message) /\ input.pages \in Seq(SlackPage)
    BY <1>1, <1>2, <2>1
  <2> QED BY <2>1, <2>2, RepliesAreRead
<1>4. ASSUME Is("window")
      PROVE  AnswersTheWindow(Thread(input.length), input.pages, input.limit,
                              input.exclude, input.oldest)
  <2>1. input.length \in 0..4 /\ input.limit \in Nat /\ input.pages \in Upto(Page, 1)
    BY <1>4, InputKinds DEF Is, Replies
  <2>2. Thread(input.length) \in Seq(Message) /\ input.pages \in Seq(SlackPage)
    BY <1>1, <1>2, <2>1
  <2> QED BY <2>1, <2>2, WindowIsAnswered
<1>5. ASSUME Is("lines")
      PROVE  FillsTheBudget([i \in 1..Len(input.sizes) |-> [ts |-> i, size |-> input.sizes[i]]],
                            input.trigger, input.chars)
  <2>1. input.sizes \in Upto(0..2, 4) /\ input.chars \in Nat
    BY <1>5, InputKinds DEF Lines
  <2> DEFINE sizes == input.sizes
             msgs == [i \in 1..Len(sizes) |-> [ts |-> i, size |-> sizes[i]]]
  <2>2. sizes \in Seq(0..2)
    BY <2>1, UptoIsSeq
  <2> HIDE DEF sizes
  <2>3. Len(sizes) \in Nat /\ \A i \in 1..Len(sizes) : sizes[i] \in 0..2
    BY <2>2, LenProperties, ElementOfSeq
  <2>4. msgs \in [1..Len(sizes) -> Message]
    BY <2>3 DEF Message
  <2> HIDE DEF msgs
  <2>5. msgs \in Seq(Message)
    BY <2>3, <2>4, SeqDef
  <2>6. FillsTheBudget(msgs, input.trigger, input.chars)
    BY <2>1, <2>5, BudgetIsFilled
  <2> QED BY <2>6 DEF msgs, sizes
<1> QED BY <1>3, <1>4, <1>5 DEF ThreadIsReadInOrder

\* So are its registries and requests,
LEMMA RequestInputs == InputOK => ProxyStaysInSession
<1> SUFFICES ASSUME InputOK, Is("request")
             PROVE  ProxyKeepsToItsThread(input.registry, input.bot, input.q)
  BY DEF ProxyStaysInSession
<1>1. input \in Requests
  BY InputKinds
<1> DEFINE V == Value({"C", "D", "1", "2", "T", "U", "xoxb", "xoxp", "5"})
           Plain == {[n \in Param |-> IF n = "channel" THEN Spaced
                                      ELSE IF n = "ts" THEN <<Text1(r)>> ELSE <<>>] :
                       r \in {"1", "2"}}
<1>2. /\ input.registry \in Registries \cup {NoValue} /\ input.bot \in BOOLEAN
      /\ input.q.given \in Params \cup Plain
  BY <1>1 DEF Requests
<1>3. input.registry = NoValue \/ NoValue \notin DOMAIN input.registry
  <2>1. \A r \in Registries : DOMAIN r \subseteq {"mine", "other"}
    BY DEF Registries
  <2> QED BY <1>2, <2>1, NoValueAssumption
<1> DEFINE S == Seq(V)
<1>4. \A t \in {"C", "D", "1", "2", "T", "U", "xoxb", "xoxp", "5", NoValue} : Text1(t) \in V
  BY DEF Text1, Value
<1>5. Spaced \in S
  <2>1. [texts |-> <<"C">>, padded |-> TRUE] \in V
    BY DEF Value
  <2> HIDE DEF V
  <2> QED BY <2>1 DEF Spaced
<1> HIDE DEF V
<1>6. <<>> \in S /\ \A v \in V : <<v>> \in S /\ \A w \in V : <<v, w>> \in S
  OBVIOUS
<1> HIDE DEF S
<1>7. /\ Given("C", "D") \subseteq S /\ Given("1", "2") \subseteq S /\ Given("T", "U") \subseteq S
      /\ <<Text1("5")>> \in S /\ <<Text1("xoxb"), Text1("xoxp")>> \in S
      /\ <<Text1("1")>> \in S /\ <<Text1("2")>> \in S
  BY <1>4, <1>6 DEF Given
<1>8. Params \subseteq [Param -> S]
  BY <1>5, <1>6, <1>7 DEF Params, Param
<1>9. Plain \subseteq [Param -> S]
  BY <1>5, <1>6, <1>7
<1> DEFINE reg == input.registry
           bot == input.bot
           q == input.q
<1>10. /\ bot \in BOOLEAN /\ q.given \in [Param -> Seq(V)]
       /\ reg = NoValue \/ NoValue \notin DOMAIN reg
  BY <1>2, <1>3, <1>8, <1>9 DEF S
<1> HIDE DEF reg, bot, q
<1>11. ProxyKeepsToItsThread(reg, bot, q)
  BY <1>10, ProxyIsKept
<1> QED BY <1>11 DEF reg, bot, q

\* its appendices and bodies,
LEMMA DocInputs == InputOK => DocumentSurvives
<1> SUFFICES ASSUME InputOK, Is("doc")
             PROVE  ContextIsTheLatest(input.bot, input.api, input.appendix, input.bodies)
  BY DEF DocumentSurvives
<1> DEFINE Tok == Tokens \cup {"word", "user"}
<1>1. /\ Seq({"word", LineEnd, StartMarker, EndMarker}) \subseteq Seq(Tok)
      /\ Seq({"word", EndMarker}) \subseteq Seq(Tok)
  <2>1. {"word", LineEnd, StartMarker, EndMarker} \subseteq Tok /\ {"word", EndMarker} \subseteq Tok
    BY DEF Tokens
  <2> HIDE DEF Tok
  <2> QED BY <2>1, SeqSubset
<1>2. /\ Body \subseteq Seq(Tok)
      /\ Quote \subseteq Seq(Tok)
  <2> HIDE DEF Tok
  <2>1. /\ Body \subseteq Seq({"word", LineEnd, StartMarker, EndMarker})
        /\ Quote \subseteq Seq({"word", EndMarker})
    BY UptoIsSeq DEF Body, Quote
  <2> QED BY <1>1, <2>1
<1>3. {<<>>, <<"user">>, <<EndMarker, "user">>, <<StartMarker>>} \subseteq Seq(Tok)
  <2>1. "user" \in Tok /\ EndMarker \in Tok /\ StartMarker \in Tok
    BY DEF Tokens
  <2> HIDE DEF Tok
  <2> QED BY <2>1
<1>4. Tokens \subseteq Tok
  OBVIOUS
<1> HIDE DEF Tok
<1>5. input \in Docs
  BY InputKinds
<1>6. /\ input.bot \in BOOLEAN /\ input.api \in BOOLEAN
      /\ input.appendix \in {<<>>, <<"user">>, <<EndMarker, "user">>, <<StartMarker>>}
      /\ input.bodies \in Body \X Body \/ input.bodies \in Quote \X Quote \X Quote
  BY <1>5 DEF Docs
<1>7. input.bodies \in Seq(Seq(Tok)) /\ input.bodies # <<>>
  <2>1. CASE input.bodies \in Body \X Body
    <3>1. PICK a \in Body, b \in Body : input.bodies = <<a, b>>
      BY <2>1
    <3>2. a \in Seq(Tok) /\ b \in Seq(Tok)
      BY <1>2
    <3> DEFINE T == Seq(Tok)
    <3>3. <<a, b>> \in Seq(T) /\ <<a, b>> # <<>>
      <4>1. a \in T /\ b \in T BY <3>2
      <4> HIDE DEF T
      <4> QED BY <4>1
    <3> QED BY <3>1, <3>3
  <2>2. CASE input.bodies \in Quote \X Quote \X Quote
    <3>1. PICK a \in Quote, b \in Quote, c \in Quote : input.bodies = <<a, b, c>>
      BY <2>2
    <3>2. a \in Seq(Tok) /\ b \in Seq(Tok) /\ c \in Seq(Tok)
      BY <1>2
    <3> DEFINE T == Seq(Tok)
    <3>3. <<a, b, c>> \in Seq(T) /\ <<a, b, c>> # <<>>
      <4>1. a \in T /\ b \in T /\ c \in T BY <3>2
      <4> HIDE DEF T
      <4> QED BY <4>1
    <3> QED BY <3>1, <3>3
  <2> QED BY <1>6, <2>1, <2>2
<1> QED BY <1>3, <1>4, <1>6, <1>7, ContextIsKept

\* and its texts and tables.
LEMMA TextInputs == InputOK => ReplyKeepsItsContent
<1> SUFFICES ASSUME InputOK PROVE ReplyKeepsItsContent
  OBVIOUS
<1>1. ASSUME Is("text") PROVE CodeAndTokensComeBack(Pieces(input.text))
  <2> DEFINE A == Of(TextKinds)
             t == input.text
             pieces == [i \in 1..Len(t) |->
                          CASE t[i] = "fence" -> Fence
                            [] t[i] = "tick" -> <<Tick>>
                            [] t[i] = "special" -> <<Special>>
                            [] t[i] = "mention" -> <<Mention(i)>>
                            [] t[i] = "break" -> <<Break>>
                            [] t[i] = "code" -> <<Open(Code)>>
                            [] t[i] = "endcode" -> <<Close(Code)>>
                            [] t[i] = "bold" -> <<Open(Code + 1)>>
                            [] t[i] = "endbold" -> <<Close(Code + 1)>>
                            [] OTHER -> <<Word(i)>>]
             K == PlainPiece \cup HtmlPiece
  <2>1. input.text \in Upto(PlainPiece, 6) \cup Upto(HtmlPiece, 5)
    BY <1>1, InputKinds DEF Texts
  <2>2. t \in Seq(K)
    <3>1. t \in Seq(PlainPiece) \/ t \in Seq(HtmlPiece)
      BY <2>1, UptoIsSeq
    <3> HIDE DEF t
    <3> QED BY <3>1, SeqSubset
  <2>3. Len(t) \in Nat /\ \A i \in 1..Len(t) : t[i] \in K
    <3> HIDE DEF t, K
    <3> QED BY <2>2, LenProperties, ElementOfSeq
  <2>4. /\ Tick \in A /\ Special \in A /\ \A n \in Nat : Mention(n) \in A /\ Word(n) \in A
        /\ Break \in A /\ \A n \in Nat : Open(n) \in A /\ Close(n) \in A
    BY DEF Of, TextKinds, Tick, Special, Mention, Word, Break, Open, Close
  <2>41. Code \in Nat /\ Code + 1 \in Nat
    BY DEF Code
  <2> HIDE DEF A, t
  <2>5. /\ Fence \in Seq(A) /\ <<Tick>> \in Seq(A) /\ <<Special>> \in Seq(A)
        /\ \A n \in Nat : <<Mention(n)>> \in Seq(A) /\ <<Word(n)>> \in Seq(A)
        /\ <<Break>> \in Seq(A) /\ <<Open(Code)>> \in Seq(A) /\ <<Close(Code)>> \in Seq(A)
        /\ <<Open(Code + 1)>> \in Seq(A) /\ <<Close(Code + 1)>> \in Seq(A)
    BY <2>4, <2>41 DEF Fence
  <2>6. \A i \in 1..Len(t) : pieces[i] \in Seq(A)
    BY <2>3, <2>5
  <2>7. pieces \in Seq(Seq(A))
    <3>1. pieces \in [1..Len(t) -> Seq(A)] BY <2>6
    <3> HIDE DEF pieces
    <3> QED BY <2>3, <3>1, SeqDef
  <2>8. Pieces(t) = FlattenSeq(pieces)
    BY DEF Pieces
  <2> HIDE DEF pieces
  <2>9. Pieces(t) \in Seq(Of(TextKinds))
    BY <2>7, <2>8, FlattenType DEF A
  <2>10. CodeAndTokensComeBack(Pieces(t))
    BY <2>9, CodeComesBack
  <2> QED BY <2>10 DEF t
<1>2. ASSUME Is("table")
      PROVE  TableRowsComeBack([i \in 1..Len(input.lines) |-> <<input.lines[i], i>>])
  <2> DEFINE t == input.lines
             lines == [i \in 1..Len(t) |-> <<t[i], i>>]
             K == {"row", "separator", "text"}
  <2>1. input.lines \in Upto(K, 6)
    BY <1>2, InputKinds DEF Tables
  <2>2. t \in Seq(K)
    BY <2>1, UptoIsSeq
  <2> HIDE DEF t, K
  <2>3. Len(t) \in Nat /\ \A i \in 1..Len(t) : t[i] \in K
    BY <2>2, LenProperties, ElementOfSeq
  <2>4. lines \in [1..Len(t) -> TextLine]
    BY <2>3 DEF TextLine, K
  <2> HIDE DEF lines
  <2>5. lines \in Seq(TextLine)
    BY <2>3, <2>4, SeqDef
  <2>6. TableRowsComeBack(lines)
    BY <2>5, TablesComeBack
  <2> QED BY <2>6 DEF lines, t
<1> QED BY <1>1, <1>2 DEF ReplyKeepsItsContent

-----------------------------------------------------------------------------
\* ThreadIsReadInOrder holds: CollectReplies, thread/messages and the prompt's
\* transcript give what they promise, on every input of the specification.
THEOREM ThreadReadInOrder == MCSpec => []ThreadIsReadInOrder
  BY InputIsKept, ThreadInputs, PTL

\* ProxyStaysInSession holds: what the proxy forwards names the session of its
\* token first, and nothing else unless a form repeats a parameter.
THEOREM ProxyInSession == MCSpec => []ProxyStaysInSession
  BY InputIsKept, RequestInputs, PTL

\* DocumentSurvives holds: AGENTS.md keeps its frame through all updates.
THEOREM DocumentKept == MCSpec => []DocumentSurvives
  BY InputIsKept, DocInputs, PTL

\* ReplyKeepsItsContent holds: a reply's code, tokens and tables come back.
THEOREM ReplyContentKept == MCSpec => []ReplyKeepsItsContent
  BY InputIsKept, TextInputs, PTL
=============================================================================
