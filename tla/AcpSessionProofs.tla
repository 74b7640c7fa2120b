-------------------------- MODULE AcpSessionProofs --------------------------
(* Theorems about AcpSession, for every number of calls and of chunks.       *)
EXTENDS AcpSession, FiniteSetTheorems, TLAPS

-----------------------------------------------------------------------------
(* The inductive invariant.                                                  *)

InStdin(i) == \E a \in 1..Len(stdin) : stdin[a] = i

InStdout(i) == \E a \in 1..Len(stdout) : stdout[a].call = i

\* The agent has not got call i and never will again; nor has it left
\* anything about it to be read.
Answered(i) == ~InStdin(i) /\ serving # i

Silent(i) == Answered(i) /\ ~InStdout(i)

Response == {"reply", "error"}

\* Of a call whose request has not been written there is no trace.
Unsent(i) == i > n \/ (i = n /\ pc \in {"register", "send"})

Untouched ==
  \A i \in Call : Unsent(i) =>
    /\ Silent(i) /\ sent[i] = 0 /\ collected[i] = 0
    /\ held # None => held.call # i
    /\ IF pc = "send" /\ i = n THEN chan[i] \in {"empty", "closed"} ELSE chan[i] = "empty"

\* The agent gets a call once, and says nothing about it behind its response.
Pipes ==
  /\ \A a, b \in 1..Len(stdin) : stdin[a] = stdin[b] => a = b
  /\ serving # None => ~InStdin(serving)
  /\ \A a \in 1..Len(stdout) : ~InStdin(stdout[a].call)
  /\ \A a \in 1..Len(stdout) : stdout[a].kind \in Response =>
       /\ serving # stdout[a].call
       /\ \A b \in 1..Len(stdout) : b > a => stdout[b].call # stdout[a].call
  /\ held # None => Silent(held.call)
  /\ \A i \in Call : chan[i] \in Response => Silent(i)

\* Only the call being made has a channel registered; when readLoop has
\* stopped it has nothing to deliver; what is closed is not registered.
Registered ==
  /\ pending \subseteq {n}
  /\ pc \notin {"send", "wait"} => pending = {}
  /\ reader = "stopped" => held = None
  /\ readErr => reader = "stopped"
  /\ pc = "closed" => reader = "stopped"
  /\ \A i \in Call : chan[i] = "closed" =>
       i \notin pending /\ (reader = "stopped" \/ pc \in {"join", "closed"})

\* The chunks of a call are in the text or in the pipe, those of the latest
\* call all of them: the reset lets go of earlier calls only.
Chunks(s, i) == {a \in 1..Len(s) : s[a] = Line("chunk", i)}

Unread(s, i) == Cardinality(Chunks(s, i))

Counts ==
  \A i \in Call :
    /\ collected[i] + Unread(stdout, i) <= sent[i]
    /\ i = n => collected[i] + Unread(stdout, i) = sent[i]
    /\ sent[i] <= MaxChunk
    /\ i \in Setup => sent[i] = 0

\* A text is taken when the agent is done with its call, and kept.
Over == {"ready", "text", "close", "join", "closed"}

Ended(i) == i < n \/ (i = n /\ pc \in Over)

Texts ==
  /\ result \in [Call -> Text \cup {None, Failed}]
  /\ pc = "text" => n \in Call /\ Silent(n)
  /\ pc \notin {"ready", "close", "join", "closed"} => n \in Call
  /\ \A i \in Call : IsText(i) => Answered(i) /\ Ended(i) /\ (i = n => pc # "text")

\* A call that has ended, and not at its timeout, left nothing to be read.
Foreign ==
  /\ \A i \in Call : Ended(i) /\ i \notin timedOut => reader = "stopped" \/ Silent(i)
  /\ \A i \in Call : collected[i] > 0 /\ i # n => i < n /\ i \in timedOut

IInv ==
  /\ TypeOK
  /\ Untouched /\ Pipes /\ Registered /\ Counts /\ Texts /\ Foreign
  /\ WholeText /\ ForeignTextOnlyAfterTimeout

-----------------------------------------------------------------------------
(* Sequences, and the chunks in one.                                         *)

LEMMA SeqWiden ==
  ASSUME NEW S, NEW T, S \subseteq T, NEW s \in Seq(S)
  PROVE  s \in Seq(T)
<1>1. Len(s) \in Nat /\ \A i \in 1..Len(s) : s[i] \in T
  OBVIOUS
<1>2. s = [i \in 1..Len(s) |-> s[i]]
  OBVIOUS
<1>. QED
  BY <1>1, <1>2

LEMMA Appended ==
  ASSUME NEW S, NEW s \in Seq(S), NEW e \in S
  PROVE  /\ Append(s, e) \in Seq(S) /\ Len(Append(s, e)) = Len(s) + 1 /\ Len(s) \in Nat
         /\ Append(s, e)[Len(s) + 1] = e
         /\ \A i \in 1..Len(s) : Append(s, e)[i] = s[i]
OBVIOUS

LEMMA HeadTail ==
  ASSUME NEW S, NEW s \in Seq(S), s # <<>>
  PROVE  /\ Head(s) \in S /\ Tail(s) \in Seq(S) /\ Head(s) = s[1]
         /\ Len(Tail(s)) = Len(s) - 1 /\ Len(s) \in Nat \ {0}
         /\ \A i \in 1..Len(Tail(s)) : Tail(s)[i] = s[i + 1] /\ i + 1 \in 1..Len(s)
         /\ \A i \in 2..Len(s) : s[i] = Tail(s)[i - 1] /\ i - 1 \in 1..Len(Tail(s))
OBVIOUS

LEMMA UnreadType ==
  ASSUME NEW S, NEW s \in Seq(S), NEW i
  PROVE  IsFiniteSet(Chunks(s, i)) /\ Unread(s, i) \in Nat
<1>1. Chunks(s, i) \subseteq 1..Len(s) /\ Len(s) \in Int /\ 1 \in Int
  BY DEF Chunks
<1>2. IsFiniteSet(1..Len(s))
  BY <1>1, FS_Interval
<1>3. IsFiniteSet(Chunks(s, i))
  BY <1>1, <1>2, FS_Subset
<1>. QED
  BY <1>3, FS_CardinalityType DEF Unread

LEMMA UnreadNone ==
  ASSUME NEW S, NEW s \in Seq(S), NEW i,
         \A a \in 1..Len(s) : s[a] # Line("chunk", i)
  PROVE  Unread(s, i) = 0
<1>1. Chunks(s, i) = {}
  BY DEF Chunks
<1>. QED
  BY <1>1, FS_EmptySet DEF Unread

LEMMA UnreadAppend ==
  ASSUME NEW S, NEW s \in Seq(S), NEW e \in S, NEW i
  PROVE  Unread(Append(s, e), i) =
           Unread(s, i) + (IF e = Line("chunk", i) THEN 1 ELSE 0)
<1> DEFINE q == Append(s, e)
<1>1. /\ Len(q) = Len(s) + 1 /\ Len(s) \in Nat /\ q[Len(s) + 1] = e
      /\ \A a \in 1..Len(s) : q[a] = s[a]
  BY Appended
<1>2. IsFiniteSet(Chunks(s, i)) /\ Unread(s, i) \in Nat
  BY UnreadType
<1> HIDE DEF q
<1>3. CASE e = Line("chunk", i)
  <2>1. Chunks(q, i) = Chunks(s, i) \cup {Len(s) + 1} /\ Len(s) + 1 \notin Chunks(s, i)
    BY <1>1, <1>3 DEF Chunks
  <2>2. Cardinality(Chunks(q, i)) = Cardinality(Chunks(s, i)) + 1
    BY <2>1, <1>2, FS_AddElement
  <2>. QED
    BY <2>2, <1>3 DEF Unread, q
<1>4. CASE e # Line("chunk", i)
  <2>1. Chunks(q, i) = Chunks(s, i)
    BY <1>1, <1>4 DEF Chunks
  <2>. QED
    BY <2>1, <1>2, <1>4 DEF Unread, q
<1>. QED
  BY <1>3, <1>4

LEMMA UnreadTail ==
  ASSUME NEW S, NEW s \in Seq(S), s # <<>>, NEW i
  PROVE  Unread(s, i) =
           Unread(Tail(s), i) + (IF Head(s) = Line("chunk", i) THEN 1 ELSE 0)
<1> DEFINE t == Tail(s)
           C == Chunks(s, i)
           D == Chunks(t, i)
           E == C \ {1}
           f == [a \in D |-> a + 1]
<1>1. /\ t \in Seq(S) /\ Head(s) = s[1]
      /\ Len(t) = Len(s) - 1 /\ Len(s) \in Nat \ {0}
      /\ \A a \in 1..Len(t) : t[a] = s[a + 1] /\ a + 1 \in 1..Len(s)
      /\ \A a \in 2..Len(s) : s[a] = t[a - 1] /\ a - 1 \in 1..Len(t)
  BY HeadTail
<1>2. IsFiniteSet(C) /\ Cardinality(C) \in Nat
  BY UnreadType DEF Unread
<1>3. IsFiniteSet(D) /\ Cardinality(D) \in Nat
  BY <1>1, UnreadType DEF Unread
<1>4. 1 \in C <=> Head(s) = Line("chunk", i)
  BY <1>1 DEF Chunks
<1> HIDE DEF t
<1>5. Cardinality(E) = Cardinality(D)
  <2>1. \A a \in D : a \in Nat /\ a + 1 \in E
    BY <1>1 DEF Chunks
  <2>2. \A b \in E : b - 1 \in D /\ (b - 1) + 1 = b
    BY <1>1 DEF Chunks
  <2> HIDE DEF D, E
  <2>3. f \in [D -> E] /\ \A a \in D : f[a] = a + 1
    BY <2>1
  <2>4. \A a, b \in D : f[a] = f[b] => a = b
    BY <2>1, <2>3
  <2>5. \A b \in E : \E a \in D : f[a] = b
    BY <2>2, <2>3
  <2> HIDE DEF f
  <2>6. f \in Bijection(D, E)
    BY <2>3, <2>4, <2>5 DEF Bijection, Injection, Surjection, IsInjective
  <2>. QED
    BY <2>6, <1>3, FS_Bijection DEF ExistsBijection, D
<1>6. Cardinality(E) = IF 1 \in C THEN Cardinality(C) - 1 ELSE Cardinality(C)
  BY <1>2, FS_RemoveElement
<1>. QED
  BY <1>2, <1>3, <1>4, <1>5, <1>6 DEF Unread, t

-----------------------------------------------------------------------------
(* The pipes.                                                                *)

LineType(m) ==
  [kind : {"chunk", "intRequest", "otherRequest", "reply", "error", "huge"}, call : 1..m]

\* A text counts up to some bound that no call reaches alone.
LEMMA TextBound ==
  /\ \A t \in [Call -> 0..MaxChunk] : t \in Text
  /\ \A t \in Text, i \in Call : t[i] \in Nat
  /\ \A t \in Text, i \in Call, x \in 0..MaxChunk : [t EXCEPT ![i] = x] \in Text
<1>1. MaxCall \in Nat /\ MaxChunk \in Nat /\ MaxCall >= 1
  BY BoundAssumption
<1>2. PICK B : B = MaxCall * MaxChunk
  OBVIOUS
<1>3. B \in Nat /\ MaxChunk <= B
  BY <1>1, <1>2
<1>4. Text = [Call -> 0..B]
  BY <1>2 DEF Text
<1>. QED
  BY <1>1, <1>3, <1>4

\* Nothing in the pipes moves.
LEMMA Still ==
  ASSUME UNCHANGED <<stdin, stdout, serving>>
  PROVE  \A i : /\ InStdin(i)' <=> InStdin(i)
                /\ InStdout(i)' <=> InStdout(i)
                /\ Answered(i)' <=> Answered(i)
                /\ Silent(i)' <=> Silent(i)
BY DEF InStdin, InStdout, Answered, Silent

\* readLoop takes a line out of the agent's output.
LEMMA LineRead ==
  ASSUME IInv, stdout # <<>>, stdout' = Tail(stdout), UNCHANGED <<stdin, serving>>
  PROVE  /\ Head(stdout) \in LineType(n) /\ stdout' \in Seq(LineType(n))
         /\ InStdout(Head(stdout).call)
         /\ \A i : /\ InStdout(i)' => InStdout(i)
                   /\ InStdin(i)' <=> InStdin(i)
                   /\ Answered(i)' <=> Answered(i)
                   /\ Silent(i) => Silent(i)'
         /\ \A c : Head(stdout).kind \in Response /\ c = Head(stdout).call => Silent(c)'
         /\ \A i : Unread(stdout, i) =
                     Unread(stdout', i) + (IF Head(stdout) = Line("chunk", i) THEN 1 ELSE 0)
         /\ \A a \in 1..Len(stdout') : stdout'[a].kind \in Response =>
              /\ serving' # stdout'[a].call
              /\ \A b \in 1..Len(stdout') : b > a => stdout'[b].call # stdout'[a].call
         /\ (\A a \in 1..Len(stdout) : ~InStdin(stdout[a].call))'
<1>1. TypeOK /\ Pipes /\ stdout \in Seq(LineType(n))
  BY DEF IInv, TypeOK, LineType
<1>2. /\ Head(stdout) \in LineType(n) /\ Tail(stdout) \in Seq(LineType(n))
      /\ Head(stdout) = stdout[1]
      /\ Len(Tail(stdout)) = Len(stdout) - 1 /\ Len(stdout) \in Nat \ {0}
      /\ \A i \in 1..Len(Tail(stdout)) :
           Tail(stdout)[i] = stdout[i + 1] /\ i + 1 \in 1..Len(stdout)
  BY <1>1, HeadTail
<1>3. PICK t : t = Tail(stdout)
  OBVIOUS
<1>4. /\ stdout' = t /\ t \in Seq(LineType(n)) /\ Len(t) = Len(stdout) - 1
      /\ \A a \in 1..Len(t) : t[a] = stdout[a + 1] /\ a + 1 \in 1..Len(stdout)
  BY <1>2, <1>3
<1>5. InStdout(Head(stdout).call)
  BY <1>2 DEF InStdout
<1>6. \A i : /\ InStdout(i)' => InStdout(i)
             /\ InStdin(i)' <=> InStdin(i)
             /\ Answered(i)' <=> Answered(i)
             /\ Silent(i) => Silent(i)'
  BY <1>4 DEF InStdout, InStdin, Answered, Silent
<1>7. ASSUME NEW a \in 1..Len(t), t[a].kind \in Response
      PROVE  /\ serving' # t[a].call
             /\ \A b \in 1..Len(t) : b > a => t[b].call # t[a].call
  BY <1>1, <1>2, <1>4, <1>7 DEF Pipes
<1>8. (\A a \in 1..Len(stdout) : ~InStdin(stdout[a].call))'
  BY <1>1, <1>4 DEF Pipes, InStdin
<1>9. ASSUME NEW c, Head(stdout).kind \in Response, c = Head(stdout).call
      PROVE  Silent(c)'
  <2>1. 1 \in 1..Len(stdout) /\ stdout[1].kind \in Response /\ stdout[1].call = c
    BY <1>2, <1>9
  <2>2. ~InStdin(c) /\ serving # c /\ \A b \in 1..Len(stdout) : b > 1 => stdout[b].call # c
    BY <2>1, <1>1 DEF Pipes
  <2>3. ~InStdin(c)' /\ serving' # c
    BY <2>2, <1>6
  <2>4. ~InStdout(c)'
    BY <2>2, <1>2, <1>4 DEF InStdout
  <2>. QED
    BY <2>3, <2>4 DEF Silent, Answered
<1>10. \A i : Unread(stdout, i) =
                Unread(t, i) + (IF Head(stdout) = Line("chunk", i) THEN 1 ELSE 0)
  BY <1>1, <1>3, UnreadTail
<1>. QED
  BY <1>2, <1>4, <1>5, <1>6, <1>7, <1>8, <1>9, <1>10

-----------------------------------------------------------------------------
(* The steps of the agent.                                                   *)

\* Whatever the agent writes is about the call it serves.
LEMMA WriteIInv ==
  ASSUME IInv, serving # None,
         NEW kind \in {"chunk", "intRequest", "otherRequest", "reply", "error", "huge"},
         stdout' = Append(stdout, Line(kind, serving)),
         serving' = IF kind \in Response THEN None ELSE serving,
         IF kind = "chunk"
         THEN /\ serving \notin Setup /\ sent[serving] < MaxChunk
              /\ sent' = [sent EXCEPT ![serving] = @ + 1]
         ELSE sent' = sent,
         asked' \in Request \cup {"no"},
         UNCHANGED <<workerVars, clientVars, readerVars, agent, stdin>>
  PROVE  IInv'
<1> USE BoundAssumption, ValueAssumption
<1>1. /\ TypeOK /\ Untouched /\ Pipes /\ Registered /\ Counts /\ Texts /\ Foreign
      /\ WholeText /\ ForeignTextOnlyAfterTimeout
  BY DEF IInv
<1>2. /\ UNCHANGED <<pc, n, result, timedOut, pending, chan, readErr, collected, reader,
                     held, agent, stdin>>
  BY DEF workerVars, clientVars, readerVars
<1>3. PICK s : s = serving
  OBVIOUS
<1>4. PICK e : e = Line(kind, s)
  OBVIOUS
<1>5. /\ s \in 1..n /\ s \in Call /\ e \in LineType(n) /\ stdout \in Seq(LineType(n))
      /\ e.call = s /\ e.kind = kind
  BY <1>1, <1>3, <1>4 DEF TypeOK, LineType, Line, Call
<1>6. PICK q : q = Append(stdout, e)
  OBVIOUS
<1>7. /\ stdout' = q /\ q \in Seq(LineType(n))
      /\ Len(q) = Len(stdout) + 1 /\ Len(stdout) \in Nat /\ q[Len(stdout) + 1] = e
      /\ \A a \in 1..Len(stdout) : q[a] = stdout[a]
  BY <1>3, <1>4, <1>5, <1>6, Appended
<1>8. \A i \in Call :
        /\ InStdout(i)' <=> InStdout(i) \/ i = s
        /\ InStdin(i)' <=> InStdin(i)
        /\ Answered(i) => i # s /\ Answered(i)'
        /\ Silent(i) => i # s /\ Silent(i)'
  <2>1. \A i : InStdin(i)' <=> InStdin(i)
    BY <1>2 DEF InStdin
  <2>2. \A i : InStdout(i)' <=> InStdout(i) \/ i = s
    BY <1>5, <1>7, SMTT(60) DEF InStdout
  <2>3. serving' \in {None, s} /\ None \notin Call
    BY <1>3 DEF Call
  <2>4. \A i \in Call : Answered(i) => i # s /\ Answered(i)'
    BY <1>3, <2>1, <2>3 DEF Answered
  <2>. QED
    BY <2>1, <2>2, <2>4 DEF Silent
<1>9. /\ n \in Nat /\ n <= MaxCall /\ \A i \in 1..n : i \in Call
      /\ sent \in Text /\ sent' \in Text
      /\ \A i \in Call : i # s => sent'[i] = sent[i]
      /\ sent'[s] = sent[s] + (IF kind = "chunk" THEN 1 ELSE 0)
      /\ \A i \in Call : sent'[i] <= MaxChunk /\ (i \in Setup => sent'[i] = 0)
  <2>1. /\ n \in Nat /\ n <= MaxCall /\ sent \in Text
        /\ \A i \in Call : sent[i] <= MaxChunk /\ (i \in Setup => sent[i] = 0)
    BY <1>1 DEF TypeOK, Counts
  <2>2. sent \in [Call -> 0..MaxChunk]
    <3>1. \A i \in Call : sent[i] \in 0..MaxChunk
      BY <2>1, TextBound
    <3>. QED
      BY <2>1, <3>1 DEF Text
  <2>3. /\ sent' \in [Call -> 0..MaxChunk]
        /\ \A i \in Call : i # s => sent'[i] = sent[i]
        /\ sent'[s] = sent[s] + (IF kind = "chunk" THEN 1 ELSE 0)
    <3>1. CASE kind = "chunk"
      <4>1. sent' = [sent EXCEPT ![s] = @ + 1] /\ sent[s] < MaxChunk
        BY <1>3, <3>1
      <4>2. sent[s] + 1 \in 0..MaxChunk
        BY <4>1, <2>2, <1>5
      <4>. QED
        BY <4>1, <4>2, <2>2, <1>5, <3>1
    <3>2. CASE kind # "chunk"
      BY <2>2, <1>5, <3>2
    <3>. QED BY <3>1, <3>2
  <2>4. \A i \in Call : i \in Setup => sent'[i] = 0
    <3>1. kind = "chunk" => s \notin Setup
      BY <1>3
    <3>. QED
      BY <2>1, <2>2, <2>3, <3>1, <1>5
  <2>5. \A i \in Call : sent'[i] <= MaxChunk
    BY <2>3
  <2>6. sent' \in Text
    BY <2>3, TextBound
  <2>7. \A i \in 1..n : i \in Call
    BY <2>1 DEF Call
  <2>. QED
    BY <2>1, <2>3, <2>4, <2>5, <2>6, <2>7
<1>10. TypeOK'
  <2>1. serving' \in 1..n \cup {None}
    BY <1>3, <1>5
  <2>. QED
    BY <2>1, <1>1, <1>2, <1>7, <1>9 DEF TypeOK, LineType, IsText
<1>11. Untouched'
  BY <1>1, <1>2, <1>8, <1>9 DEF Untouched, Unsent
<1>12. Pipes'
  <2>1. \A a, b \in 1..Len(stdin') : stdin'[a] = stdin'[b] => a = b
    BY <1>1, <1>2 DEF Pipes
  <2>2. serving' # None => ~InStdin(serving)'
    BY <1>1, <1>2, <1>3 DEF Pipes, InStdin
  <2>3. (\A a \in 1..Len(stdout) : ~InStdin(stdout[a].call))'
    <3>1. \A a \in 1..Len(stdout) : ~InStdin(stdout[a].call)
      BY <1>1 DEF Pipes
    <3>2. ~InStdin(s)
      BY <1>1, <1>3 DEF Pipes
    <3>3. \A a \in 1..Len(q) : ~InStdin(q[a].call)
      BY <3>1, <3>2, <1>5, <1>7
    <3>. QED
      BY <3>3, <1>2, <1>7 DEF InStdin
  <2>4. ASSUME NEW a \in 1..Len(q), q[a].kind \in Response
        PROVE  serving' # q[a].call /\ \A b \in 1..Len(q) : b > a => q[b].call # q[a].call
    <3>1. CASE a \in 1..Len(stdout)
      <4>1. /\ stdout[a].call # s /\ stdout[a] \in LineType(n)
            /\ \A b \in 1..Len(stdout) : b > a => stdout[b].call # stdout[a].call
        BY <3>1, <2>4, <1>1, <1>3, <1>5, <1>7 DEF Pipes
      <4>2. serving' # stdout[a].call
        BY <4>1, <1>3 DEF LineType
      <4>. QED
        BY <4>1, <4>2, <3>1, <1>5, <1>7, SMTT(60)
    <3>2. CASE a = Len(stdout) + 1
      <4>1. kind \in Response /\ serving' = None
        BY <3>2, <2>4, <1>5, <1>7
      <4>. QED
        BY <4>1, <3>2, <1>5, <1>7
    <3>. QED BY <3>1, <3>2, <1>7
  <2>5. held' # None => Silent(held.call)'
    <3>1. held # None => held.call \in Call /\ Silent(held.call)
      BY <1>1, <1>9 DEF Pipes, TypeOK
    <3>2. PICK c : c = held.call
      OBVIOUS
    <3>3. held # None => Silent(c)'
      BY <3>1, <3>2, <1>8
    <3>. QED
      BY <3>2, <3>3, <1>2 DEF Silent, Answered, InStdin, InStdout
  <2>6. \A i \in Call : chan'[i] \in Response => Silent(i)'
    BY <1>1, <1>2, <1>8 DEF Pipes
  <2>. QED
    BY <2>1, <2>2, <2>3, <2>4, <2>5, <2>6, <1>7 DEF Pipes
<1>13. Registered'
  BY <1>1, <1>2 DEF Registered
<1>14. Counts'
  <2>1. \A i \in Call : Unread(stdout', i) = Unread(stdout, i) +
                          (IF e = Line("chunk", i) THEN 1 ELSE 0)
    BY <1>5, <1>6, <1>7, UnreadAppend
  <2>2. \A i \in Call : e = Line("chunk", i) <=> kind = "chunk" /\ i = s
    BY <1>4 DEF Line
  <2>3. \A i \in Call : Unread(stdout, i) \in Nat /\ collected[i] \in Nat /\ sent[i] \in Nat
    BY <1>1, <1>5, UnreadType, TextBound DEF TypeOK
  <2>4. ASSUME NEW i \in Call
        PROVE  /\ collected[i] + Unread(stdout', i) <= sent'[i]
               /\ i = n => collected[i] + Unread(stdout', i) = sent'[i]
    <3> DEFINE x == IF kind = "chunk" /\ i = s THEN 1 ELSE 0
    <3>1. /\ collected[i] + Unread(stdout, i) <= sent[i]
          /\ i = n => collected[i] + Unread(stdout, i) = sent[i]
      BY <1>1 DEF Counts
    <3>2. x \in Nat /\ Unread(stdout', i) = Unread(stdout, i) + x
      BY <2>1, <2>2
    <3>3. sent'[i] = sent[i] + x
      BY <1>9, <2>3
    <3> HIDE DEF x
    <3>. QED
      BY <3>1, <3>2, <3>3, <2>3
  <2>. QED
    BY <2>4, <1>2, <1>9 DEF Counts
<1>15. Texts'
  BY <1>1, <1>2, <1>8 DEF Texts, IsText, Ended, Over
<1>16. Foreign'
  BY <1>1, <1>2, <1>8 DEF Foreign, Ended
<1>17. WholeText'
  BY <1>1, <1>2, <1>8, <1>9 DEF WholeText, Texts, IsText
<1>18. ForeignTextOnlyAfterTimeout'
  BY <1>1, <1>2 DEF ForeignTextOnlyAfterTimeout, IsText
<1>. QED
  BY <1>10, <1>11, <1>12, <1>13, <1>14, <1>15, <1>16, <1>17, <1>18 DEF IInv

LEMMA AgentChunkIInv == ASSUME IInv, AgentChunk PROVE IInv'
<1>1. asked' \in Request \cup {"no"}
  BY DEF AgentChunk, IInv, TypeOK
<1>. QED
  BY <1>1, WriteIInv DEF AgentChunk, Response

LEMMA AgentAskIInv == ASSUME IInv, AgentAsk PROVE IInv'
<1>1. PICK kind \in Request :
        /\ agent = "up" /\ asked = "no" /\ serving # None /\ serving \notin Setup
        /\ sent[serving] = MaxChunk
        /\ asked' = kind
        /\ stdout' = Append(stdout, Line(kind, serving))
        /\ UNCHANGED <<workerVars, clientVars, readerVars, agentVars, stdin>>
  BY DEF AgentAsk
<1>2. /\ kind \in {"chunk", "intRequest", "otherRequest", "reply", "error", "huge"}
      /\ asked' \in Request \cup {"no"} /\ kind \notin Response /\ kind # "chunk"
  BY <1>1 DEF Request, Response
<1>. QED
  BY <1>1, <1>2, WriteIInv DEF agentVars

LEMMA AgentRespondIInv == ASSUME IInv, AgentRespond PROVE IInv'
<1>1. PICK kind \in {"reply", "error"} : stdout' = Append(stdout, Line(kind, serving))
  BY DEF AgentRespond
<1>2. asked' \in Request \cup {"no"}
  BY DEF AgentRespond, IInv, TypeOK
<1>. QED
  BY <1>1, <1>2, WriteIInv DEF AgentRespond, Response

LEMMA AgentHugeLineIInv == ASSUME IInv, AgentHugeLine PROVE IInv'
<1>1. asked' \in Request \cup {"no"}
  BY DEF AgentHugeLine, IInv, TypeOK
<1>. QED
  BY <1>1, WriteIInv DEF AgentHugeLine, agentVars, Response

LEMMA AgentReceiveIInv == ASSUME IInv, AgentReceive PROVE IInv'
<1> USE BoundAssumption, ValueAssumption
<1>1. /\ TypeOK /\ Untouched /\ Pipes /\ Registered /\ Counts /\ Texts /\ Foreign
      /\ WholeText /\ ForeignTextOnlyAfterTimeout
  BY DEF IInv
<1>2. UNCHANGED <<pc, n, result, timedOut, pending, chan, readErr, collected, reader,
                  held, agent, sent, stdout, asked>>
  BY DEF AgentReceive, workerVars, clientVars, readerVars
<1>3. PICK t : t = Tail(stdin)
  OBVIOUS
<1>4. PICK s : s = Head(stdin)
  OBVIOUS
<1>5. stdin \in Seq(1..n) /\ stdin # <<>> /\ serving = None
  BY <1>1 DEF TypeOK, AgentReceive
<1>6. /\ stdin' = t /\ serving' = s /\ s \in 1..n /\ t \in Seq(1..n) /\ s = stdin[1]
      /\ Len(t) = Len(stdin) - 1 /\ Len(stdin) \in Nat \ {0}
      /\ \A a \in 1..Len(t) : t[a] = stdin[a + 1] /\ a + 1 \in 1..Len(stdin)
      /\ \A a \in 2..Len(stdin) : stdin[a] = t[a - 1] /\ a - 1 \in 1..Len(t)
  BY <1>3, <1>4, <1>5, HeadTail DEF AgentReceive
<1>7. s # None /\ InStdin(s) /\ \A a \in 1..Len(t) : t[a] # s
  BY <1>1, <1>6, SMTT(60) DEF InStdin, Pipes, TypeOK
<1>8. \A i : /\ InStdin(i)' <=> InStdin(i) /\ i # s
             /\ InStdout(i)' <=> InStdout(i)
  <2>1. \A i : InStdin(i)' <=> InStdin(i) /\ i # s
    BY <1>6, <1>7 DEF InStdin
  <2>. QED
    BY <2>1, <1>2 DEF InStdout
<1>9. \A i : Answered(i) => Answered(i)'
  BY <1>6, <1>7, <1>8 DEF Answered
<1>10. \A i : Silent(i) => Silent(i)'
  BY <1>8, <1>9 DEF Silent
<1>11. TypeOK'
  BY <1>1, <1>2, <1>6 DEF TypeOK, IsText
<1>12. Untouched'
  BY <1>1, <1>2, <1>10 DEF Untouched, Unsent
<1>13. Pipes'
  <2>1. \A a, b \in 1..Len(t) : t[a] = t[b] => a = b
    BY <1>1, <1>6 DEF Pipes
  <2>2. \A c : c = serving' => ~InStdin(c)'
    BY <1>6, <1>8
  <2>3. (\A a \in 1..Len(stdout) : ~InStdin(stdout[a].call))'
    BY <1>1, <1>2, <1>8 DEF Pipes, InStdin
  <2>4. \A a \in 1..Len(stdout) : stdout[a].kind \in Response => s # stdout[a].call
    BY <1>1, <1>7 DEF Pipes
  <2>5. \A c : c = held /\ c # None => Silent(c.call)'
    BY <1>1, <1>10 DEF Pipes
  <2>6. \A i \in Call : chan'[i] \in Response => Silent(i)'
    BY <1>1, <1>2, <1>10 DEF Pipes
  <2>7. held' # None => Silent(held.call)'
    BY <2>5, <1>2 DEF Silent, Answered, InStdin, InStdout
  <2>8. serving' # None => ~InStdin(serving)'
    BY <2>2 DEF InStdin
  <2>. QED
    BY <2>1, <2>3, <2>4, <2>6, <2>7, <2>8, <1>1, <1>2, <1>6 DEF Pipes
<1>14. Registered'
  BY <1>1, <1>2 DEF Registered
<1>15. Counts'
  BY <1>1, <1>2 DEF Counts
<1>16. Texts'
  BY <1>1, <1>2, <1>9, <1>10 DEF Texts, IsText, Ended, Over
<1>17. Foreign'
  BY <1>1, <1>2, <1>10 DEF Foreign, Ended
<1>18. WholeText' /\ ForeignTextOnlyAfterTimeout'
  BY <1>1, <1>2 DEF WholeText, ForeignTextOnlyAfterTimeout, IsText
<1>. QED
  BY <1>11, <1>12, <1>13, <1>14, <1>15, <1>16, <1>17, <1>18 DEF IInv

\* No part of the invariant but the type speaks of the process.
LEMMA AgentDiesIInv == ASSUME IInv, AgentDies PROVE IInv'
<1>1. UNCHANGED <<pc, n, result, timedOut, pending, chan, readErr, collected, reader,
                  held, sent, stdin, stdout, serving, asked>> /\ agent' = "dead"
  BY DEF AgentDies, workerVars, clientVars, readerVars
<1>2. TypeOK'
  BY <1>1 DEF IInv, TypeOK, IsText
<1>3. Untouched' /\ Pipes'
  BY <1>1 DEF IInv, Untouched, Pipes, Unsent, Silent, Answered, InStdin, InStdout
<1>4. Registered' /\ Counts'
  BY <1>1 DEF IInv, Registered, Counts
<1>5. Texts' /\ Foreign'
  BY <1>1 DEF IInv, Texts, Foreign, Silent, Answered, InStdin, InStdout, IsText, Ended
<1>6. WholeText' /\ ForeignTextOnlyAfterTimeout'
  BY <1>1 DEF IInv, WholeText, ForeignTextOnlyAfterTimeout, IsText
<1>. QED
  BY <1>2, <1>3, <1>4, <1>5, <1>6 DEF IInv

-----------------------------------------------------------------------------
(* The steps of the worker.                                                  *)

\* A call that fails: it takes its channel back, if it had one, and either has
\* timed out or leaves nothing to be read.
LEMMA FailIInv ==
  ASSUME IInv, pc \in {"register", "send", "wait"}, Fail, pending' = {},
         timedOut' \in {timedOut, timedOut \cup {n}},
         n \in timedOut' \/ reader = "stopped" \/ Silent(n),
         UNCHANGED <<n, chan, readErr, collected, readerVars, agentVars, stdin, stdout, asked>>
  PROVE  IInv'
<1> USE BoundAssumption, ValueAssumption
<1>1. /\ TypeOK /\ Untouched /\ Pipes /\ Registered /\ Counts /\ Texts /\ Foreign
      /\ WholeText /\ ForeignTextOnlyAfterTimeout
  BY DEF IInv
<1>2. UNCHANGED <<n, chan, readErr, collected, reader, held, agent, serving, sent,
                  stdin, stdout, asked>>
  BY DEF readerVars, agentVars
<1>3. /\ n \in Call /\ n \in 1..n
      /\ result' = [result EXCEPT ![n] = Failed]
      /\ pc' \in {"ready", "close"}
  BY <1>1 DEF Texts, Fail, Call, TypeOK
<1>4. /\ result'[n] = Failed
      /\ \A i \in Call : i # n => result'[i] = result[i]
      /\ result' \in [Call -> Text \cup {None, Failed}]
  BY <1>1, <1>3 DEF Texts
<1>5. \A i \in Call : IsText(i)' => i # n /\ IsText(i) /\ result'[i] = result[i]
  BY <1>4 DEF IsText
<1>6. \A i : Answered(i)' <=> Answered(i)
  BY <1>2, Still
<1>7. \A i : Silent(i)' <=> Silent(i)
  BY <1>2, Still
<1>8. TypeOK'
  <2>1. timedOut' \subseteq 1..n
    BY <1>1, <1>3 DEF TypeOK
  <2>2. \A i \in Call : IsText(i)' => result'[i] \in Text
    BY <1>1, <1>5 DEF TypeOK
  <2>. QED
    BY <2>1, <2>2, <1>1, <1>2, <1>3 DEF TypeOK, IsText
<1>9. Untouched'
  BY <1>1, <1>2, <1>3, <1>7 DEF Untouched, Unsent
<1>10. Pipes'
  BY <1>1, <1>2 DEF Pipes, Silent, Answered, InStdin, InStdout
<1>11. Registered'
  BY <1>1, <1>2, <1>3 DEF Registered
<1>12. Counts'
  BY <1>1, <1>2 DEF Counts
<1>13. Texts'
  <2>1. \A i \in Call : IsText(i)' => Answered(i)' /\ i < n
    BY <1>1, <1>5, <1>6, <1>3 DEF Texts, Ended, Over
  <2>. QED
    BY <2>1, <1>2, <1>3, <1>4 DEF Texts, Ended, Over
<1>14. Foreign'
  <2>1. \A i \in Call : collected[i] > 0 /\ i # n => i < n /\ i \in timedOut'
    BY <1>1 DEF Foreign
  <2>2. \A i \in Call : Ended(i)' => i = n \/ Ended(i)
    BY <1>2 DEF Ended
  <2>3. \A i \in Call : Ended(i)' /\ i \notin timedOut' => reader = "stopped" \/ Silent(i)
    BY <2>2, <1>1 DEF Foreign
  <2>. QED
    BY <2>1, <2>3, <1>2, <1>7 DEF Foreign
<1>15. WholeText'
  BY <1>1, <1>2, <1>5 DEF WholeText
<1>16. ForeignTextOnlyAfterTimeout'
  BY <1>1, <1>5 DEF ForeignTextOnlyAfterTimeout
<1>. QED
  BY <1>8, <1>9, <1>10, <1>11, <1>12, <1>13, <1>14, <1>15, <1>16 DEF IInv

LEMMA RegisterIInv == ASSUME IInv, Register PROVE IInv'
<1> USE BoundAssumption, ValueAssumption
<1>1. /\ TypeOK /\ Untouched /\ Pipes /\ Registered /\ Counts /\ Texts /\ Foreign
      /\ WholeText /\ ForeignTextOnlyAfterTimeout
  BY DEF IInv
<1>2. /\ pc = "register" /\ pending = {}
      /\ UNCHANGED <<n, timedOut, chan, readErr, collected, readerVars, agentVars,
                     stdin, stdout, asked>>
  BY <1>1 DEF Register, Registered
<1>3. CASE readErr
  BY <1>1, <1>2, <1>3, FailIInv DEF Register, Registered
<1>4. CASE ~readErr
  <2>1. /\ pending' = {n} /\ pc' = "send" /\ n \in Call /\ n \in 1..n
        /\ UNCHANGED <<n, result, timedOut, chan, readErr, collected, reader, held, agent,
                       serving, sent, stdin, stdout, asked>>
    BY <1>1, <1>2, <1>4 DEF Register, readerVars, agentVars, Texts, Call, TypeOK
  <2>2. chan[n] = "empty"
    BY <1>1, <1>2, <2>1 DEF Untouched, Unsent
  <2>3. \A i : (Answered(i)' <=> Answered(i)) /\ (Silent(i)' <=> Silent(i))
    BY <2>1, Still
  <2>4. TypeOK'
    BY <1>1, <2>1 DEF TypeOK, IsText
  <2>5. Untouched'
    BY <1>1, <1>2, <2>1, <2>2, <2>3 DEF Untouched, Unsent
  <2>6. Pipes'
    BY <1>1, <2>1 DEF Pipes, Silent, Answered, InStdin, InStdout
  <2>7. Registered' /\ Counts'
    BY <1>1, <1>2, <2>1, <2>2 DEF Registered, Counts
  <2>8. Texts' /\ Foreign'
    BY <1>1, <1>2, <2>1, <2>3 DEF Texts, Foreign, IsText, Ended, Over
  <2>9. WholeText' /\ ForeignTextOnlyAfterTimeout'
    BY <1>1, <2>1 DEF WholeText, ForeignTextOnlyAfterTimeout, IsText
  <2>. QED
    BY <2>4, <2>5, <2>6, <2>7, <2>8, <2>9 DEF IInv
<1>. QED
  BY <1>3, <1>4

LEMMA TimeoutIInv == ASSUME IInv, Timeout PROVE IInv'
<1>1. pending \ {n} = {}
  BY DEF IInv, Registered
<1>. QED
  BY <1>1, FailIInv DEF Timeout

LEMMA ReceiveFailureIInv == ASSUME IInv, ReceiveFailure PROVE IInv'
<1>1. n \in Call /\ pending \subseteq {n}
  BY DEF IInv, Texts, Registered, ReceiveFailure
<1>2. CASE chan[n] = "error"
  <2>1. Silent(n)
    BY <1>1, <1>2 DEF IInv, Pipes, Response
  <2>. QED
    BY <2>1, <1>1, <1>2, FailIInv DEF ReceiveFailure
<1>3. CASE chan[n] = "closed"
  <2>1. reader = "stopped" /\ pending = {}
    BY <1>1, <1>3 DEF IInv, Registered, ReceiveFailure
  <2>. QED
    BY <2>1, <1>3, FailIInv DEF ReceiveFailure
<1>. QED
  BY <1>2, <1>3 DEF ReceiveFailure

LEMMA SendRequestIInv == ASSUME IInv, SendRequest PROVE IInv'
<1> USE BoundAssumption, ValueAssumption
<1>1. /\ TypeOK /\ Untouched /\ Pipes /\ Registered /\ Counts /\ Texts /\ Foreign
      /\ WholeText /\ ForeignTextOnlyAfterTimeout
  BY DEF IInv
<1>2. /\ pc = "send" /\ n \in Call /\ n \in 1..n /\ pending \subseteq {n}
      /\ UNCHANGED <<n, timedOut, chan, readErr, collected, readerVars, agentVars,
                     stdout, asked>>
  BY <1>1 DEF SendRequest, Registered, Texts, Call, TypeOK
<1>3. /\ Silent(n) /\ sent[n] = 0 /\ collected[n] = 0
      /\ held # None => held.call # n
      /\ chan[n] \in {"empty", "closed"}
  BY <1>1, <1>2 DEF Untouched, Unsent
<1>4. CASE agent # "up"
  <2>1. pending \ {n} = {}
    BY <1>2
  <2>. QED
    BY <2>1, <1>2, <1>3, <1>4, FailIInv DEF SendRequest
<1>5. CASE agent = "up"
  <2>1. /\ stdin' = Append(stdin, n) /\ pc' = "wait"
        /\ UNCHANGED <<n, result, timedOut, pending, chan, readErr, collected, reader, held,
                       agent, serving, sent, stdout, asked>>
    BY <1>2, <1>5 DEF SendRequest, readerVars, agentVars
  <2>2. PICK q : q = Append(stdin, n)
    OBVIOUS
  <2>3. /\ stdin' = q /\ q \in Seq(1..n) /\ stdin \in Seq(1..n)
        /\ Len(q) = Len(stdin) + 1 /\ Len(stdin) \in Nat /\ q[Len(stdin) + 1] = n
        /\ \A a \in 1..Len(stdin) : q[a] = stdin[a]
    BY <1>1, <1>2, <2>1, <2>2, Appended DEF TypeOK
  <2>4. \A i : /\ InStdin(i)' <=> InStdin(i) \/ i = n
               /\ InStdout(i)' <=> InStdout(i)
               /\ i # n => (Answered(i)' <=> Answered(i)) /\ (Silent(i)' <=> Silent(i))
    <3>1. \A i : InStdin(i)' <=> InStdin(i) \/ i = n
      BY <2>3 DEF InStdin
    <3>2. \A i : InStdout(i)' <=> InStdout(i)
      BY <2>1 DEF InStdout
    <3>. QED
      BY <3>1, <3>2, <2>1 DEF Answered, Silent
  <2>5. TypeOK'
    BY <1>1, <2>1, <2>3 DEF TypeOK, IsText
  <2>6. Untouched'
    BY <1>1, <2>1, <2>4, <1>2 DEF Untouched, Unsent
  <2>7. Pipes'
    <3>1. ~InStdin(n) /\ serving # n /\ ~InStdout(n)
      BY <1>3 DEF Silent, Answered
    <3>2. \A a, b \in 1..Len(q) : q[a] = q[b] => a = b
      BY <1>1, <2>3, <3>1 DEF Pipes, InStdin
    <3>3. \A c : c = serving /\ c # None => ~InStdin(c)'
      BY <1>1, <2>4, <3>1 DEF Pipes
    <3>4. (\A a \in 1..Len(stdout) : ~InStdin(stdout[a].call))'
      <4>1. \A a \in 1..Len(stdout) : stdout[a].call # n /\ ~InStdin(stdout[a].call)
        BY <1>1, <3>1 DEF Pipes, InStdout
      <4>2. \A c : ~InStdin(c) /\ c # n => ~InStdin(c)'
        BY <2>4
      <4>3. \A a \in 1..Len(stdout) : \A b \in 1..Len(q) : q[b] # stdout[a].call
        BY <4>1, <4>2, <2>3 DEF InStdin
      <4>. QED
        BY <4>3, <2>1, <2>3 DEF InStdin
    <3>5. \A c : c = held /\ c # None => Silent(c.call)'
      BY <1>1, <1>3, <2>4 DEF Pipes
    <3>6. \A i \in Call : chan[i] \in Response => Silent(i)'
      BY <1>1, <1>3, <2>4 DEF Pipes, Response
    <3>7. held' # None => Silent(held.call)'
      BY <3>5, <2>1 DEF Silent, Answered, InStdin, InStdout
    <3>8. serving' # None => ~InStdin(serving)'
      BY <3>3, <2>1 DEF InStdin
    <3>. QED
      BY <3>2, <3>4, <3>6, <3>7, <3>8, <1>1, <2>1, <2>3 DEF Pipes
  <2>8. Registered' /\ Counts'
    BY <1>1, <1>2, <2>1 DEF Registered, Counts
  <2>9. Texts'
    <3>1. \A i \in Call : IsText(i) => i # n /\ Answered(i)' /\ i < n
      BY <1>1, <1>2, <2>4 DEF Texts, Ended, Over
    <3>. QED
      BY <3>1, <1>1, <1>2, <2>1 DEF Texts, IsText, Ended, Over
  <2>10. Foreign'
    <3>1. \A i \in Call : Ended(i)' => Ended(i) /\ i # n
      BY <1>2, <2>1 DEF Ended, Over, TypeOK
    <3>. QED
      BY <3>1, <1>1, <2>1, <2>4 DEF Foreign
  <2>11. WholeText' /\ ForeignTextOnlyAfterTimeout'
    BY <1>1, <2>1 DEF WholeText, ForeignTextOnlyAfterTimeout, IsText
  <2>. QED
    BY <2>5, <2>6, <2>7, <2>8, <2>9, <2>10, <2>11 DEF IInv
<1>. QED
  BY <1>4, <1>5

LEMMA BeginCallIInv == ASSUME IInv, BeginCall PROVE IInv'
<1> USE BoundAssumption, ValueAssumption
<1>1. /\ TypeOK /\ Untouched /\ Pipes /\ Registered /\ Counts /\ Texts /\ Foreign
      /\ WholeText /\ ForeignTextOnlyAfterTimeout
  BY DEF IInv
<1>2. /\ pc = "ready" /\ pc' = "register" /\ n < MaxCall /\ n' = n + 1
      /\ collected' = IF n + 1 \in Setup THEN collected ELSE NoText
      /\ UNCHANGED <<result, timedOut, pending, chan, readErr, reader, held, agent, serving,
                     sent, stdin, stdout, asked>>
  BY DEF BeginCall, readerVars, agentVars
<1>3. /\ n \in Nat /\ n + 1 \in Call /\ 1..n \subseteq 1..n' /\ n + 1 \in 1..n'
      /\ \A i \in Call : i = n + 1 => i > n
  BY <1>1, <1>2 DEF TypeOK, Call
<1>4. /\ Silent(n + 1) /\ sent[n + 1] = 0 /\ collected[n + 1] = 0 /\ chan[n + 1] = "empty"
      /\ pending = {}
  BY <1>1, <1>2, <1>3 DEF Untouched, Unsent, Registered
<1>5. \A i : (Answered(i)' <=> Answered(i)) /\ (Silent(i)' <=> Silent(i))
  BY <1>2, Still
<1>6. NoText \in Text /\ \A i \in Call : NoText[i] = 0
  <2>1. NoText \in [Call -> 0..MaxChunk] /\ \A i \in Call : NoText[i] = 0
    BY DEF NoText
  <2>. QED
    BY <2>1, TextBound
<1>7. /\ collected' \in Text
      /\ \A i \in Call : collected'[i] \in {0, collected[i]}
  BY <1>1, <1>2, <1>6 DEF TypeOK
<1>8. TypeOK'
  <2>1. held' = None \/ held' \in [kind : {"reply", "error"}, call : 1..n']
    BY <1>1, <1>2, <1>3 DEF TypeOK
  <2>2. stdin' \in Seq(1..n')
    BY <1>1, <1>2, <1>3, SeqWiden DEF TypeOK
  <2>3. stdout' \in Seq(LineType(n'))
    <3>1. LineType(n) \subseteq LineType(n')
      BY <1>3 DEF LineType
    <3>2. stdout \in Seq(LineType(n))
      BY <1>1 DEF TypeOK, LineType
    <3>. QED
      BY <3>1, <3>2, <1>2, SeqWiden
  <2>4. n' \in 0..MaxCall
    BY <1>2, <1>3
  <2>. QED
    BY <2>1, <2>2, <2>3, <2>4, <1>1, <1>2, <1>3, <1>4, <1>7 DEF TypeOK, IsText, LineType
<1>9. Untouched'
  <2>1. \A i \in Call : Unsent(i)' => Unsent(i) /\ collected'[i] = 0
    <3>1. \A i \in Call : Unsent(i)' => Unsent(i)
      BY <1>2, <1>3 DEF Unsent, Call
    <3>2. \A i \in Call : Unsent(i) => collected[i] = 0
      BY <1>1 DEF Untouched
    <3>. QED
      BY <3>1, <3>2, <1>7
  <2>. QED
    BY <2>1, <1>1, <1>2, <1>5 DEF Untouched
<1>10. Pipes'
  BY <1>1, <1>2 DEF Pipes, Silent, Answered, InStdin, InStdout
<1>11. Registered'
  BY <1>1, <1>2, <1>4 DEF Registered
<1>12. Counts'
  <2>1. stdout \in Seq(LineType(n))
    BY <1>1 DEF TypeOK, LineType
  <2>2. Unread(stdout, n + 1) = 0
    <3>1. \A a \in 1..Len(stdout) : stdout[a].call # n + 1
      BY <1>4 DEF Silent, InStdout
    <3>2. \A a \in 1..Len(stdout) : stdout[a] # Line("chunk", n + 1)
      BY <3>1 DEF Line
    <3>. QED
      BY <3>2, <2>1, UnreadNone
  <2>3. \A i \in Call : Unread(stdout, i) \in Nat /\ collected[i] \in Nat /\ sent[i] \in Nat
    BY <1>1, <2>1, UnreadType, TextBound DEF TypeOK
  <2>4. \A i \in Call : collected'[i] + Unread(stdout, i) <= sent[i]
    BY <1>1, <1>7, <2>3 DEF Counts
  <2>5. collected'[n + 1] + Unread(stdout, n + 1) = sent[n + 1]
    BY <1>3, <1>4, <1>7, <2>2
  <2>. QED
    BY <2>4, <2>5, <1>1, <1>2 DEF Counts
<1>13. Texts'
  <2>1. \A i \in Call : Ended(i) => Ended(i)' /\ i # n'
    BY <1>2, <1>3 DEF Ended, Call
  <2>2. \A i \in Call : IsText(i)' => Answered(i)' /\ Ended(i)' /\ i # n'
    BY <2>1, <1>1, <1>2, <1>5 DEF Texts, IsText
  <2>. QED
    BY <2>2, <1>1, <1>2, <1>3 DEF Texts
<1>14. Foreign'
  <2>1. ASSUME NEW i \in Call, Ended(i)'
        PROVE  Ended(i)
    BY <2>1, <1>2, <1>3 DEF Ended, Over, Call
  <2>2. ASSUME NEW i \in Call, collected'[i] > 0
        PROVE  i < n' /\ i \in timedOut
    <3>1. n + 1 \in Setup /\ collected[i] > 0
      BY <2>2, <1>2, <1>6
    <3>2. n \notin Call \/ (n \in Setup /\ n \in Call)
      BY <3>1, <1>3 DEF Setup, Call
    <3>3. i # n
      <4>1. n \in Call => sent[n] = 0 /\ collected[n] <= 0
        <5>1. stdout \in Seq(LineType(n))
          BY <1>1 DEF TypeOK, LineType
        <5>2. \A j \in Call : Unread(stdout, j) \in Nat /\ collected[j] \in Nat
          BY <1>1, <5>1, UnreadType, TextBound DEF TypeOK
        <5>3. n \in Call => sent[n] = 0 /\ collected[n] + Unread(stdout, n) <= sent[n]
          BY <3>2, <1>1 DEF Counts
        <5>. QED
          BY <5>2, <5>3
      <4>2. n \in Call => collected[n] \in Nat
        BY <1>1, TextBound DEF TypeOK
      <4>. QED
        BY <4>1, <4>2, <3>1
    <3>. QED
      BY <3>1, <3>3, <1>1, <1>2, <1>3 DEF Foreign, Call
  <2>. QED
    BY <2>1, <2>2, <1>1, <1>2, <1>5 DEF Foreign
<1>15. WholeText' /\ ForeignTextOnlyAfterTimeout'
  BY <1>1, <1>2 DEF WholeText, ForeignTextOnlyAfterTimeout, IsText
<1>. QED
  BY <1>8, <1>9, <1>10, <1>11, <1>12, <1>13, <1>14, <1>15 DEF IInv

LEMMA ReceiveReplyIInv == ASSUME IInv, ReceiveReply PROVE IInv'
<1> USE BoundAssumption, ValueAssumption
<1>1. /\ TypeOK /\ Untouched /\ Pipes /\ Registered /\ Counts /\ Texts /\ Foreign
      /\ WholeText /\ ForeignTextOnlyAfterTimeout
  BY DEF IInv
<1>2. /\ pc = "wait" /\ pc' \in {"ready", "text"} /\ chan[n] = "reply"
      /\ pending' = pending \ {n}
      /\ UNCHANGED <<n, result, timedOut, chan, readErr, collected, reader, held, agent,
                     serving, sent, stdin, stdout, asked>>
  BY DEF ReceiveReply, readerVars, agentVars
<1>3. n \in Call /\ Silent(n) /\ pending' = {}
  BY <1>1, <1>2 DEF Texts, Pipes, Response, Registered
<1>4. \A i : (Answered(i)' <=> Answered(i)) /\ (Silent(i)' <=> Silent(i))
  BY <1>2, Still
<1>5. TypeOK'
  BY <1>1, <1>2, <1>3 DEF TypeOK, IsText
<1>6. Untouched'
  BY <1>1, <1>2, <1>4 DEF Untouched, Unsent
<1>7. Pipes'
  BY <1>1, <1>2 DEF Pipes, Silent, Answered, InStdin, InStdout
<1>8. Registered' /\ Counts'
  BY <1>1, <1>2, <1>3 DEF Registered, Counts
<1>9. Texts'
  <2>1. \A i \in Call : IsText(i)' => Answered(i)' /\ i < n
    BY <1>1, <1>2, <1>4 DEF Texts, IsText, Ended, Over
  <2>2. \A i \in Call : i < n => i # n
    BY <1>3 DEF Call
  <2>. QED
    BY <2>1, <2>2, <1>1, <1>2, <1>3, <1>4 DEF Texts, Ended
<1>10. Foreign'
  BY <1>1, <1>2, <1>3, <1>4 DEF Foreign, Ended, Over
<1>11. WholeText' /\ ForeignTextOnlyAfterTimeout'
  BY <1>1, <1>2 DEF WholeText, ForeignTextOnlyAfterTimeout, IsText
<1>. QED
  BY <1>5, <1>6, <1>7, <1>8, <1>9, <1>10, <1>11 DEF IInv

LEMMA TakeTextIInv == ASSUME IInv, TakeText PROVE IInv'
<1> USE BoundAssumption, ValueAssumption
<1>1. /\ TypeOK /\ Untouched /\ Pipes /\ Registered /\ Counts /\ Texts /\ Foreign
      /\ WholeText /\ ForeignTextOnlyAfterTimeout
  BY DEF IInv
<1>2. /\ pc = "text" /\ pc' = "ready" /\ result' = [result EXCEPT ![n] = collected]
      /\ UNCHANGED <<n, timedOut, pending, chan, readErr, collected, reader, held, agent,
                     serving, sent, stdin, stdout, asked>>
  BY DEF TakeText, readerVars, agentVars, clientVars
<1>3. n \in Call /\ Silent(n) /\ collected \in Text
  BY <1>1, <1>2 DEF Texts, TypeOK
<1>4. /\ result'[n] = collected
      /\ \A i \in Call : i # n => result'[i] = result[i]
      /\ result' \in [Call -> Text \cup {None, Failed}]
  BY <1>1, <1>2, <1>3 DEF Texts
<1>5. \A i \in Call : IsText(i)' => i = n \/ (i # n /\ IsText(i) /\ result'[i] = result[i])
  BY <1>4 DEF IsText
<1>6. \A i : (Answered(i)' <=> Answered(i)) /\ (Silent(i)' <=> Silent(i))
  BY <1>2, Still
<1>7. TypeOK'
  <2>1. \A i \in Call : IsText(i)' => result'[i] \in Text
    BY <1>1, <1>3, <1>4, <1>5 DEF TypeOK
  <2>. QED
    BY <2>1, <1>1, <1>2 DEF TypeOK, IsText
<1>8. Untouched'
  BY <1>1, <1>2, <1>6 DEF Untouched, Unsent
<1>9. Pipes'
  BY <1>1, <1>2 DEF Pipes, Silent, Answered, InStdin, InStdout
<1>10. Registered' /\ Counts'
  BY <1>1, <1>2 DEF Registered, Counts
<1>11. Texts'
  <2>1. \A i \in Call : IsText(i)' => Answered(i) /\ Ended(i)'
    BY <1>1, <1>2, <1>3, <1>5 DEF Texts, Ended, Over, Silent
  <2>. QED
    BY <2>1, <1>2, <1>3, <1>4, <1>6 DEF Texts
<1>12. Foreign'
  BY <1>1, <1>2, <1>6 DEF Foreign, Ended, Over
<1>13. WholeText'
  <2>1. collected[n] = sent[n]
    <3>1. stdout \in Seq(LineType(n)) /\ collected[n] \in Nat /\ sent[n] \in Nat
      BY <1>1, <1>3, TextBound DEF TypeOK, LineType
    <3>2. \A a \in 1..Len(stdout) : stdout[a].call # n
      BY <1>3 DEF Silent, InStdout
    <3>3. \A a \in 1..Len(stdout) : stdout[a] # Line("chunk", n)
      BY <3>2 DEF Line
    <3>4. Unread(stdout, n) = 0
      BY <3>1, <3>3, UnreadNone
    <3>5. collected[n] + Unread(stdout, n) = sent[n]
      BY <1>1, <1>3 DEF Counts
    <3>. QED
      BY <3>1, <3>4, <3>5
  <2>. QED
    BY <2>1, <1>1, <1>2, <1>4, <1>5 DEF WholeText
<1>14. ForeignTextOnlyAfterTimeout'
  <2>1. ASSUME NEW i \in Call, NEW j \in Call, IsText(i)', i # j, result'[i][j] > 0
        PROVE  j < i /\ j \in timedOut
    <3>1. CASE i = n
      BY <2>1, <3>1, <1>1, <1>4 DEF Foreign
    <3>2. CASE i # n
      BY <2>1, <3>2, <1>1, <1>5 DEF ForeignTextOnlyAfterTimeout
    <3>. QED BY <3>1, <3>2
  <2>. QED
    BY <2>1, <1>2 DEF ForeignTextOnlyAfterTimeout
<1>. QED
  BY <1>7, <1>8, <1>9, <1>10, <1>11, <1>12, <1>13, <1>14 DEF IInv

\* Closing: nothing is registered by then, so no channel is closed.
LEMMA ClosingIInv ==
  ASSUME IInv,
         \/ pc = "ready" /\ pc' = "close"
         \/ pc = "close" /\ pc' = "join"
         \/ pc = "join" /\ pc' = "closed" /\ reader = "stopped",
         agent' \in {"up", "dead"}, chan' = chan, pending' = pending,
         UNCHANGED <<n, result, timedOut, readErr, collected, readerVars, serving, sent,
                     stdin, stdout, asked>>
  PROVE  IInv'
<1>1. /\ TypeOK /\ Untouched /\ Pipes /\ Registered /\ Counts /\ Texts /\ Foreign
      /\ WholeText /\ ForeignTextOnlyAfterTimeout
  BY DEF IInv
<1>2. UNCHANGED <<n, result, timedOut, pending, chan, readErr, collected, reader, held,
                  serving, sent, stdin, stdout, asked>>
  BY DEF readerVars
<1>3. \A i : (Answered(i)' <=> Answered(i)) /\ (Silent(i)' <=> Silent(i))
  BY <1>2, Still
<1>4. TypeOK'
  BY <1>1, <1>2 DEF TypeOK, IsText
<1>5. Untouched'
  BY <1>1, <1>2, <1>3 DEF Untouched, Unsent
<1>6. Pipes'
  BY <1>1, <1>2 DEF Pipes, Silent, Answered, InStdin, InStdout
<1>7. Registered' /\ Counts'
  BY <1>1, <1>2 DEF Registered, Counts
<1>8. Texts' /\ Foreign'
  BY <1>1, <1>2, <1>3 DEF Texts, Foreign, IsText, Ended, Over
<1>9. WholeText' /\ ForeignTextOnlyAfterTimeout'
  BY <1>1, <1>2 DEF WholeText, ForeignTextOnlyAfterTimeout, IsText
<1>. QED
  BY <1>4, <1>5, <1>6, <1>7, <1>8, <1>9 DEF IInv

LEMMA BeginCloseIInv == ASSUME IInv, BeginClose PROVE IInv'
BY ClosingIInv DEF BeginClose, clientVars, agentVars, IInv, TypeOK

LEMMA JoinIInv == ASSUME IInv, Join PROVE IInv'
BY ClosingIInv DEF Join, clientVars, agentVars, IInv, TypeOK

LEMMA CloseAndKillIInv == ASSUME IInv, CloseAndKill PROVE IInv'
<1>1. pending = {} /\ chan \in [Call -> {"empty", "reply", "error", "closed"}]
  BY DEF CloseAndKill, IInv, Registered, TypeOK
<1>2. chan' = chan /\ pending' = pending
  BY <1>1 DEF CloseAndKill
<1>. QED
  BY <1>2, ClosingIInv DEF CloseAndKill

-----------------------------------------------------------------------------
(* The steps of readLoop.                                                    *)

\* What is kept when it reads a line, whatever it does with the line's call.
LEMMA LineIInv ==
  ASSUME IInv, NEW kind, NextLine(kind), reader' \in {"run", "stopped"},
         collected' = IF kind = "chunk"
                      THEN [collected EXCEPT ![Head(stdout).call] = @ + 1] ELSE collected,
         UNCHANGED <<workerVars, agentVars, stdin>>
  PROVE  /\ collected' \in Text /\ \A i \in Call : Unsent(i) => collected'[i] = 0
         /\ Counts' /\ Texts' /\ Foreign' /\ WholeText' /\ ForeignTextOnlyAfterTimeout'
<1> USE BoundAssumption, ValueAssumption
<1>1. /\ TypeOK /\ Untouched /\ Pipes /\ Registered /\ Counts /\ Texts /\ Foreign
      /\ WholeText /\ ForeignTextOnlyAfterTimeout
  BY DEF IInv
<1>2. /\ reader = "run" /\ stdout # <<>> /\ Head(stdout).kind = kind
      /\ stdout' = Tail(stdout)
      /\ UNCHANGED <<pc, n, result, timedOut, agent, serving, sent, stdin>>
  BY DEF NextLine, workerVars, agentVars
<1>3. PICK c : c = Head(stdout).call
  OBVIOUS
<1>4. PICK h : h = Head(stdout)
  OBVIOUS
<1>5. /\ h \in LineType(n) /\ c = h.call /\ c \in 1..n /\ c \in Call /\ InStdout(c)
      /\ \A i : (Answered(i)' <=> Answered(i)) /\ (Silent(i) => Silent(i)')
      /\ \A i : Unread(stdout, i) =
                  Unread(stdout', i) + (IF h = Line("chunk", i) THEN 1 ELSE 0)
      /\ stdout' \in Seq(LineType(n)) /\ stdout \in Seq(LineType(n))
      /\ n \in Nat
  <2>1. stdout \in Seq(LineType(n)) /\ n \in 0..MaxCall
    BY <1>1 DEF TypeOK, LineType
  <2>2. h \in LineType(n) /\ c = h.call
    BY <1>2, <1>3, <1>4, LineRead
  <2>3. c \in 1..n /\ c \in Call
    BY <2>1, <2>2 DEF LineType, Call
  <2>. QED
    BY <2>1, <2>2, <2>3, <1>2, <1>3, <1>4, LineRead
<1>6. \A i \in Call : h = Line("chunk", i) <=> kind = "chunk" /\ i = c
  BY <1>2, <1>4, <1>5 DEF Line, LineType
<1>7. ~Silent(c)
  BY <1>5 DEF Silent
<1>8. \A i \in Call : /\ Unread(stdout, i) \in Nat /\ Unread(stdout', i) \in Nat
                      /\ collected[i] \in Nat /\ sent[i] \in Nat
  BY <1>1, <1>5, UnreadType, TextBound DEF TypeOK
<1>9. \A i \in Call : Unread(stdout, i) =
                        Unread(stdout', i) + (IF kind = "chunk" /\ i = c THEN 1 ELSE 0)
  BY <1>5, <1>6
<1>10. /\ collected' \in Text
       /\ \A i \in Call : collected'[i] =
                            collected[i] + (IF kind = "chunk" /\ i = c THEN 1 ELSE 0)
  <2>1. CASE kind = "chunk"
    <3> DEFINE x == collected[c] + 1
    <3>1. collected' = [collected EXCEPT ![c] = x]
      BY <2>1, <1>3
    <3>2. x \in 0..MaxChunk
      <4>1. collected[c] + Unread(stdout, c) <= sent[c] /\ sent[c] <= MaxChunk
        BY <1>1, <1>5 DEF Counts
      <4>2. Unread(stdout, c) = Unread(stdout', c) + 1
        BY <1>9, <1>5, <2>1
      <4>3. /\ Unread(stdout, c) \in Nat /\ Unread(stdout', c) \in Nat
            /\ collected[c] \in Nat /\ sent[c] \in Nat
        BY <1>5, <1>8
      <4>. QED
        BY <4>1, <4>2, <4>3
    <3>3. collected \in Text
      BY <1>1 DEF TypeOK
    <3> HIDE DEF x
    <3>4. collected' \in Text
      <4>1. c \in Call
        BY <1>5
      <4>2. [collected EXCEPT ![c] = x] \in Text
        BY <4>1, <3>2, <3>3, TextBound, Zenon
      <4>. QED
        BY <4>2, <3>1
    <3>. QED
      BY <3>1, <3>3, <3>4, <1>5, <1>8, <2>1, SMTT(60) DEF Text, x
  <2>2. CASE kind # "chunk"
    BY <2>2, <1>1, <1>8 DEF TypeOK
  <2>. QED BY <2>1, <2>2
<1>11. \A i \in Call : Unsent(i) => i # c /\ collected'[i] = 0
  BY <1>1, <1>7, <1>10 DEF Untouched
<1>12. Counts'
  <2>1. ASSUME NEW i \in Call
        PROVE  /\ collected'[i] + Unread(stdout', i) <= sent[i]
               /\ i = n => collected'[i] + Unread(stdout', i) = sent[i]
    <3>1. collected'[i] + Unread(stdout', i) = collected[i] + Unread(stdout, i)
      BY <1>8, <1>9, <1>10
    <3>. QED
      BY <3>1, <1>1 DEF Counts
  <2>. QED
    BY <2>1, <1>1, <1>2 DEF Counts
<1>13. Texts'
  BY <1>1, <1>2, <1>5 DEF Texts, IsText, Ended, Over
<1>14. Foreign'
  <2>1. \A i \in Call : Ended(i)' <=> Ended(i)
    BY <1>2 DEF Ended
  <2>2. \A i \in Call : Ended(i) /\ i \notin timedOut => Silent(i)
    BY <1>1, <1>2 DEF Foreign
  <2>3. ASSUME NEW i \in Call, collected'[i] > 0, i # n
        PROVE  i < n /\ i \in timedOut
    <3>1. CASE kind = "chunk" /\ i = c
      <4>1. i < n
        BY <3>1, <2>3, <1>5
      <4>. QED
        BY <4>1, <3>1, <2>2, <1>7 DEF Ended
    <3>2. CASE ~(kind = "chunk" /\ i = c)
      BY <3>2, <2>3, <1>1, <1>8, <1>10 DEF Foreign
    <3>. QED BY <3>1, <3>2
  <2>. QED
    BY <2>1, <2>2, <2>3, <1>2, <1>5 DEF Foreign
<1>15. WholeText' /\ ForeignTextOnlyAfterTimeout'
  BY <1>1, <1>2 DEF WholeText, ForeignTextOnlyAfterTimeout, IsText
<1>. QED
  BY <1>10, <1>11, <1>12, <1>13, <1>14, <1>15

\* What it does with the pipes, when it has only taken a line.
LEMMA LinePipes ==
  ASSUME IInv, stdout # <<>>, stdout' = Tail(stdout),
         UNCHANGED <<stdin, serving, held, chan>>
  PROVE  Pipes'
<1>1. Pipes
  BY DEF IInv
<1>2. /\ \A i : (Silent(i) => Silent(i)') /\ (InStdin(i)' <=> InStdin(i))
      /\ \A a \in 1..Len(stdout') : stdout'[a].kind \in Response =>
           /\ serving' # stdout'[a].call
           /\ \A b \in 1..Len(stdout') : b > a => stdout'[b].call # stdout'[a].call
      /\ (\A a \in 1..Len(stdout) : ~InStdin(stdout[a].call))'
  BY LineRead
<1>3. serving' # None => ~InStdin(serving)'
  BY <1>1 DEF Pipes, InStdin
<1>4. \A c : c = held /\ c # None => Silent(c.call)'
  BY <1>1, <1>2 DEF Pipes
<1>5. held' # None => Silent(held.call)'
  BY <1>4 DEF Silent, Answered, InStdin, InStdout
<1>6. \A i \in Call : chan'[i] \in Response => Silent(i)'
  BY <1>1, <1>2 DEF Pipes
<1>. QED
  BY <1>1, <1>2, <1>3, <1>5, <1>6 DEF Pipes

LEMMA ReadChunkIInv == ASSUME IInv, ReadChunk PROVE IInv'
<1>1. /\ NextLine("chunk")
      /\ collected' = [collected EXCEPT ![Head(stdout).call] = @ + 1]
      /\ UNCHANGED <<workerVars, agentVars, pending, chan, readErr, reader, held, stdin, asked>>
      /\ UNCHANGED <<pc, n, result, timedOut, agent, serving, sent>>
      /\ stdout # <<>> /\ stdout' = Tail(stdout)
  BY DEF ReadChunk, readerVars, workerVars, agentVars, NextLine
<1>2. reader' \in {"run", "stopped"}
  BY <1>1 DEF IInv, TypeOK
<1>3. /\ collected' \in Text /\ \A i \in Call : Unsent(i) => collected'[i] = 0
      /\ Counts' /\ Texts' /\ Foreign' /\ WholeText' /\ ForeignTextOnlyAfterTimeout'
  BY <1>1, <1>2, LineIInv
<1>4. stdout' \in Seq(LineType(n)) /\ \A i : Silent(i) => Silent(i)'
  BY <1>1, LineRead
<1>5. TypeOK'
  BY <1>1, <1>3, <1>4 DEF IInv, TypeOK, IsText, LineType
<1>6. Untouched'
  BY <1>1, <1>3, <1>4 DEF IInv, Untouched, Unsent
<1>7. Pipes'
  BY <1>1, LinePipes
<1>8. Registered'
  BY <1>1 DEF IInv, Registered
<1>. QED
  BY <1>3, <1>5, <1>6, <1>7, <1>8 DEF IInv

LEMMA ReadRequestIInv == ASSUME IInv, ReadRequest PROVE IInv'
<1>0. PICK kind \in Request : NextLine(kind)
  BY DEF ReadRequest, Request
<1>1. /\ NextLine(kind) /\ kind # "chunk"
      /\ asked' \in Request \cup {"no"}
      /\ UNCHANGED <<workerVars, agentVars, pending, chan, readErr, collected, reader, held, stdin>>
      /\ UNCHANGED <<pc, n, result, timedOut, agent, serving, sent>>
      /\ stdout # <<>> /\ stdout' = Tail(stdout)
  BY <1>0 DEF ReadRequest, Request, IInv, TypeOK, readerVars, clientVars, workerVars, agentVars, NextLine
<1>2. reader' \in {"run", "stopped"} /\ collected' = collected
  BY <1>1 DEF IInv, TypeOK
<1>3. /\ collected' \in Text /\ \A i \in Call : Unsent(i) => collected'[i] = 0
      /\ Counts' /\ Texts' /\ Foreign' /\ WholeText' /\ ForeignTextOnlyAfterTimeout'
  BY <1>1, <1>2, LineIInv
<1>4. stdout' \in Seq(LineType(n)) /\ \A i : Silent(i) => Silent(i)'
  BY <1>1, LineRead
<1>5. TypeOK'
  BY <1>1, <1>3, <1>4 DEF IInv, TypeOK, IsText, LineType
<1>6. Untouched'
  BY <1>1, <1>3, <1>4 DEF IInv, Untouched, Unsent
<1>7. Pipes'
  BY <1>1, LinePipes
<1>8. Registered'
  BY <1>1 DEF IInv, Registered
<1>. QED
  BY <1>3, <1>5, <1>6, <1>7, <1>8 DEF IInv

LEMMA ReadResponseIInv == ASSUME IInv, ReadResponse PROVE IInv'
<1> USE BoundAssumption, ValueAssumption
<1>1. PICK kind \in Response :
        /\ NextLine(kind)
        /\ held' = IF Head(stdout).call \in pending THEN Head(stdout) ELSE None
        /\ pending' = pending \ {Head(stdout).call}
        /\ UNCHANGED <<workerVars, chan, readErr, collected, reader, agentVars, stdin, asked>>
  BY DEF ReadResponse, Response
<1>2. /\ reader = "run" /\ stdout # <<>> /\ stdout' = Tail(stdout) /\ Head(stdout).kind = kind
      /\ UNCHANGED <<pc, n, result, timedOut, agent, serving, sent, chan, readErr, collected,
                     reader, stdin, asked>>
      /\ kind # "chunk"
  BY <1>1 DEF workerVars, agentVars, NextLine, Response
<1>3. reader' \in {"run", "stopped"}
  BY <1>2
<1>4. /\ collected' \in Text /\ \A i \in Call : Unsent(i) => collected'[i] = 0
      /\ Counts' /\ Texts' /\ Foreign' /\ WholeText' /\ ForeignTextOnlyAfterTimeout'
  BY <1>1, <1>2, <1>3, LineIInv
<1>5. PICK h : h = Head(stdout)
  OBVIOUS
<1>6. PICK c : c = h.call
  OBVIOUS
<1>7. /\ h \in LineType(n) /\ h.kind \in Response /\ InStdout(c) /\ Silent(c)'
      /\ held' = IF c \in pending THEN h ELSE None
      /\ pending' = pending \ {c}
      /\ stdout' \in Seq(LineType(n)) /\ \A i : Silent(i) => Silent(i)'
  BY <1>1, <1>2, <1>5, <1>6, LineRead
<1>8. ~Silent(c) /\ h \in [kind : {"reply", "error"}, call : 1..n]
  BY <1>7 DEF Silent, LineType, Response
<1>9. TypeOK'
  <2>1. held' = None \/ held' \in [kind : {"reply", "error"}, call : 1..n']
    BY <1>2, <1>7, <1>8
  <2>. QED
    BY <2>1, <1>2, <1>4, <1>7 DEF IInv, TypeOK, IsText, LineType
<1>10. Untouched'
  <2>1. \A i \in Call : Unsent(i) => i # c
    BY <1>8 DEF IInv, Untouched
  <2>2. held' # None => held' = h
    BY <1>7
  <2>. QED
    BY <2>1, <2>2, <1>2, <1>4, <1>6, <1>7 DEF IInv, Untouched, Unsent
<1>11. Pipes'
  <2>1. Pipes
    BY DEF IInv
  <2>2. /\ \A i : InStdin(i)' <=> InStdin(i)
        /\ \A a \in 1..Len(stdout') : stdout'[a].kind \in Response =>
             /\ serving' # stdout'[a].call
             /\ \A b \in 1..Len(stdout') : b > a => stdout'[b].call # stdout'[a].call
        /\ (\A a \in 1..Len(stdout) : ~InStdin(stdout[a].call))'
    BY <1>2, LineRead
  <2>3. serving' # None => ~InStdin(serving)'
    BY <2>1, <1>2 DEF Pipes, InStdin
  <2>4. \A d : d = held' /\ d # None => Silent(d.call)'
    BY <1>6, <1>7
  <2>5. held' # None => Silent(held.call)'
    BY <2>4 DEF Silent, Answered, InStdin, InStdout
  <2>6. \A i \in Call : chan'[i] \in Response => Silent(i)'
    BY <2>1, <1>2, <1>7 DEF Pipes
  <2>. QED
    BY <2>1, <2>2, <2>3, <2>5, <2>6, <1>2 DEF Pipes
<1>12. Registered'
  BY <1>2, <1>7 DEF IInv, Registered
<1>. QED
  BY <1>4, <1>9, <1>10, <1>11, <1>12 DEF IInv

LEMMA DeliverIInv == ASSUME IInv, Deliver PROVE IInv'
<1> USE BoundAssumption, ValueAssumption
<1>1. /\ TypeOK /\ Untouched /\ Pipes /\ Registered /\ Counts /\ Texts /\ Foreign
      /\ WholeText /\ ForeignTextOnlyAfterTimeout
  BY DEF IInv
<1>2. PICK c : c = held.call
  OBVIOUS
<1>3. /\ held # None /\ held' = None /\ chan' = [chan EXCEPT ![c] = IF @ = "empty" THEN held.kind ELSE @]
      /\ UNCHANGED <<pc, n, result, timedOut, pending, readErr, collected, reader, agent,
                     serving, sent, stdin, stdout, asked>>
  BY <1>2 DEF Deliver, workerVars, agentVars
<1>4. c \in 1..n /\ c \in Call /\ held.kind \in Response /\ Silent(c)
      /\ chan \in [Call -> {"empty", "reply", "error", "closed"}]
  BY <1>1, <1>2, <1>3 DEF TypeOK, Call, Response, Pipes
<1>5. /\ chan' \in [Call -> {"empty", "reply", "error", "closed"}]
      /\ \A i \in Call : chan'[i] # chan[i] => i = c /\ chan'[i] \in Response
  BY <1>3, <1>4 DEF Response
<1>6. \A i : (Answered(i)' <=> Answered(i)) /\ (Silent(i)' <=> Silent(i))
  BY <1>3, Still
<1>7. TypeOK'
  BY <1>1, <1>3, <1>5 DEF TypeOK, IsText
<1>8. Untouched'
  <2>1. \A i \in Call : Unsent(i) => i # c
    BY <1>1, <1>2, <1>3 DEF Untouched
  <2>. QED
    BY <2>1, <1>1, <1>3, <1>5, <1>6 DEF Untouched, Unsent
<1>9. Pipes'
  <2>1. \A i \in Call : chan'[i] \in Response => Silent(i)'
    BY <1>1, <1>4, <1>5, <1>6 DEF Pipes
  <2>. QED
    BY <2>1, <1>1, <1>3 DEF Pipes, InStdin
<1>10. Registered'
  BY <1>1, <1>3, <1>5 DEF Registered, Response
<1>11. Counts'
  BY <1>1, <1>3 DEF Counts
<1>12. Texts' /\ Foreign'
  BY <1>1, <1>3, <1>6 DEF Texts, Foreign, IsText, Ended, Over
<1>13. WholeText' /\ ForeignTextOnlyAfterTimeout'
  BY <1>1, <1>3 DEF WholeText, ForeignTextOnlyAfterTimeout, IsText
<1>. QED
  BY <1>7, <1>8, <1>9, <1>10, <1>11, <1>12, <1>13 DEF IInv

\* readLoop stops, and closes the channel of the call being made, if any.
LEMMA StopIInv ==
  ASSUME IInv, reader = "run", held = None, reader' = "stopped", held' = None,
         readErr' \in BOOLEAN,
         \/ UNCHANGED <<pending, chan>>
         \/ /\ pending' = {}
            /\ chan' = [i \in Call |-> IF i \in pending THEN "closed" ELSE chan[i]],
         UNCHANGED <<workerVars, collected, agentVars, stdin, asked>>,
         UNCHANGED stdout \/ NextLine("huge")
  PROVE  IInv'
<1> USE BoundAssumption, ValueAssumption
<1>1. /\ TypeOK /\ Untouched /\ Pipes /\ Registered /\ Counts /\ Texts /\ Foreign
      /\ WholeText /\ ForeignTextOnlyAfterTimeout
  BY DEF IInv
<1>2. UNCHANGED <<pc, n, result, timedOut, agent, serving, sent, collected, stdin, asked>>
  BY DEF workerVars, agentVars
<1>3. /\ pending' \subseteq pending
      /\ chan' \in [Call -> {"empty", "reply", "error", "closed"}]
      /\ \A i \in Call : chan'[i] = chan[i] \/ (i \in pending /\ i \notin pending' /\ chan'[i] = "closed")
      /\ \A i \in Call : i \in pending' => chan'[i] = chan[i]
  BY <1>1 DEF TypeOK
<1>4. /\ Counts' /\ Texts' /\ Foreign' /\ WholeText' /\ ForeignTextOnlyAfterTimeout'
      /\ \A i : Silent(i) => Silent(i)'
      /\ stdout' \in Seq(LineType(n))
  <2>1. CASE UNCHANGED stdout
    <3>1. \A i : (Answered(i)' <=> Answered(i)) /\ (Silent(i)' <=> Silent(i))
      BY <2>1, <1>2, Still
    <3>2. Counts' /\ stdout' \in Seq(LineType(n))
      BY <2>1, <1>1, <1>2 DEF Counts, TypeOK, LineType
    <3>3. Texts' /\ Foreign'
      BY <3>1, <1>1, <1>2 DEF Texts, Foreign, IsText, Ended, Over
    <3>4. WholeText' /\ ForeignTextOnlyAfterTimeout'
      BY <1>1, <1>2 DEF WholeText, ForeignTextOnlyAfterTimeout, IsText
    <3>. QED
      BY <3>1, <3>2, <3>3, <3>4
  <2>2. CASE NextLine("huge")
    <3>1. Counts' /\ Texts' /\ Foreign' /\ WholeText' /\ ForeignTextOnlyAfterTimeout'
      BY <2>2, LineIInv
    <3>2. (\A i : Silent(i) => Silent(i)') /\ stdout' \in Seq(LineType(n))
      BY <2>2, <1>2, LineRead DEF NextLine
    <3>. QED
      BY <3>1, <3>2
  <2>. QED BY <2>1, <2>2
<1>5. TypeOK'
  BY <1>1, <1>2, <1>3, <1>4 DEF TypeOK, IsText, LineType
<1>6. Untouched'
  <2>1. ASSUME NEW i \in Call, Unsent(i)'
        PROVE  IF pc' = "send" /\ i = n' THEN chan'[i] \in {"empty", "closed"} ELSE chan'[i] = "empty"
    <3>1. Unsent(i)
      BY <2>1, <1>2 DEF Unsent
    <3>2. CASE chan'[i] = chan[i]
      BY <3>1, <3>2, <1>1, <1>2 DEF Untouched
    <3>3. CASE i \in pending /\ chan'[i] = "closed"
      <4>1. i = n /\ pc \in {"send", "wait"} /\ n \in Nat
        BY <3>3, <1>1 DEF Registered, TypeOK
      <4>2. pc = "send"
        BY <4>1, <3>1 DEF Unsent
      <4>. QED
        BY <4>1, <4>2, <3>3, <1>2
    <3>. QED BY <3>2, <3>3, <1>3
  <2>. QED
    BY <2>1, <1>1, <1>2, <1>4 DEF Untouched, Unsent
<1>7. Pipes'
  <2>1. \A i \in Call : chan'[i] \in Response => Silent(i)'
    BY <1>1, <1>3, <1>4 DEF Pipes, Response
  <2>2. CASE UNCHANGED stdout
    BY <2>1, <2>2, <1>1, <1>2 DEF Pipes, InStdin
  <2>3. CASE NextLine("huge")
    <3>1. /\ \A a \in 1..Len(stdout') : stdout'[a].kind \in Response =>
               /\ serving' # stdout'[a].call
               /\ \A b \in 1..Len(stdout') : b > a => stdout'[b].call # stdout'[a].call
          /\ (\A a \in 1..Len(stdout) : ~InStdin(stdout[a].call))'
      BY <2>3, <1>2, LineRead DEF NextLine
    <3>2. serving' # None => ~InStdin(serving)'
      BY <1>1, <1>2 DEF Pipes, InStdin
    <3>. QED
      BY <2>1, <3>1, <3>2, <1>1, <1>2 DEF Pipes
  <2>. QED BY <2>2, <2>3
<1>8. Registered'
  BY <1>1, <1>2, <1>3 DEF Registered
<1>. QED
  BY <1>4, <1>5, <1>6, <1>7, <1>8 DEF IInv

LEMMA ReadErrorIInv == ASSUME IInv, ReadError PROVE IInv'
<1>1. UNCHANGED stdout \/ NextLine("huge")
  BY DEF ReadError
<1>. QED
  BY <1>1, StopIInv DEF ReadError, NextLine

LEMMA ReadEOFIInv == ASSUME IInv, ReadEOF PROVE IInv'
<1>1. readErr' \in BOOLEAN
  BY DEF ReadEOF, clientVars, IInv, TypeOK
<1>. QED
  BY <1>1, StopIInv DEF ReadEOF, clientVars

-----------------------------------------------------------------------------
(* The theorems.                                                             *)

LEMMA InitIInv == ASSUME Init PROVE IInv
<1> USE BoundAssumption, ValueAssumption
<1>1. NoText \in Text /\ \A i \in Call : NoText[i] = 0
  <2>1. NoText \in [Call -> 0..MaxChunk] /\ \A i \in Call : NoText[i] = 0
    BY DEF NoText
  <2>. QED
    BY <2>1, TextBound
<1>2. stdout = <<>> /\ stdin = <<>> /\ Len(stdout) = 0 /\ Len(stdin) = 0
  BY DEF Init
<1>3. \A i : ~InStdin(i) /\ ~InStdout(i)
  BY <1>2 DEF InStdin, InStdout
<1>4. \A i \in Call : Silent(i) /\ Unread(stdout, i) = 0
  <2>1. \A i \in Call : Silent(i)
    BY <1>3 DEF Init, Silent, Answered, Call
  <2>2. stdout \in Seq(LineType(n))
    BY <1>2
  <2>3. ASSUME NEW i \in Call PROVE Unread(stdout, i) = 0
    <3>1. \A a \in 1..Len(stdout) : stdout[a] # Line("chunk", i)
      BY <1>2
    <3>. QED
      BY <3>1, <2>2, UnreadNone
  <2>. QED
    BY <2>1, <2>3
<1>5. \A i \in Call : ~IsText(i)
  BY DEF Init, IsText
<1>6. TypeOK
  <2>1. /\ n \in 0..MaxCall /\ pending \subseteq 1..n /\ timedOut \subseteq 1..n
        /\ stdin \in Seq(1..n)
        /\ stdout \in Seq([kind : {"chunk", "intRequest", "otherRequest", "reply", "error", "huge"}, call : 1..n])
    BY DEF Init
  <2>2. chan \in [Call -> {"empty", "reply", "error", "closed"}]
    BY DEF Init
  <2>. QED
    BY <2>1, <2>2, <1>1, <1>5 DEF Init, TypeOK
<1>7. Untouched
  BY <1>1, <1>4 DEF Init, Untouched
<1>8. Pipes
  BY <1>2 DEF Init, Pipes, Response
<1>9. Registered
  BY DEF Init, Registered
<1>10. Counts
  BY <1>1, <1>4 DEF Init, Counts
<1>11. Texts
  BY <1>5 DEF Init, Texts
<1>12. Foreign
  BY <1>1, <1>4 DEF Init, Foreign
<1>13. WholeText /\ ForeignTextOnlyAfterTimeout
  BY <1>5 DEF WholeText, ForeignTextOnlyAfterTimeout
<1>. QED
  BY <1>6, <1>7, <1>8, <1>9, <1>10, <1>11, <1>12, <1>13 DEF IInv

LEMMA NextIInv == ASSUME IInv, [Next]_vars PROVE IInv'
<1>1. CASE UNCHANGED vars
  <2>1. UNCHANGED <<pc, n, result, timedOut, pending, chan, readErr, collected, reader, held,
                    agent, serving, sent, stdin, stdout, asked>>
    BY <1>1 DEF vars, workerVars, clientVars, readerVars, agentVars
  <2>2. TypeOK'
    BY <2>1 DEF IInv, TypeOK, IsText
  <2>3. Untouched' /\ Pipes'
    BY <2>1 DEF IInv, Untouched, Pipes, Unsent, Silent, Answered, InStdin, InStdout
  <2>4. Registered' /\ Counts'
    BY <2>1 DEF IInv, Registered, Counts
  <2>5. Texts' /\ Foreign'
    BY <2>1 DEF IInv, Texts, Foreign, Silent, Answered, InStdin, InStdout, IsText, Ended
  <2>6. WholeText' /\ ForeignTextOnlyAfterTimeout'
    BY <2>1 DEF IInv, WholeText, ForeignTextOnlyAfterTimeout, IsText
  <2>. QED
    BY <2>2, <2>3, <2>4, <2>5, <2>6 DEF IInv
<1>2. CASE BeginCall \/ BeginClose \/ Timeout
  BY <1>2, BeginCallIInv, BeginCloseIInv, TimeoutIInv
<1>3. CASE Working
  BY <1>3, RegisterIInv, SendRequestIInv, ReceiveFailureIInv, ReceiveReplyIInv, TakeTextIInv,
     CloseAndKillIInv, JoinIInv DEF Working
<1>4. CASE Reading
  BY <1>4, ReadChunkIInv, ReadRequestIInv, ReadResponseIInv, DeliverIInv, ReadErrorIInv,
     ReadEOFIInv DEF Reading
<1>5. CASE Agent
  BY <1>5, AgentReceiveIInv, AgentChunkIInv, AgentAskIInv, AgentRespondIInv,
     AgentHugeLineIInv, AgentDiesIInv DEF Agent
<1>. QED
  BY <1>1, <1>2, <1>3, <1>4, <1>5 DEF Next

\* The invariant holds of every behaviour of the session.
THEOREM Invariance == Spec => []IInv
<1>1. Init => IInv
  BY InitIInv
<1>2. IInv /\ [Next]_vars => IInv'
  BY NextIInv
<1>. QED
  BY <1>1, <1>2, PTL DEF Spec

\* The variables have their types: nothing in the pipes, in the registry or in
\* readLoop's hands is about a call that has not been made.
THEOREM TypeCorrect == Spec => []TypeOK
<1>1. IInv => TypeOK
  BY DEF IInv
<1>. QED
  BY <1>1, Invariance, PTL

\* Prompt's text, when it succeeds, holds every chunk the agent sent in the
\* turn, whatever the agent, the pipes and the timeouts of earlier calls did.
THEOREM TextIsWhole == Spec => []WholeText
<1>1. IInv => WholeText
  BY DEF IInv
<1>. QED
  BY <1>1, Invariance, PTL

\* Chunks of another turn in a text are those of an earlier one given up at its
\* timeout: the collector takes them because Call cannot stop the agent.
THEOREM OnlyTimeoutsLeak == Spec => []ForeignTextOnlyAfterTimeout
<1>1. IInv => ForeignTextOnlyAfterTimeout
  BY DEF IInv
<1>. QED
  BY <1>1, Invariance, PTL

\* No way out of Call leaves its channel registered, and after Close readLoop
\* is over with nothing left to deliver.
THEOREM NothingStaysBehind == Spec => []NothingLeftBehind
<1>1. IInv => NothingLeftBehind
  BY DEF IInv, Registered, NothingLeftBehind
<1>. QED
  BY <1>1, Invariance, PTL
=============================================================================
