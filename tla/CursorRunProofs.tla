-------------------------- MODULE CursorRunProofs --------------------------
(* Theorems about CursorRun, for every set of tool calls, every number of    *)
(* prompts and lines, and every capacity of the pipe.                        *)
EXTENDS CursorRun, SequenceTheorems, TLAPS

-----------------------------------------------------------------------------
(* The inductive invariant.                                                  *)

Bubble == (1..MaxLine) \cup {Blank}

AnyLine ==
  [kind : {"started", "completed"}, tool : Tool] \cup
  [kind : {"delta", "thought", "error", "huge"}] \cup
  [kind : {"bubble"}, text : Bubble] \cup
  [kind : {"success"}, id : BOOLEAN]

ToolKind == {"started", "completed"}

IsLine(a, kind, t) == stdout[a].kind = kind /\ stdout[a].tool = t

\* The pipe's tool lines, with what is read of them and what the agent knows:
\* a tool that is not new is in one of its lines or has been read, and a tool
\* that completes in the pipe starts before that, in it or long ago.
ToolLines ==
  /\ stdout \in Seq(AnyLine)
  /\ \A a \in 1..Len(stdout), t \in Tool :
       /\ IsLine(a, "started", t) => tools[t] # "new" /\ t \notin running
       /\ IsLine(a, "completed", t) =>
            /\ tools[t] = "done"
            /\ t \in running \/ \E b \in 1..(a - 1) : IsLine(b, "started", t)
  /\ \A t \in Tool : tools[t] = "running" =>
       t \in running \/ \E a \in 1..Len(stdout) : IsLine(a, "started", t)
  /\ \A a, b \in 1..Len(stdout), t \in Tool :
       a < b /\ stdout[a].kind \in ToolKind /\ stdout[b].kind \in ToolKind
         /\ stdout[a].tool = t /\ stdout[b].tool = t
       => stdout[a].kind = "started" /\ stdout[b].kind = "completed"

\* The tracker has the tools that run, each once.
Tracked ==
  /\ \A a \in 1..Len(stream.active) : stream.active[a] \in running
  /\ \A t \in running : \E a \in 1..Len(stream.active) : stream.active[a] = t
  /\ \A a, b \in 1..Len(stream.active) : stream.active[a] = stream.active[b] => a = b

\* The phase follows the work in every state, not only while lines are read.
Shown ==
  /\ stream.shown \in {"none", "idle"} <=> running = {} /\ ~stream.thinking
  /\ stream.shown \in Tool =>
       stream.shown \in running \/ (running = {} /\ stream.thinking)

\* The last bubble the agent wrote has been read, or is the last one in the pipe.
Bubbles ==
  /\ (\A a \in 1..Len(stdout) : stdout[a].kind # "bubble") => stream.last = said
  /\ \A a \in 1..Len(stdout) :
       /\ stdout[a].kind = "bubble"
       /\ \A b \in 1..Len(stdout) : b > a => stdout[b].kind # "bubble"
       => stdout[a].text = said

\* A read that ended without an error has read everything the agent wrote.
Drained ==
  /\ pc \in {"stderr", "wait"} /\ ~stream.error => stdout = <<>> /\ agent # "up"
  /\ pc # "ready" => result \in {None, Failed} /\ prompt > 0

IInv ==
  /\ TypeOK
  /\ ToolLines /\ Tracked /\ Shown /\ Bubbles /\ Drained
  /\ AnswerIsLastBubble /\ NoRunawayAgent

-----------------------------------------------------------------------------
(* Sequences.                                                                *)

LEMMA Appended ==
  ASSUME NEW S, NEW s \in Seq(S), NEW e \in S
  PROVE  /\ Append(s, e) \in Seq(S) /\ Len(Append(s, e)) = Len(s) + 1 /\ Len(s) \in Nat
         /\ Append(s, e)[Len(s) + 1] = e
         /\ \A i \in 1..Len(s) : Append(s, e)[i] = s[i]
OBVIOUS

LEMMA HeadTail ==
  ASSUME NEW S, NEW s \in Seq(S), s # <<>>
  PROVE  /\ Head(s) \in S /\ Tail(s) \in Seq(S) /\ Head(s) = s[1]
         /\ Len(Tail(s)) = Len(s) - 1 /\ Len(s) \in Nat \ {0}
         /\ \A i \in 1..Len(Tail(s)) : Tail(s)[i] = s[i + 1] /\ i + 1 \in 1..Len(s)
         /\ \A i \in 2..Len(s) : s[i] = Tail(s)[i - 1] /\ i - 1 \in 1..Len(Tail(s))
OBVIOUS

\* removeActiveTool leaves alone what it does not find.
LEMMA RemovedNone ==
  ASSUME NEW S, NEW s \in Seq(S), NEW t, \A i \in 1..Len(s) : s[i] # t
  PROVE  Removed(s, t) = s
BY DEF Removed, RemoveFirst

\* It closes the gap of what it finds, which is all there is of it.
LEMMA RemovedOnce ==
  ASSUME NEW S, NEW s \in Seq(S), NEW k \in 1..Len(s),
         \A i \in 1..Len(s) : s[i] = s[k] => i = k
  PROVE  /\ Removed(s, s[k]) \in Seq(S) /\ Len(Removed(s, s[k])) = Len(s) - 1
         /\ \A i \in 1..(Len(s) - 1) :
              Removed(s, s[k])[i] = IF i < k THEN s[i] ELSE s[i + 1]
<1>1. {i \in 1..Len(s) : s[i] = s[k]} = {k}
  OBVIOUS
<1>2. Min({k}) = k
  BY DEF Min
<1>3. Removed(s, s[k]) = SubSeq(s, 1, k - 1) \o SubSeq(s, k + 1, Len(s))
  BY <1>1, <1>2 DEF Removed, RemoveFirst, RemoveAt, SelectInSeq
<1>4. PICK a : a = SubSeq(s, 1, k - 1)
  OBVIOUS
<1>5. PICK b : b = SubSeq(s, k + 1, Len(s))
  OBVIOUS
<1>6. a \in Seq(S) /\ Len(a) = k - 1 /\ \A i \in 1..(k - 1) : a[i] = s[i]
  BY <1>4
<1>7. b \in Seq(S) /\ Len(b) = Len(s) - k /\ \A i \in 1..(Len(s) - k) : b[i] = s[k + i]
  BY <1>5
<1>8. /\ a \o b \in Seq(S) /\ Len(a \o b) = Len(s) - 1
      /\ \A i \in 1..(Len(s) - 1) : (a \o b)[i] = IF i < k THEN s[i] ELSE s[i + 1]
  <2>1. /\ a \o b \in Seq(S) /\ Len(a \o b) = Len(a) + Len(b)
        /\ \A i \in 1..(Len(a) + Len(b)) :
             (a \o b)[i] = IF i <= Len(a) THEN a[i] ELSE b[i - Len(a)]
    BY <1>6, <1>7, ConcatProperties
  <2>. QED
    BY <2>1, <1>6, <1>7
<1>. QED
  BY <1>3, <1>4, <1>5, <1>8

\* As a set of tools: what was there is there, but for the one.
LEMMA RemovedIsRemoved ==
  ASSUME NEW S, NEW s \in Seq(S), NEW t,
         \A i, j \in 1..Len(s) : s[i] = s[j] => i = j
  PROVE  LET r == Removed(s, t) IN
         /\ r \in Seq(S)
         /\ \A i, j \in 1..Len(r) : r[i] = r[j] => i = j
         /\ \A i \in 1..Len(r) : r[i] # t /\ \E j \in 1..Len(s) : s[j] = r[i]
         /\ \A j \in 1..Len(s) : s[j] # t => \E i \in 1..Len(r) : r[i] = s[j]
<1>1. CASE \A i \in 1..Len(s) : s[i] # t
  BY <1>1, RemovedNone
<1>2. CASE \E i \in 1..Len(s) : s[i] = t
  <2>1. PICK k \in 1..Len(s) : s[k] = t
    BY <1>2
  <2>2. PICK r : r = Removed(s, t)
    OBVIOUS
  <2>3. /\ r \in Seq(S) /\ Len(r) = Len(s) - 1 /\ Len(s) \in Nat
        /\ \A i \in 1..(Len(s) - 1) : r[i] = IF i < k THEN s[i] ELSE s[i + 1]
    BY <2>1, <2>2, RemovedOnce
  <2>4. \A i \in 1..Len(r) :
          \E j \in 1..Len(s) : j # k /\ r[i] = s[j] /\ (j = i \/ j = i + 1) /\ (i < k <=> j < k)
    BY <2>3
  <2>5. \A i \in 1..Len(r) : r[i] # t /\ \E j \in 1..Len(s) : s[j] = r[i]
    BY <2>1, <2>4
  <2>6. \A i, j \in 1..Len(r) : r[i] = r[j] => i = j
    BY <2>3, <2>4
  <2>7. ASSUME NEW j \in 1..Len(s), s[j] # t
        PROVE  \E i \in 1..Len(r) : r[i] = s[j]
    <3>1. CASE j < k
      BY <3>1, <2>3
    <3>2. CASE j > k
      <4>1. j - 1 \in 1..Len(r) /\ r[j - 1] = s[j]
        BY <3>2, <2>1, <2>3
      <4>. QED
        BY <4>1
    <3>. QED
      BY <3>1, <3>2, <2>1, <2>7
  <2>. QED
    BY <2>2, <2>3, <2>5, <2>6, <2>7
<1>. QED
  BY <1>1, <1>2

-----------------------------------------------------------------------------
(* Lines, and what is made of them.                                          *)

LEMMA LineFields ==
  ASSUME NEW l \in AnyLine
  PROVE  /\ l.kind \in {"started", "completed", "delta", "thought", "error", "huge",
                        "bubble", "success"}
         /\ l.kind \in ToolKind => l.tool \in Tool
         /\ l.kind = "bubble" => l.text \in Bubble
         /\ l.kind = "success" => l.id \in BOOLEAN
<1>1. CASE l \in [kind : {"started", "completed"}, tool : Tool]
  BY <1>1 DEF ToolKind
<1>2. CASE l \in [kind : {"delta", "thought", "error", "huge"}]
  BY <1>2 DEF ToolKind
<1>3. CASE l \in [kind : {"bubble"}, text : Bubble]
  BY <1>3 DEF ToolKind
<1>4. CASE l \in [kind : {"success"}, id : BOOLEAN]
  BY <1>4 DEF ToolKind
<1>. QED
  BY <1>1, <1>2, <1>3, <1>4 DEF AnyLine

\* What the agent writes is a line.
LEMMA WrittenLine ==
  ASSUME TypeOK, written < MaxLine, NEW l \in Line
  PROVE  l \in AnyLine
<1>1. {written + 1, Blank} \subseteq Bubble
  BY CursorBounds DEF TypeOK, Bubble
<1>2. [kind : {"bubble"}, text : {written + 1, Blank}] \subseteq [kind : {"bubble"}, text : Bubble]
  BY <1>1
<1>. QED
  BY <1>2 DEF Line, AnyLine

Stream ==
  [active : Seq(Tool), thinking : BOOLEAN, shown : Tool \cup {"none", "idle", "thinking"},
   last : (1..MaxLine) \cup {None, Blank}, result : BOOLEAN, id : BOOLEAN, error : BOOLEAN]

\* Field by field, what a line does to the locals of the read.
LEMMA Parsed ==
  ASSUME NEW s \in Stream, NEW l \in AnyLine, Removed(s.active, l.tool) \in Seq(Tool)
  PROVE  LET r == Parse(Track(s, l), l)
             left == Removed(s.active, l.tool) IN
         /\ r \in Stream
         /\ r.active = IF l.kind = "started" THEN Append(s.active, l.tool)
                       ELSE IF l.kind = "completed" THEN left ELSE s.active
         /\ r.thinking = IF l.kind = "delta" THEN TRUE
                         ELSE IF l.kind = "thought" THEN FALSE ELSE s.thinking
         /\ r.last = IF l.kind = "bubble" THEN l.text ELSE s.last
         /\ r.shown = CASE l.kind = "started" -> l.tool
                        [] l.kind = "completed" ->
                             (IF left # <<>> THEN TopTool(left)
                              ELSE IF s.thinking THEN s.shown ELSE "idle")
                        [] l.kind = "delta" -> (IF s.thinking THEN s.shown ELSE "thinking")
                        [] l.kind = "thought" -> (IF s.active = <<>> THEN "idle" ELSE s.shown)
                        [] OTHER -> s.shown
<1> DEFINE t == Track(s, l)
           r == Parse(t, l)
           left == Removed(s.active, l.tool)
<1>1. /\ l.kind \in {"started", "completed", "delta", "thought", "error", "huge",
                     "bubble", "success"}
      /\ l.kind \in ToolKind => l.tool \in Tool
      /\ l.kind = "bubble" => l.text \in Bubble
      /\ l.kind = "success" => l.id \in BOOLEAN
  BY LineFields
<1>2. /\ s.active \in Seq(Tool) /\ s.thinking \in BOOLEAN
      /\ s.shown \in Tool \cup {"none", "idle", "thinking"}
      /\ s.last \in (1..MaxLine) \cup {None, Blank}
      /\ s.result \in BOOLEAN /\ s.id \in BOOLEAN /\ s.error \in BOOLEAN
  BY DEF Stream
<1>3. left # <<>> => TopTool(left) \in Tool
  <2>1. PICK w : w = left
    OBVIOUS
  <2>2. w \in Seq(Tool) /\ (w # <<>> => w[Len(w)] \in Tool)
    BY <2>1
  <2>. QED
    BY <2>1, <2>2 DEF TopTool
<1> HIDE DEF left
<1>4. CASE l.kind = "started"
  <2>1. t = [s EXCEPT !.active = Append(@, l.tool), !.shown = l.tool]
    BY <1>4 DEF Track
  <2>2. r = t
    BY <1>4 DEF Parse, Say, Conclude
  <2>3. l.tool \in Tool /\ Append(s.active, l.tool) \in Seq(Tool)
    BY <1>1, <1>2, <1>4 DEF ToolKind
  <2> HIDE DEF r, t
  <2>4. /\ r \in Stream /\ r.active = Append(s.active, l.tool) /\ r.shown = l.tool
        /\ r.thinking = s.thinking /\ r.last = s.last
    BY <2>1, <2>2, <2>3, <1>2 DEF Stream
  <2>. QED
    BY <2>4, <1>4 DEF r, t
<1>5. CASE l.kind = "completed"
  <2>1. t = [s EXCEPT !.active = left,
                      !.shown = IF left # <<>> THEN TopTool(left)
                                ELSE IF s.thinking THEN @ ELSE "idle"]
    BY <1>5 DEF Track, left
  <2>2. r = t
    BY <1>5 DEF Parse, Say, Conclude
  <2> HIDE DEF r, t
  <2>3. /\ r \in Stream /\ r.active = left
        /\ r.shown = IF left # <<>> THEN TopTool(left) ELSE IF s.thinking THEN s.shown ELSE "idle"
        /\ r.thinking = s.thinking /\ r.last = s.last
    <3>1. left \in Seq(Tool)
      BY DEF left
    <3>. QED
      BY <2>1, <2>2, <3>1, <1>2, <1>3 DEF Stream
  <2>. QED
    BY <2>3, <1>5 DEF r, t, left
<1>6. CASE l.kind \in {"delta", "thought"}
  <2>1. r = t
    BY <1>6 DEF Parse, Say, Conclude
  <2>2. l.kind = "delta" =>
          t = [s EXCEPT !.thinking = TRUE, !.shown = IF s.thinking THEN @ ELSE "thinking"]
    BY <1>6 DEF Track
  <2>3. l.kind = "thought" =>
          t = [s EXCEPT !.thinking = FALSE, !.shown = IF s.active = <<>> THEN "idle" ELSE @]
    BY <1>6 DEF Track
  <2> HIDE DEF r, t
  <2>4. /\ r \in Stream /\ r.active = s.active /\ r.last = s.last
        /\ l.kind = "delta" => /\ r.thinking = TRUE
                               /\ r.shown = IF s.thinking THEN s.shown ELSE "thinking"
        /\ l.kind = "thought" => /\ r.thinking = FALSE
                                 /\ r.shown = IF s.active = <<>> THEN "idle" ELSE s.shown
    BY <2>1, <2>2, <2>3, <1>2, <1>6 DEF Stream
  <2>. QED
    BY <2>4, <1>6 DEF r, t
<1>7. CASE l.kind \in {"error", "huge", "bubble", "success"}
  <2>1. t = s
    BY <1>7 DEF Track
  <2>2. l.kind \in {"error", "huge"} => r = [s EXCEPT !.error = TRUE]
    BY <2>1 DEF Parse, Say, Conclude
  <2>3. l.kind = "bubble" => r = [s EXCEPT !.last = l.text]
    BY <2>1 DEF Parse, Say, Conclude
  <2>4. l.kind = "success" => r = [s EXCEPT !.result = TRUE, !.id = l.id \/ @]
    BY <2>1 DEF Parse, Say, Conclude
  <2>. QED
    BY <2>2, <2>3, <2>4, <1>1, <1>2, <1>7 DEF Stream, Bubble
<1>. QED
  BY <1>1, <1>4, <1>5, <1>6, <1>7

-----------------------------------------------------------------------------
(* The worker's steps.                                                       *)

LEMMA StartIInv == ASSUME IInv, Start PROVE IInv'
<1>1. /\ pc = "ready" /\ pc' = "read" /\ prompt' = prompt + 1 /\ prompt < MaxPrompt
      /\ stream' = Fresh /\ result' = None /\ agent' = "up" /\ helper' = FALSE
      /\ stdout' = <<>> /\ written' = 0 /\ tools' = [t \in Tool |-> "new"]
      /\ running' = {} /\ said' = None /\ expired' = FALSE /\ chat' = chat
  BY DEF Start
<1>2. TypeOK
  BY DEF IInv
<1>3. Fresh \in Stream
  BY DEF Fresh, Stream
<1>4. TypeOK'
  <2>1. /\ prompt' \in 0..MaxPrompt /\ chat' \in (1..prompt') \cup {None}
        /\ 0 \in 0..MaxLine /\ 0 <= PipeCap
    BY <1>1, <1>2, CursorBounds DEF TypeOK
  <2>2. stream' \in Stream
    BY <1>1, <1>3
  <2>3. Len(stdout') <= PipeCap /\ running' \subseteq {t \in Tool : tools'[t] # "new"}
    BY <2>1, <1>1
  <2>. QED
    BY <2>1, <2>2, <2>3, <1>1 DEF TypeOK, Stream
<1>5. ToolLines' /\ Bubbles'
  BY <1>1 DEF ToolLines, Bubbles, Fresh
<1>6. Tracked' /\ Shown'
  BY <1>1, CursorTools DEF Tracked, Shown, Fresh
<1>7. Drained' /\ AnswerIsLastBubble' /\ NoRunawayAgent'
  BY <1>1, <1>2 DEF TypeOK, Drained, AnswerIsLastBubble, NoRunawayAgent
<1>. QED
  BY <1>4, <1>5, <1>6, <1>7 DEF IInv

\* Of the steps that touch neither the pipe nor the tracker's view of it.
LEMMA SameWork ==
  ASSUME IInv, UNCHANGED <<stdout, tools, running, said>>,
         stream' \in Stream, stream'.active = stream.active, stream'.last = stream.last,
         stream'.thinking = stream.thinking, stream'.shown = stream.shown
  PROVE  ToolLines' /\ Tracked' /\ Shown' /\ Bubbles'
<1>1. ToolLines'
  BY DEF IInv, ToolLines, IsLine
<1>2. Tracked'
  BY DEF IInv, Tracked
<1>3. Shown'
  BY DEF IInv, Shown
<1>4. Bubbles'
  BY DEF IInv, Bubbles
<1>. QED
  BY <1>1, <1>2, <1>3, <1>4

LEMMA StartFailsIInv == ASSUME IInv, StartFails PROVE IInv'
<1>1. /\ pc = "ready" /\ prompt' = prompt + 1 /\ prompt < MaxPrompt /\ result' = Failed
      /\ UNCHANGED <<pc, chat, stream, agent, helper, stdout, written, tools, running, said,
                     expired>>
  BY DEF StartFails
<1>2. TypeOK /\ stream \in Stream
  BY DEF IInv, TypeOK, Stream
<1>3. TypeOK'
  BY <1>1, <1>2, CursorBounds DEF TypeOK
<1>4. ToolLines' /\ Tracked' /\ Shown' /\ Bubbles'
  BY <1>1, <1>2, SameWork
<1>5. Drained' /\ AnswerIsLastBubble' /\ NoRunawayAgent'
  BY <1>1 DEF IInv, Drained, AnswerIsLastBubble, NoRunawayAgent
<1>. QED
  BY <1>3, <1>4, <1>5 DEF IInv

LEMMA StdoutEndsIInv == ASSUME IInv, StdoutEnds PROVE IInv'
<1>1. /\ pc = "read" /\ stdout = <<>> /\ agent # "up" /\ pc' = "stderr"
      /\ stream' = [stream EXCEPT !.error = ~stream.result]
      /\ UNCHANGED <<prompt, chat, agent, helper, stdout, written, tools, running, said,
                     expired, result>>
  BY DEF StdoutEnds, PipesClosed
<1>2. TypeOK /\ stream \in Stream
  BY DEF IInv, TypeOK, Stream
<1>3. /\ stream' \in Stream /\ stream'.active = stream.active /\ stream'.last = stream.last
      /\ stream'.thinking = stream.thinking /\ stream'.shown = stream.shown
  BY <1>1, <1>2 DEF Stream
<1>4. TypeOK'
  BY <1>1, <1>2, <1>3 DEF TypeOK, Stream
<1>5. ToolLines' /\ Tracked' /\ Shown' /\ Bubbles'
  BY <1>1, <1>3, SameWork
<1>6. Drained' /\ AnswerIsLastBubble' /\ NoRunawayAgent'
  BY <1>1 DEF IInv, Drained, AnswerIsLastBubble, NoRunawayAgent
<1>. QED
  BY <1>4, <1>5, <1>6 DEF IInv

LEMMA StderrEndsIInv == ASSUME IInv, StderrEnds PROVE IInv'
<1>1. /\ pc = "stderr" /\ pc' = "wait"
      /\ UNCHANGED <<prompt, chat, stream, agent, helper, stdout, written, tools, running,
                     said, expired, result>>
  BY DEF StderrEnds
<1>2. TypeOK /\ stream \in Stream
  BY DEF IInv, TypeOK, Stream
<1>3. TypeOK'
  BY <1>1, <1>2 DEF TypeOK
<1>4. ToolLines' /\ Tracked' /\ Shown' /\ Bubbles'
  BY <1>1, <1>2, SameWork
<1>5. Drained' /\ AnswerIsLastBubble' /\ NoRunawayAgent'
  BY <1>1 DEF IInv, Drained, AnswerIsLastBubble, NoRunawayAgent
<1>. QED
  BY <1>3, <1>4, <1>5 DEF IInv

\* A prompt that succeeds has read everything: the text it returns is of the
\* last bubble written.
LEMMA ReturnIInv == ASSUME IInv, Return PROVE IInv'
<1> DEFINE ok == ~stream.error /\ agent = "exited"
<1>1. /\ pc = "wait" /\ agent # "up" /\ pc' = "ready"
      /\ result' = IF ok THEN Text ELSE Failed
      /\ chat' = IF ok /\ stream.id THEN prompt ELSE chat
      /\ UNCHANGED <<prompt, stream, agent, helper, stdout, written, tools, running, said,
                     expired>>
  BY DEF Return
<1>2. TypeOK /\ stream \in Stream /\ Drained
  BY DEF IInv, TypeOK, Stream
<1>3. Text \in (1..MaxLine) \cup {Whole}
  BY <1>2 DEF Text, Stream
<1>4. TypeOK'
  <2>1. chat' \in (1..prompt) \cup {None}
    BY <1>1, <1>2 DEF TypeOK, Drained
  <2>. QED
    BY <2>1, <1>1, <1>2, <1>3 DEF TypeOK
<1>5. ToolLines' /\ Tracked' /\ Shown' /\ Bubbles'
  BY <1>1, <1>2, SameWork
<1>6. AnswerIsLastBubble'
  <2>1. CASE ok
    <3>1. stdout = <<>>
      BY <2>1, <1>1, <1>2 DEF Drained
    <3>2. stream.last = said
      BY <3>1 DEF IInv, Bubbles
    <3>. QED
      BY <2>1, <3>2, <1>1 DEF AnswerIsLastBubble, Text
  <2>2. CASE ~ok
    BY <2>2, <1>1 DEF AnswerIsLastBubble
  <2>. QED BY <2>1, <2>2
<1>7. Drained' /\ NoRunawayAgent'
  BY <1>1 DEF Drained, NoRunawayAgent
<1>. QED
  BY <1>4, <1>5, <1>6, <1>7 DEF IInv

LEMMA ExpireIInv == ASSUME IInv, Expire PROVE IInv'
<1>1. /\ pc # "ready" /\ expired' = TRUE /\ agent' = IF agent = "up" THEN "failed" ELSE agent
      /\ UNCHANGED <<pc, prompt, chat, stream, helper, stdout, written, tools, running, said,
                     result>>
  BY DEF Expire
<1>2. TypeOK /\ stream \in Stream
  BY DEF IInv, TypeOK, Stream
<1>3. TypeOK'
  BY <1>1, <1>2 DEF TypeOK
<1>4. ToolLines' /\ Tracked' /\ Shown' /\ Bubbles'
  BY <1>1, <1>2, SameWork
<1>5. Drained' /\ AnswerIsLastBubble' /\ NoRunawayAgent'
  BY <1>1 DEF IInv, Drained, AnswerIsLastBubble, NoRunawayAgent
<1>. QED
  BY <1>3, <1>4, <1>5 DEF IInv

LEMMA ExitIInv == ASSUME IInv, Exit PROVE IInv'
<1>1. /\ agent = "up" /\ agent' \in {"exited", "failed"}
      /\ UNCHANGED <<pc, prompt, chat, stream, helper, stdout, written, tools, running, said,
                     expired, result>>
  BY DEF Exit
<1>2. TypeOK /\ stream \in Stream
  BY DEF IInv, TypeOK, Stream
<1>3. TypeOK'
  BY <1>1, <1>2 DEF TypeOK
<1>4. ToolLines' /\ Tracked' /\ Shown' /\ Bubbles'
  BY <1>1, <1>2, SameWork
<1>5. Drained' /\ AnswerIsLastBubble' /\ NoRunawayAgent'
  BY <1>1 DEF IInv, Drained, AnswerIsLastBubble, NoRunawayAgent
<1>. QED
  BY <1>3, <1>4, <1>5 DEF IInv

LEMMA BackgroundIInv == ASSUME IInv, Background PROVE IInv'
<1>1. /\ helper' = ~helper
      /\ UNCHANGED <<pc, prompt, chat, stream, agent, stdout, written, tools, running, said,
                     expired, result>>
  BY DEF Background
<1>2. TypeOK /\ stream \in Stream
  BY DEF IInv, TypeOK, Stream
<1>3. TypeOK'
  BY <1>1, <1>2 DEF TypeOK
<1>4. ToolLines' /\ Tracked' /\ Shown' /\ Bubbles'
  BY <1>1, <1>2, SameWork
<1>5. Drained' /\ AnswerIsLastBubble' /\ NoRunawayAgent'
  BY <1>1 DEF IInv, Drained, AnswerIsLastBubble, NoRunawayAgent
<1>. QED
  BY <1>3, <1>4, <1>5 DEF IInv

\* The scanner hands out a line, and the tracker follows.
LEMMA ReadLineIInv == ASSUME IInv, ReadLine PROVE IInv'
<1>1. PICK h : h = Head(stdout)
  OBVIOUS
<1>2. PICK q : q = Tail(stdout)
  OBVIOUS
<1>3. PICK left : left = Removed(stream.active, h.tool)
  OBVIOUS
<1>4. /\ pc = "read" /\ stdout # <<>> /\ stdout' = q /\ pc' \in {"stderr", "read"}
      /\ stream' = Parse(Track(stream, h), h) /\ running' = Running(h)
      /\ stream'.error \/ pc' = "read"
      /\ UNCHANGED <<prompt, chat, agent, helper, written, tools, said, expired, result>>
  BY <1>1, <1>2 DEF ReadLine
<1>5. /\ TypeOK /\ ToolLines /\ Tracked /\ Shown /\ Bubbles /\ Drained
      /\ stream \in Stream /\ stream.active \in Seq(Tool) /\ stream.thinking \in BOOLEAN
      /\ stdout \in Seq(AnyLine)
  BY DEF IInv, TypeOK, Stream, ToolLines
<1>6. /\ h \in AnyLine /\ q \in Seq(AnyLine) /\ h = stdout[1]
      /\ Len(q) = Len(stdout) - 1 /\ Len(stdout) \in Nat \ {0}
      /\ \A a \in 1..Len(q) : q[a] = stdout[a + 1] /\ a + 1 \in 1..Len(stdout)
      /\ \A a \in 2..Len(stdout) : stdout[a] = q[a - 1] /\ a - 1 \in 1..Len(q)
  BY <1>1, <1>2, <1>4, <1>5, HeadTail
<1>7. /\ h.kind \in {"started", "completed", "delta", "thought", "error", "huge",
                     "bubble", "success"}
      /\ h.kind \in ToolKind => h.tool \in Tool
  BY <1>6, LineFields
<1>8. /\ left \in Seq(Tool)
      /\ \A i, j \in 1..Len(left) : left[i] = left[j] => i = j
      /\ \A i \in 1..Len(left) :
           left[i] # h.tool /\ \E j \in 1..Len(stream.active) : stream.active[j] = left[i]
      /\ \A j \in 1..Len(stream.active) :
           stream.active[j] # h.tool => \E i \in 1..Len(left) : left[i] = stream.active[j]
  BY <1>3, <1>5, RemovedIsRemoved, SMTT(60) DEF Tracked
<1>9. /\ stream' \in Stream
      /\ stream'.active = IF h.kind = "started" THEN Append(stream.active, h.tool)
                          ELSE IF h.kind = "completed" THEN left ELSE stream.active
      /\ stream'.thinking = IF h.kind = "delta" THEN TRUE
                            ELSE IF h.kind = "thought" THEN FALSE ELSE stream.thinking
      /\ stream'.last = IF h.kind = "bubble" THEN h.text ELSE stream.last
      /\ stream'.shown = CASE h.kind = "started" -> h.tool
                           [] h.kind = "completed" ->
                                (IF left # <<>> THEN TopTool(left)
                                 ELSE IF stream.thinking THEN stream.shown ELSE "idle")
                           [] h.kind = "delta" ->
                                (IF stream.thinking THEN stream.shown ELSE "thinking")
                           [] h.kind = "thought" ->
                                (IF stream.active = <<>> THEN "idle" ELSE stream.shown)
                           [] OTHER -> stream.shown
  <2>1. Removed(stream.active, h.tool) \in Seq(Tool)
    BY <1>3, <1>8
  <2>. QED
    BY <2>1, <1>3, <1>4, <1>5, <1>6, Parsed, ZenonT(60)
<1>10. /\ h.kind = "started" => running' = running \cup {h.tool}
       /\ h.kind = "completed" => running' = running \ {h.tool}
       /\ h.kind \notin ToolKind => running' = running
  BY <1>4 DEF Running, ToolKind
<1>11. /\ h.kind = "started" => h.tool \notin running /\ tools[h.tool] # "new"
       /\ h.kind = "completed" => h.tool \in running /\ tools[h.tool] = "done"
       /\ h.kind \in ToolKind =>
            \A a \in 1..Len(q) : q[a].kind \in ToolKind /\ q[a].tool = h.tool =>
              h.kind = "started" /\ q[a].kind = "completed"
  <2>1. 1 \in 1..Len(stdout) /\ \A b \in 1..(1 - 1) : FALSE
    BY <1>6
  <2>2. h.kind = "started" => h.tool \notin running /\ tools[h.tool] # "new"
    BY <2>1, <1>5, <1>6, <1>7 DEF ToolLines, IsLine, ToolKind
  <2>3. h.kind = "completed" => h.tool \in running /\ tools[h.tool] = "done"
    BY <2>1, <1>5, <1>6, <1>7 DEF ToolLines, IsLine, ToolKind
  <2>4. ASSUME h.kind \in ToolKind, NEW a \in 1..Len(q), q[a].kind \in ToolKind, q[a].tool = h.tool
        PROVE  h.kind = "started" /\ q[a].kind = "completed"
    <3>1. 1 < a + 1 /\ a + 1 \in 1..Len(stdout) /\ q[a] = stdout[a + 1] /\ h.tool \in Tool
      BY <2>4, <1>6, <1>7
    <3>. QED
      BY <3>1, <2>1, <2>4, <1>5, <1>6 DEF ToolLines
  <2>. QED
    BY <2>2, <2>3, <2>4
<1>12. TypeOK'
  <2>1. Len(stdout') <= PipeCap
    BY <1>4, <1>5, <1>6, CursorBounds DEF TypeOK
  <2>2. running' \subseteq {t \in Tool : tools'[t] # "new"}
    BY <1>4, <1>5, <1>7, <1>10, <1>11 DEF TypeOK, ToolKind
  <2>. QED
    BY <2>1, <2>2, <1>4, <1>5, <1>9 DEF TypeOK, Stream
<1>13. ToolLines'
  <2>1. ASSUME NEW a \in 1..Len(q), NEW t \in Tool, q[a].kind = "started", q[a].tool = t
        PROVE  tools[t] # "new" /\ t \notin running'
    <3>1. tools[t] # "new" /\ t \notin running
      BY <2>1, <1>5, <1>6 DEF ToolLines, IsLine
    <3>2. h.kind = "started" => h.tool # t
      BY <2>1, <1>11 DEF ToolKind
    <3>. QED
      BY <3>1, <3>2, <1>7, <1>10 DEF ToolKind
  <2>2. ASSUME NEW a \in 1..Len(q), NEW t \in Tool, q[a].kind = "completed", q[a].tool = t
        PROVE  /\ tools[t] = "done"
               /\ t \in running' \/ \E b \in 1..(a - 1) : q[b].kind = "started" /\ q[b].tool = t
    <3>1. /\ tools[t] = "done"
          /\ t \in running \/ \E b \in 1..a : stdout[b].kind = "started" /\ stdout[b].tool = t
      <4>1. a + 1 \in 1..Len(stdout) /\ stdout[a + 1] = q[a] /\ (a + 1) - 1 = a
        BY <1>6
      <4>. QED
        BY <4>1, <2>2, <1>5 DEF ToolLines, IsLine
    <3>2. h.kind = "completed" => h.tool # t
      BY <2>2, <1>11 DEF ToolKind
    <3>3. CASE t \in running
      BY <3>1, <3>2, <3>3, <1>7, <1>10 DEF ToolKind
    <3>4. CASE \E b \in 1..a : stdout[b].kind = "started" /\ stdout[b].tool = t
      <4>1. PICK b \in 1..a : stdout[b].kind = "started" /\ stdout[b].tool = t
        BY <3>4
      <4>2. CASE b = 1
        BY <4>1, <4>2, <3>1, <1>6, <1>10
      <4>3. CASE b # 1
        <5>1. b \in 2..Len(stdout) /\ b - 1 \in 1..(a - 1)
          BY <4>3, <1>6
        <5>2. q[b - 1] = stdout[b]
          BY <5>1, <1>6
        <5>. QED
          BY <5>1, <5>2, <4>1, <3>1
      <4>. QED BY <4>2, <4>3
    <3>. QED BY <3>1, <3>3, <3>4
  <2>3. ASSUME NEW t \in Tool, tools[t] = "running"
        PROVE  t \in running' \/ \E a \in 1..Len(q) : q[a].kind = "started" /\ q[a].tool = t
    <3>1. h.kind = "completed" => h.tool # t
      BY <2>3, <1>11
    <3>2. CASE t \in running
      BY <3>1, <3>2, <1>7, <1>10 DEF ToolKind
    <3>3. CASE t \notin running
      <4>1. PICK a \in 1..Len(stdout) : stdout[a].kind = "started" /\ stdout[a].tool = t
        BY <2>3, <3>3, <1>5 DEF ToolLines, IsLine
      <4>2. CASE a = 1
        BY <4>1, <4>2, <1>6, <1>10
      <4>3. CASE a # 1
        <5>1. a - 1 \in 1..Len(q) /\ q[a - 1] = stdout[a]
          BY <4>3, <1>6
        <5>. QED
          BY <5>1, <4>1
      <4>. QED BY <4>2, <4>3
    <3>. QED BY <3>2, <3>3
  <2>4. ASSUME NEW a \in 1..Len(q), NEW b \in 1..Len(q), NEW t \in Tool, a < b,
               q[a].kind \in ToolKind, q[b].kind \in ToolKind, q[a].tool = t, q[b].tool = t
        PROVE  q[a].kind = "started" /\ q[b].kind = "completed"
    <3>1. /\ a + 1 \in 1..Len(stdout) /\ b + 1 \in 1..Len(stdout) /\ a + 1 < b + 1
          /\ q[a] = stdout[a + 1] /\ q[b] = stdout[b + 1]
      BY <2>4, <1>6
    <3>. QED
      BY <3>1, <2>4, <1>5 DEF ToolLines
  <2>. QED
    BY <2>1, <2>2, <2>3, <2>4, <1>4, <1>6, SMTT(60) DEF ToolLines, IsLine
<1>14. Tracked'
  <2>1. CASE h.kind = "started"
    <3>1. PICK w : w = Append(stream.active, h.tool)
      OBVIOUS
    <3>2. /\ stream'.active = w /\ Len(w) = Len(stream.active) + 1 /\ Len(stream.active) \in Nat
          /\ w[Len(stream.active) + 1] = h.tool
          /\ \A i \in 1..Len(stream.active) : w[i] = stream.active[i]
      BY <3>1, <2>1, <1>5, <1>7, <1>9, Appended DEF ToolKind
    <3>3. running' = running \cup {h.tool} /\ h.tool \notin running
      BY <2>1, <1>10, <1>11
    <3>4. \A i \in 1..Len(w) : w[i] \in running'
      BY <3>2, <3>3, <1>5 DEF Tracked
    <3>5. \A t \in running' : \E i \in 1..Len(w) : w[i] = t
      BY <3>2, <3>3, <1>5 DEF Tracked
    <3>6. ASSUME NEW i \in 1..Len(w), NEW j \in 1..Len(w), w[i] = w[j]
          PROVE  i = j
      <4>1. PICK m : m = Len(stream.active)
        OBVIOUS
      <4>2. /\ m \in Nat /\ Len(w) = m + 1 /\ w[m + 1] = h.tool
            /\ \A k \in 1..m : w[k] = stream.active[k] /\ w[k] \in running
        BY <4>1, <3>2, <1>5 DEF Tracked
      <4>3. CASE i \in 1..m /\ j \in 1..m
        BY <4>1, <4>2, <4>3, <3>6, <1>5 DEF Tracked
      <4>4. CASE i = m + 1 \/ j = m + 1
        BY <4>2, <4>4, <3>3, <3>6
      <4>. QED BY <4>2, <4>3, <4>4
    <3>. QED
      BY <3>2, <3>4, <3>5, <3>6 DEF Tracked
  <2>2. CASE h.kind = "completed"
    <3>1. stream'.active = left /\ running' = running \ {h.tool}
      BY <2>2, <1>9, <1>10
    <3>2. \A i \in 1..Len(left) : left[i] \in running'
      BY <3>1, <1>5, <1>8, SMTT(60) DEF Tracked
    <3>3. ASSUME NEW t \in running'
          PROVE  \E i \in 1..Len(left) : left[i] = t
      <4>1. PICK j \in 1..Len(stream.active) : stream.active[j] = t
        BY <3>1, <3>3, <1>5 DEF Tracked
      <4>. QED
        BY <4>1, <3>1, <3>3, <1>8
    <3>. QED
      BY <3>1, <3>2, <3>3, <1>8 DEF Tracked
  <2>3. CASE h.kind \notin ToolKind
    <3>1. stream'.active = stream.active /\ running' = running
      BY <2>3, <1>9, <1>10 DEF ToolKind
    <3>. QED
      BY <3>1, <1>5 DEF Tracked
  <2>. QED BY <2>1, <2>2, <2>3 DEF ToolKind
<1>15. Shown'
  <2>1. stream.active = <<>> <=> running = {}
    BY <1>5 DEF Tracked
  <2>2. CASE h.kind = "started"
    BY <2>2, <1>7, <1>9, <1>10, CursorTools DEF Shown, ToolKind
  <2>3. CASE h.kind = "completed"
    <3>1. running' = running \ {h.tool} /\ stream'.active = left /\ stream'.thinking = stream.thinking
      BY <2>3, <1>9, <1>10
    <3>2. CASE left # <<>>
      <4>1. TopTool(left) \in running' /\ TopTool(left) \in Tool
        <5>1. Len(left) \in 1..Len(left)
          BY <3>2, <1>8
        <5>. QED
          BY <5>1, <3>1, <1>8, <1>14 DEF Tracked, TopTool
      <4>2. stream'.shown = TopTool(left)
        BY <2>3, <3>2, <1>9
      <4>. QED
        BY <4>1, <4>2, CursorTools DEF Shown
    <3>3. CASE left = <<>>
      <4>1. running' = {}
        BY <3>1, <3>3, <1>14 DEF Tracked
      <4>2. stream'.shown = IF stream.thinking THEN stream.shown ELSE "idle"
        BY <2>3, <3>3, <1>9
      <4>. QED
        BY <4>1, <4>2, <3>1, <1>5, CursorTools DEF Shown
    <3>. QED BY <3>2, <3>3
  <2>4. CASE h.kind = "delta"
    <3>1. /\ running' = running /\ stream'.thinking = TRUE
          /\ stream'.shown = IF stream.thinking THEN stream.shown ELSE "thinking"
      BY <2>4, <1>9, <1>10 DEF ToolKind
    <3>. QED
      BY <3>1, <1>5, CursorTools DEF Shown
  <2>5. CASE h.kind = "thought"
    <3>1. /\ running' = running /\ stream'.thinking = FALSE
          /\ stream'.shown = IF running = {} THEN "idle" ELSE stream.shown
      BY <2>1, <2>5, <1>9, <1>10 DEF ToolKind
    <3>. QED
      BY <3>1, <1>5, CursorTools DEF Shown
  <2>6. CASE h.kind \in {"error", "huge", "bubble", "success"}
    <3>1. running' = running /\ stream'.thinking = stream.thinking /\ stream'.shown = stream.shown
      BY <2>6, <1>9, <1>10 DEF ToolKind
    <3>. QED
      BY <3>1, <1>5 DEF Shown
  <2>. QED BY <2>2, <2>3, <2>4, <2>5, <2>6, <1>7
<1>16. Bubbles'
  <2>1. ASSUME \A a \in 1..Len(q) : q[a].kind # "bubble"
        PROVE  stream'.last = said
    <3>1. \A a \in 2..Len(stdout) : stdout[a].kind # "bubble"
      BY <2>1, <1>6
    <3>2. CASE h.kind = "bubble"
      <4>1. 1 \in 1..Len(stdout) /\ \A b \in 1..Len(stdout) : b > 1 => stdout[b].kind # "bubble"
        BY <3>1, <1>6
      <4>2. h.text = said
        BY <4>1, <3>2, <1>5, <1>6 DEF Bubbles
      <4>. QED
        BY <4>2, <3>2, <1>9
    <3>3. CASE h.kind # "bubble"
      <4>1. \A a \in 1..Len(stdout) : stdout[a].kind # "bubble"
        BY <3>1, <3>3, <1>6
      <4>. QED
        BY <4>1, <3>3, <1>5, <1>9 DEF Bubbles
    <3>. QED BY <3>2, <3>3
  <2>2. ASSUME NEW a \in 1..Len(q), q[a].kind = "bubble",
               \A b \in 1..Len(q) : b > a => q[b].kind # "bubble"
        PROVE  q[a].text = said
    <3>1. /\ a + 1 \in 1..Len(stdout) /\ stdout[a + 1] = q[a]
          /\ \A b \in 1..Len(stdout) : b > a + 1 => stdout[b].kind # "bubble"
      BY <2>2, <1>6
    <3>. QED
      BY <3>1, <2>2, <1>5 DEF Bubbles
  <2>. QED
    BY <2>1, <2>2, <1>4 DEF Bubbles
<1>17. Drained' /\ AnswerIsLastBubble' /\ NoRunawayAgent'
  BY <1>4, <1>5 DEF Drained, AnswerIsLastBubble, NoRunawayAgent
<1>. QED
  BY <1>12, <1>13, <1>14, <1>15, <1>16, <1>17 DEF IInv

-----------------------------------------------------------------------------
(* The agent writes a line.                                                  *)

LEMMA WriteIInv == ASSUME IInv, NEW l \in Line, Write(l) PROVE IInv'
<1>1. PICK q : q = Append(stdout, l)
  OBVIOUS
<1>2. PICK m : m = Len(stdout)
  OBVIOUS
<1>3. /\ agent = "up" /\ written < MaxLine /\ m < PipeCap /\ Turned(l)
      /\ stdout' = q /\ written' = written + 1
      /\ said' = IF l.kind = "bubble" THEN l.text ELSE said
      /\ UNCHANGED <<pc, prompt, chat, stream, agent, helper, running, expired, result>>
  BY <1>1, <1>2 DEF Write
<1>4. /\ TypeOK /\ ToolLines /\ Tracked /\ Shown /\ Bubbles /\ Drained
      /\ AnswerIsLastBubble /\ NoRunawayAgent
      /\ tools \in [Tool -> {"new", "running", "done"}] /\ stdout \in Seq(AnyLine)
  BY DEF IInv, TypeOK, ToolLines
<1>5. l \in AnyLine
  BY <1>3, <1>4, WrittenLine
<1>6. /\ q \in Seq(AnyLine) /\ Len(q) = m + 1 /\ m \in Nat /\ q[m + 1] = l
      /\ \A a \in 1..m : q[a] = stdout[a]
  BY <1>1, <1>2, <1>4, <1>5, Appended
<1>7. /\ l.kind \in {"started", "completed", "delta", "thought", "error", "huge",
                     "bubble", "success"}
      /\ l.kind \in ToolKind => l.tool \in Tool
      /\ l.kind = "bubble" => l.text \in Bubble
  BY <1>5, LineFields
<1>8. /\ tools' \in [Tool -> {"new", "running", "done"}]
      /\ l.kind = "started" => tools[l.tool] = "new" /\ tools'[l.tool] = "running"
      /\ l.kind = "completed" => tools[l.tool] = "running" /\ tools'[l.tool] = "done"
      /\ \A t \in Tool : l.kind \notin ToolKind \/ t # l.tool => tools'[t] = tools[t]
  <2>1. CASE l.kind = "started"
    BY <2>1, <1>3, <1>4, <1>7 DEF Turned, ToolKind
  <2>2. CASE l.kind = "completed"
    BY <2>2, <1>3, <1>4, <1>7 DEF Turned, ToolKind
  <2>3. CASE l.kind \notin ToolKind
    <3>1. tools' = tools
      BY <2>3, <1>3 DEF Turned, ToolKind
    <3>. QED
      BY <2>3, <3>1, <1>4 DEF ToolKind
  <2>. QED BY <2>1, <2>2, <2>3 DEF ToolKind
<1>9. \A t \in Tool : tools[t] # "new" => tools'[t] # "new"
  BY <1>7, <1>8 DEF ToolKind
<1>10. TypeOK'
  <2>1. Len(stdout') <= PipeCap /\ written' \in 0..MaxLine
    BY <1>3, <1>4, <1>6, CursorBounds DEF TypeOK
  <2>2. running' \subseteq {t \in Tool : tools'[t] # "new"}
    BY <1>3, <1>4, <1>9 DEF TypeOK
  <2>3. said' \in (1..MaxLine) \cup {None, Blank}
    BY <1>3, <1>4, <1>7 DEF TypeOK, Bubble
  <2>. QED
    BY <2>1, <2>2, <2>3, <1>3, <1>4, <1>8 DEF TypeOK
<1>11. ToolLines'
  <2>1. \A t \in Tool : t \in running => tools[t] # "new"
    BY <1>4 DEF TypeOK
  <2>2. ASSUME NEW a \in 1..(m + 1), NEW t \in Tool, q[a].kind = "started", q[a].tool = t
        PROVE  tools'[t] # "new" /\ t \notin running
    <3>1. CASE a \in 1..m
      <4>1. tools[t] # "new" /\ t \notin running
        BY <2>2, <3>1, <1>2, <1>4, <1>6 DEF ToolLines, IsLine
      <4>. QED
        BY <4>1, <1>9
    <3>2. CASE a = m + 1
      BY <2>1, <2>2, <3>2, <1>6, <1>8
    <3>. QED BY <3>1, <3>2, <1>6
  <2>3. ASSUME NEW a \in 1..(m + 1), NEW t \in Tool, q[a].kind = "completed", q[a].tool = t
        PROVE  /\ tools'[t] = "done"
               /\ t \in running \/ \E b \in 1..(a - 1) : q[b].kind = "started" /\ q[b].tool = t
    <3>1. CASE a \in 1..m
      <4>1. /\ tools[t] = "done"
            /\ t \in running
                 \/ \E b \in 1..(a - 1) : stdout[b].kind = "started" /\ stdout[b].tool = t
        BY <2>3, <3>1, <1>2, <1>4, <1>6 DEF ToolLines, IsLine
      <4>2. tools'[t] = "done"
        BY <4>1, <1>7, <1>8 DEF ToolKind
      <4>3. \A b \in 1..(a - 1) : q[b] = stdout[b]
        BY <3>1, <1>6
      <4>. QED
        BY <4>1, <4>2, <4>3
    <3>2. CASE a = m + 1
      <4>1. tools[t] = "running" /\ tools'[t] = "done"
        BY <2>3, <3>2, <1>6, <1>8
      <4>2. t \in running \/ \E b \in 1..m : stdout[b].kind = "started" /\ stdout[b].tool = t
        BY <4>1, <1>2, <1>4 DEF ToolLines, IsLine
      <4>3. a - 1 = m
        BY <3>2, <1>6
      <4>. QED
        BY <4>1, <4>2, <4>3, <1>6
    <3>. QED BY <3>1, <3>2, <1>6
  <2>4. ASSUME NEW t \in Tool, tools'[t] = "running"
        PROVE  t \in running \/ \E a \in 1..(m + 1) : q[a].kind = "started" /\ q[a].tool = t
    <3>1. CASE l.kind = "started" /\ t = l.tool
      <4>1. m + 1 \in 1..(m + 1)
        BY <1>6
      <4>. QED
        BY <4>1, <3>1, <1>6
    <3>2. CASE ~(l.kind = "started" /\ t = l.tool)
      <4>1. tools[t] = "running"
        BY <2>4, <3>2, <1>7, <1>8 DEF ToolKind
      <4>2. t \in running \/ \E a \in 1..m : stdout[a].kind = "started" /\ stdout[a].tool = t
        BY <4>1, <1>2, <1>4 DEF ToolLines, IsLine
      <4>. QED
        BY <4>2, <1>6
    <3>. QED BY <3>1, <3>2
  <2>5. ASSUME NEW a \in 1..(m + 1), NEW b \in 1..(m + 1), NEW t \in Tool, a < b,
               q[a].kind \in ToolKind, q[b].kind \in ToolKind, q[a].tool = t, q[b].tool = t
        PROVE  q[a].kind = "started" /\ q[b].kind = "completed"
    <3>1. a \in 1..m /\ q[a] = stdout[a]
      BY <2>5, <1>6
    <3>2. CASE b \in 1..m
      <4>1. q[b] = stdout[b]
        BY <3>2, <1>6
      <4>. QED
        BY <4>1, <2>5, <3>1, <3>2, <1>2, <1>4 DEF ToolLines
    <3>3. CASE b = m + 1
      <4>1. l.kind \in ToolKind /\ l.tool = t
        BY <2>5, <3>3, <1>6
      <4>2. tools[t] # "new" /\ (q[a].kind = "completed" => tools[t] = "done")
        BY <2>5, <3>1, <1>2, <1>4 DEF ToolLines, IsLine, ToolKind
      <4>. QED
        BY <4>1, <4>2, <2>5, <3>3, <1>6, <1>8 DEF ToolKind
    <3>. QED BY <3>2, <3>3, <1>6
  <2>. QED
    BY <2>2, <2>3, <2>4, <2>5, <1>3, <1>6 DEF ToolLines, IsLine
<1>12. Tracked' /\ Shown'
  BY <1>3, <1>4 DEF Tracked, Shown
<1>13. Bubbles'
  <2>1. ASSUME \A a \in 1..(m + 1) : q[a].kind # "bubble"
        PROVE  stream.last = said'
    <3>1. l.kind # "bubble" /\ \A a \in 1..m : stdout[a].kind # "bubble"
      BY <2>1, <1>6
    <3>. QED
      BY <3>1, <1>2, <1>3, <1>4 DEF Bubbles
  <2>2. ASSUME NEW a \in 1..(m + 1), q[a].kind = "bubble",
               \A b \in 1..(m + 1) : b > a => q[b].kind # "bubble"
        PROVE  q[a].text = said'
    <3>1. CASE a = m + 1
      BY <2>2, <3>1, <1>3, <1>6
    <3>2. CASE a \in 1..m
      <4>1. m + 1 > a /\ m + 1 \in 1..(m + 1)
        BY <3>2, <1>6
      <4>2. l.kind # "bubble"
        BY <4>1, <2>2, <1>6
      <4>3. \A b \in 1..m : b > a => stdout[b].kind # "bubble"
        BY <2>2, <1>6
      <4>. QED
        BY <4>2, <4>3, <2>2, <3>2, <1>2, <1>3, <1>4, <1>6 DEF Bubbles
    <3>. QED BY <3>1, <3>2, <1>6
  <2>. QED
    BY <2>1, <2>2, <1>3, <1>6 DEF Bubbles
<1>14. Drained' /\ AnswerIsLastBubble' /\ NoRunawayAgent'
  BY <1>3, <1>4 DEF Drained, AnswerIsLastBubble, NoRunawayAgent
<1>. QED
  BY <1>10, <1>11, <1>12, <1>13, <1>14 DEF IInv

-----------------------------------------------------------------------------
(* The theorems.                                                             *)

LEMMA InitIInv == ASSUME Init PROVE IInv
<1>1. /\ pc = "ready" /\ prompt = 0 /\ chat = None /\ stream = Fresh
      /\ agent = "none" /\ helper = FALSE /\ stdout = <<>> /\ written = 0
      /\ tools = [t \in Tool |-> "new"] /\ running = {} /\ said = None /\ expired = FALSE
      /\ result = None
  BY DEF Init
<1>2. stream \in Stream
  BY <1>1 DEF Fresh, Stream
<1>3. TypeOK
  <2>1. 0 \in 0..MaxPrompt /\ 0 \in 0..MaxLine /\ Len(stdout) <= PipeCap
    BY <1>1, CursorBounds
  <2>. QED
    BY <2>1, <1>1, <1>2 DEF TypeOK, Stream
<1>4. ToolLines /\ Bubbles
  BY <1>1 DEF ToolLines, Bubbles, Fresh
<1>5. Tracked /\ Shown
  BY <1>1, CursorTools DEF Tracked, Shown, Fresh
<1>6. Drained /\ AnswerIsLastBubble /\ NoRunawayAgent
  BY <1>1 DEF Drained, AnswerIsLastBubble, NoRunawayAgent
<1>. QED
  BY <1>3, <1>4, <1>5, <1>6 DEF IInv

LEMMA NextIInv == ASSUME IInv, [Next]_vars PROVE IInv'
<1>1. CASE UNCHANGED vars
  <2>1. UNCHANGED <<pc, prompt, chat, stream, agent, helper, stdout, written, tools, running,
                    said, expired, result>>
    BY <1>1 DEF vars
  <2>2. stream \in Stream
    BY DEF IInv, TypeOK, Stream
  <2>3. ToolLines' /\ Tracked' /\ Shown' /\ Bubbles'
    BY <2>1, <2>2, SameWork
  <2>4. TypeOK' /\ Drained' /\ AnswerIsLastBubble' /\ NoRunawayAgent'
    BY <2>1 DEF IInv, TypeOK, Drained, AnswerIsLastBubble, NoRunawayAgent
  <2>. QED
    BY <2>3, <2>4 DEF IInv
<1>2. CASE Start \/ StartFails
  BY <1>2, StartIInv, StartFailsIInv
<1>3. CASE Worker
  BY <1>3, ReadLineIInv, StdoutEndsIInv, StderrEndsIInv, ReturnIInv DEF Worker
<1>4. CASE Expire \/ Exit \/ Background
  BY <1>4, ExpireIInv, ExitIInv, BackgroundIInv
<1>5. CASE \E l \in Line : Write(l)
  BY <1>5, WriteIInv
<1>. QED
  BY <1>1, <1>2, <1>3, <1>4, <1>5 DEF Next

\* The invariant holds of every behaviour of the cursor session.
THEOREM Invariance == Spec => []IInv
<1>1. Init => IInv
  BY InitIInv
<1>2. IInv /\ [Next]_vars => IInv'
  BY NextIInv
<1>. QED
  BY <1>1, <1>2, PTL DEF Spec

\* The variables have their types; the tracker knows no tool of another prompt.
THEOREM TypeCorrect == Spec => []TypeOK
<1>1. IInv => TypeOK
  BY DEF IInv
<1>. QED
  BY <1>1, Invariance, PTL

\* A prompt that succeeds returns the last bubble the agent wrote: nothing of
\* it is left in the pipe, whatever came around the result event.
THEOREM LastBubbleReturned == Spec => []AnswerIsLastBubble
<1>1. IInv => AnswerIsLastBubble
  BY DEF IInv
<1>. QED
  BY <1>1, Invariance, PTL

\* The status shown follows the tool calls and the thinking, however many tools
\* overlap and in whatever order they complete.
THEOREM PhaseFollowsWork == Spec => []PhaseTracksWork
<1>1. IInv => PhaseTracksWork
  BY DEF IInv, Shown, PhaseTracksWork
<1>. QED
  BY <1>1, Invariance, PTL

\* Between prompts there is no agent at work in the directory.
THEOREM AgentIsWaitedFor == Spec => []NoRunawayAgent
<1>1. IInv => NoRunawayAgent
  BY DEF IInv
<1>. QED
  BY <1>1, Invariance, PTL
=============================================================================
