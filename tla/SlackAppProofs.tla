--------------------------- MODULE SlackAppProofs ---------------------------
(* Theorems about SlackApp, for every set of threads and messages, every     *)
(* capacity of the channels, and every workload.                             *)
EXTENDS SlackApp, SequenceTheorems, TLAPS

-----------------------------------------------------------------------------
(* The inductive invariant.                                                  *)

\* What this process has accepted it remembers; what it has answered or holds
\* is in the order of acceptance.
Line(t) == answered[t] \o Pipeline(t)

Ordered(t) ==
  /\ \A i, j \in 1..Len(accepted[t]) : accepted[t][i] = accepted[t][j] => i = j
  /\ \A m \in Elements(accepted[t]) :
       /\ m \in seen /\ ThreadOf[m] = t
       /\ Holds(m) \/ fate[m] # "open"
  /\ Elements(Line(t)) \subseteq Elements(accepted[t])
  /\ \A i, j \in 1..Len(Line(t)) : i < j => Before(accepted[t], Line(t)[i], Line(t)[j])
  /\ Clearing(t) => worker[t].msg \in Elements(answered[t])

\* A message Slack has is dispatched again only when it has been forgotten.
Again(t) ==
  \A i, j \in 1..Len(accepted[t]) :
    i < j /\ SourceOf[accepted[t][i]] = SourceOf[accepted[t][j]] => accepted[t][i] \in forgotten

\* A message that found its thread at rest is the first one there until it has
\* been answered, and comes only once.
First(m) ==
  LET t == ThreadOf[m] IN
  /\ Pipeline(t)[1] = m
  /\ ~Clearing(t)
  /\ status[t] # "none"

Alone == \A m \in alone : m \in seen /\ (Holds(m) => First(m))

\* The reader: an item is put on the stack once, when it has started, and
\* belongs to the thread; nothing is told of a turn that has not begun.
Frame(t, f) == f \in Msg \X Item /\ ThreadOf[f[1]] = t

State(f) == item[f[1]][f[2]]

Stacked(t) ==
  /\ \A a, b \in 1..Len(stack[t]) : stack[t][a] = stack[t][b] => a = b
  /\ \A f \in Elements(stack[t]) : Frame(t, f) /\ State(f) # "new"

Reporting(t) ==
  /\ report[t] # NoReport => ThreadOf[report[t].msg] = t
  /\ report[t].pc = "push" =>
       /\ Frame(t, report[t].frame)
       /\ report[t].frame \notin Elements(stack[t])
       /\ State(report[t].frame) \notin {"new", "done"}
  /\ report[t].pc = "emit" /\ report[t].frame # Idle => Frame(t, report[t].frame)

\* In a turn, the stack has what runs of it, and nothing that is done.
OnStack(t) ==
  worker[t].pc = "turn" =>
    /\ \A f \in Elements(stack[t]) : State(f) # "done"
    /\ \A i \in Item : item[worker[t].msg][i] = "running" =>
         \/ <<worker[t].msg, i>> \in Elements(stack[t])
         \/ report[t].pc = "push" /\ report[t].frame = <<worker[t].msg, i>>

Current(t) ==
  report[t].pc = "emit" =>
    LET f == report[t].frame IN
    IF f = Idle THEN \A i \in Item : item[report[t].msg][i] # "running"
    ELSE item[f[1]][f[2]] # "done"

Phases(t) == Stacked(t) /\ Reporting(t) /\ OnStack(t) /\ Current(t)

Unbegun ==
  \A m \in Msg : ~Begun(ThreadOf[m], m) =>
    \A i \in Item : item[m][i] \notin {"running", "done"}

IInv ==
  /\ TypeOK
  /\ \A t \in Thread : Ordered(t) /\ Again(t) /\ Phases(t)
  /\ StatusIsOwed /\ Alone /\ Unbegun

-----------------------------------------------------------------------------
(* Types.                                                                    *)

LEMMA LoopFields ==
  ASSUME TypeOK
  PROVE  /\ loop.pc \in {"select", "status", "lookup", "send", "gone", "stranded"}
         /\ loop.msg \in Msg \cup {None}
         /\ loop.pc = "select" <=> loop.msg = None
         /\ \A p \in {"status", "lookup", "send", "gone", "stranded"} : loop.pc # "select" =>
              [loop EXCEPT !.pc = p] = [pc |-> p, msg |-> loop.msg]
BY NoneAssumption DEF TypeOK

Carries == {"setup", "turn", "post", "clear"}
Empty == {"none", "fresh", "select", "leaving"}

LEMMA WorkerFields ==
  ASSUME TypeOK, NEW t \in Thread
  PROVE  /\ worker[t].pc \in Carries \cup Empty
         /\ worker[t].msg \in Msg \cup {None}
         /\ worker[t].pc \in Carries <=> worker[t].msg # None
         /\ \A p \in Carries \cup Empty :
              [worker[t] EXCEPT !.pc = p] = [pc |-> p, msg |-> worker[t].msg]
BY NoneAssumption DEF TypeOK, Carries, Empty

LEMMA ReportFields ==
  ASSUME TypeOK, NEW t \in Thread
  PROVE  /\ report[t].pc \in {"none", "push", "emit"}
         /\ report[t].pc = "none" <=> report[t] = NoReport
         /\ report[t].pc # "none" =>
              /\ report[t].msg \in Msg
              /\ report[t].frame \in (Msg \X Item) \cup {Idle}
              /\ \A p \in {"push", "emit"} : [report[t] EXCEPT !.pc = p]
                   = [pc |-> p, msg |-> report[t].msg, frame |-> report[t].frame]
<1>1. CASE report[t] = NoReport
  BY <1>1 DEF NoReport
<1>2. CASE report[t] \in [pc : {"push", "emit"}, msg : Msg, frame : (Msg \X Item) \cup {Idle}]
  BY <1>2 DEF NoReport
<1>. QED
  BY <1>1, <1>2 DEF TypeOK

Report == [pc : {"push", "emit"}, msg : Msg, frame : (Msg \X Item) \cup {Idle}]

LEMMA ReportEmits ==
  ASSUME TypeOK, NEW t \in Thread, report[t].pc = "push"
  PROVE  [report[t] EXCEPT !.pc = "emit"] \in Report
<1>1. report[t] \in Report
  BY DEF TypeOK, NoReport, Report
<1>. QED
  BY <1>1 DEF Report

LEMMA OneReport ==
  ASSUME TypeOK, NEW t \in Thread, NEW p \in {"push", "emit"}, NEW m \in Msg,
         NEW f \in (Msg \X Item) \cup {Idle},
         report' = [report EXCEPT ![t] = [pc |-> p, msg |-> m, frame |-> f]]
  PROVE  report' \in [Thread -> {NoReport} \cup Report]
<1>1. [pc |-> p, msg |-> m, frame |-> f] \in Report
  BY DEF Report
<1>2. report \in [Thread -> {NoReport} \cup Report]
  BY DEF TypeOK, Report
<1>. QED
  BY <1>1, <1>2

LEMMA ThreadType == ASSUME NEW m \in Msg PROVE ThreadOf[m] \in Thread
BY MessageAssumption

\* A worker moves between states that carry its message, or between those
\* without one.
LEMMA MovesType ==
  ASSUME TypeOK, NEW t \in Thread, NEW p, Moves(t, p),
         (p \in Carries /\ worker[t].pc \in Carries) \/ (p \in Empty /\ worker[t].pc \in Empty)
  PROVE  /\ worker' \in [Thread -> [pc : Empty, msg : {None}] \cup [pc : Carries, msg : Msg]]
         /\ worker'[t] = [pc |-> p, msg |-> worker[t].msg]
         /\ \A u \in Thread \ {t} : worker'[u] = worker[u]
<1>1. [worker[t] EXCEPT !.pc = p] = [pc |-> p, msg |-> worker[t].msg]
  BY WorkerFields
<1>2. worker \in [Thread -> [pc : Empty, msg : {None}] \cup [pc : Carries, msg : Msg]]
  BY DEF TypeOK, Carries, Empty
<1>3. [pc |-> p, msg |-> worker[t].msg] \in [pc : Empty, msg : {None}] \cup [pc : Carries, msg : Msg]
  BY WorkerFields DEF Carries, Empty
<1>. QED
  BY <1>1, <1>2, <1>3 DEF Moves

\* item, when one item of a message, or all of a message's, have changed.
LEMMA ItemSet ==
  ASSUME TypeOK, NEW m \in Msg, NEW i \in Item,
         NEW st \in {"none", "new", "running", "done", "closed"},
         item' = [item EXCEPT ![m][i] = st]
  PROVE  /\ item' \in [Msg -> [Item -> {"none", "new", "running", "done", "closed"}]]
         /\ item'[m][i] = st
         /\ \A n \in Msg, j \in Item : n # m \/ j # i => item'[n][j] = item[n][j]
BY DEF TypeOK

LEMMA AfterType ==
  ASSUME TypeOK, NEW m \in Msg, NEW st \in {"new", "closed"}
  PROVE  /\ After(m, st) \in [Item -> {"none", "new", "running", "done", "closed"}]
         /\ \A i \in Item : After(m, st)[i] \in {"none", st}
BY DEF After

LEMMA SettleType ==
  ASSUME TypeOK, NEW ms, NEW f \in {"answered", "dropped", "forfeited"}, Settle(ms, f)
  PROVE  /\ fate' \in [Msg -> {"open", "answered", "dropped", "forfeited"}]
         /\ \A m \in Msg : m \in ms \/ fate[m] # "open" => fate'[m] # "open"
BY DEF TypeOK, Settle

\* removeFromStack leaves a stack alone if it does not find the frame.
LEMMA RemovedNone ==
  ASSUME NEW S, NEW s \in Seq(S), NEW t, \A i \in 1..Len(s) : s[i] # t
  PROVE  Without(s, t) = s
BY DEF Without, RemoveFirst

LEMMA RemovedOnce ==
  ASSUME NEW S, NEW s \in Seq(S), NEW k \in 1..Len(s),
         \A i \in 1..Len(s) : s[i] = s[k] => i = k
  PROVE  /\ Without(s, s[k]) \in Seq(S) /\ Len(Without(s, s[k])) = Len(s) - 1
         /\ \A i \in 1..(Len(s) - 1) :
              Without(s, s[k])[i] = IF i < k THEN s[i] ELSE s[i + 1]
<1>1. {i \in 1..Len(s) : s[i] = s[k]} = {k}
  OBVIOUS
<1>2. Min({k}) = k
  BY DEF Min
<1>3. Without(s, s[k]) = SubSeq(s, 1, k - 1) \o SubSeq(s, k + 1, Len(s))
  BY <1>1, <1>2 DEF Without, RemoveFirst, RemoveAt, SelectInSeq
<1>4. PICK a : a = SubSeq(s, 1, k - 1)
  OBVIOUS
<1>5. PICK b : b = SubSeq(s, k + 1, Len(s))
  OBVIOUS
<1>6. a \in Seq(S) /\ Len(a) = k - 1 /\ \A i \in 1..(k - 1) : a[i] = s[i]
  BY <1>4
<1>7. b \in Seq(S) /\ Len(b) = Len(s) - k /\ \A i \in 1..(Len(s) - k) : b[i] = s[k + i]
  BY <1>5
<1>8. /\ a \o b \in Seq(S) /\ Len(a \o b) = Len(s) - 1
      /\ \A i \in 1..(Len(s) - 1) : (a \o b)[i] = IF i < k THEN s[i] ELSE s[i + 1]
  <2>1. /\ a \o b \in Seq(S) /\ Len(a \o b) = Len(a) + Len(b)
        /\ \A i \in 1..(Len(a) + Len(b)) :
             (a \o b)[i] = IF i <= Len(a) THEN a[i] ELSE b[i - Len(a)]
    BY <1>6, <1>7, ConcatProperties
  <2>. QED
    BY <2>1, <1>6, <1>7
<1>. QED
  BY <1>3, <1>4, <1>5, <1>8

\* As a set of tools: what was there is there, but for the one.
LEMMA RemovedIsRemoved ==
  ASSUME NEW S, NEW s \in Seq(S), NEW t,
         \A i, j \in 1..Len(s) : s[i] = s[j] => i = j
  PROVE  LET r == Without(s, t) IN
         /\ r \in Seq(S)
         /\ \A i, j \in 1..Len(r) : r[i] = r[j] => i = j
         /\ \A i \in 1..Len(r) : r[i] # t /\ \E j \in 1..Len(s) : s[j] = r[i]
         /\ \A j \in 1..Len(s) : s[j] # t => \E i \in 1..Len(r) : r[i] = s[j]
<1>1. CASE \A i \in 1..Len(s) : s[i] # t
  BY <1>1, RemovedNone
<1>2. CASE \E i \in 1..Len(s) : s[i] = t
  <2>1. PICK k \in 1..Len(s) : s[k] = t
    BY <1>2
  <2>2. PICK r : r = Without(s, t)
    OBVIOUS
  <2>3. /\ r \in Seq(S) /\ Len(r) = Len(s) - 1 /\ Len(s) \in Nat
        /\ \A i \in 1..(Len(s) - 1) : r[i] = IF i < k THEN s[i] ELSE s[i + 1]
    BY <2>1, <2>2, RemovedOnce
  <2>4. \A i \in 1..Len(r) :
          \E j \in 1..Len(s) : j # k /\ r[i] = s[j] /\ (j = i \/ j = i + 1) /\ (i < k <=> j < k)
    BY <2>3
  <2>5. \A i \in 1..Len(r) : r[i] # t /\ \E j \in 1..Len(s) : s[j] = r[i]
    BY <2>1, <2>4
  <2>6. \A i, j \in 1..Len(r) : r[i] = r[j] => i = j
    BY <2>3, <2>4
  <2>7. ASSUME NEW j \in 1..Len(s), s[j] # t
        PROVE  \E i \in 1..Len(r) : r[i] = s[j]
    <3>1. CASE j < k
      BY <3>1, <2>3
    <3>2. CASE j > k
      <4>1. j - 1 \in 1..Len(r) /\ r[j - 1] = s[j]
        BY <3>2, <2>1, <2>3
      <4>. QED
        BY <4>1
    <3>. QED
      BY <3>1, <3>2, <2>1, <2>7
  <2>. QED
    BY <2>2, <2>3, <2>5, <2>6, <2>7
<1>. QED
  BY <1>1, <1>2

LEMMA StackAppended ==
  ASSUME NEW S, NEW s \in Seq(S), NEW e \in S
  PROVE  /\ Append(s, e) \in Seq(S) /\ Len(Append(s, e)) = Len(s) + 1 /\ Len(s) \in Nat
         /\ Append(s, e)[Len(s) + 1] = e
         /\ \A i \in 1..Len(s) : Append(s, e)[i] = s[i]
OBVIOUS

LEMMA InitType == Init => TypeOK
<1>. SUFFICES ASSUME Init PROVE TypeOK
  OBVIOUS
<1>1. PICK w \in Workloads :
        /\ due = w.tries /\ restarts = w.restarts
        /\ item = [m \in Msg |-> [i \in Item |-> IF <<m, i>> \in w.items THEN "new" ELSE "none"]]
  BY DEF Init
<1>2. due \in [Envelope -> Nat] /\ restarts \in Nat
  BY <1>1, WorkloadAssumption DEF Workload
<1>3. item \in [Msg -> [Item -> {"none", "new", "running", "done", "closed"}]]
  BY <1>1
<1>. QED
  BY <1>2, <1>3, QueueAssumption DEF Init, TypeOK, AtRest, NoWorker

LEMMA LoopType ==
  ASSUME TypeOK, 
         (\E e \in Envelope : Drop(e) \/ Dispatch(e)) \/ (\E m \in Msg : Forget(m)) \/ Loop
  PROVE  TypeOK'
<1>. USE LoopFields, ThreadType
<1>1. ASSUME NEW e \in Envelope, Acknowledge(e), due[e] > 0
      PROVE  due' \in [Envelope -> Nat]
  <2>1. due \in [Envelope -> Nat] /\ due[e] - 1 \in Nat
    BY <1>1 DEF TypeOK
  <2>2. due' = [due EXCEPT ![e] = 0] \/ due' = [due EXCEPT ![e] = due[e] - 1]
    BY <1>1 DEF Acknowledge
  <2>. QED
    BY <2>1, <2>2
<1>2. ASSUME NEW m \in Msg, Forget(m) PROVE TypeOK'
  BY <1>2 DEF TypeOK, Forget, threadVars, phaseVars, statusVars, historyVars
<1>3. ASSUME NEW e \in Envelope, Drop(e) PROVE TypeOK'
  BY <1>1, <1>3
  DEF TypeOK, Drop, threadVars, phaseVars, statusVars, historyVars
<1>4. ASSUME NEW e \in Envelope, Dispatch(e) PROVE TypeOK'
  <2>1. PICK d : TakenFor(e, d)
    BY <1>4 DEF Dispatch
  <2>2. d \in Msg /\ seen' = seen \cup {d} /\ loop' = [pc |-> "status", msg |-> d]
    BY <2>1 DEF TakenFor, New
  <2>3. accepted' \in [Thread -> Seq(Msg)]
    BY <2>1, <2>2 DEF TypeOK, TakenFor
  <2>4. due' \in [Envelope -> Nat]
    BY <1>1, <1>4 DEF Dispatch
  <2>5. UNCHANGED <<restarts, forgotten, worker, queue, stack, report, item, lastPhase, status,
                    alone, answered, fate>>
    BY <1>4 DEF Dispatch, threadVars, phaseVars, statusVars
  <2>. QED
    BY <2>2, <2>3, <2>4, <2>5 DEF TypeOK
<1>5. CASE SetStatus
  <2>1. /\ loop.msg \in Msg /\ ThreadOf[loop.msg] \in Thread
        /\ loop' = [pc |-> "lookup", msg |-> loop.msg]
    BY <1>5 DEF SetStatus
  <2>2. status' \in [Thread -> {"none", "live", "stray"}] /\ alone' \subseteq Msg
    BY <1>5, <2>1 DEF SetStatus, TypeOK, statusVars
  <2>. QED
    BY <1>5, <2>1, <2>2 DEF TypeOK, SetStatus, slackVars, threadVars, phaseVars, historyVars
<1>6. CASE Lookup
  <2>1. \A t \in Thread : worker[t].pc = "none" =>
          [worker[t] EXCEPT !.pc = "fresh"] = [pc |-> "fresh", msg |-> None]
    <3>. SUFFICES ASSUME NEW t \in Thread, worker[t].pc = "none"
                  PROVE  [worker[t] EXCEPT !.pc = "fresh"] = [pc |-> "fresh", msg |-> None]
      OBVIOUS
    <3>1. worker[t].msg = None /\ "fresh" \in Carries \cup Empty
      BY WorkerFields DEF Carries, Empty
    <3>. QED
      BY <3>1, WorkerFields
  <2>2. worker' \in [Thread -> [pc : {"none", "fresh", "select", "leaving"}, msg : {None}] \cup
                          [pc : {"setup", "turn", "post", "clear"}, msg : Msg]]
    <3>1. PICK t : t = ThreadOf[loop.msg]
      OBVIOUS
    <3>2. /\ t \in Thread
          /\ worker' = IF worker[t].pc = "none"
                       THEN [worker EXCEPT ![t] = [pc |-> "fresh", msg |-> None]] ELSE worker
      BY <1>6, <2>1, <3>1 DEF Lookup
    <3>. QED
      BY <3>2 DEF TypeOK
  <2>3. loop' = [pc |-> "send", msg |-> loop.msg] /\ loop.msg \in Msg
    BY <1>6 DEF Lookup
  <2>. QED
    BY <1>6, <2>2, <2>3 DEF TypeOK, Lookup, slackVars, phaseVars, statusVars, historyVars
<1>7. CASE Send
  <2>1. loop.msg \in Msg /\ loop' = AtRest
    BY <1>7 DEF Send
  <2>2. queue' \in [Thread -> Seq(Msg)] /\ \A t \in Thread : Len(queue'[t]) <= QueueCap
    <3>1. PICK t : t = ThreadOf[loop.msg]
      OBVIOUS
    <3>2. t \in Thread /\ Len(queue[t]) < QueueCap /\ queue' = [queue EXCEPT ![t] = Append(@, loop.msg)]
      BY <1>7, <2>1, <3>1 DEF Send
    <3>3. /\ Append(queue[t], loop.msg) \in Seq(Msg)
          /\ Len(Append(queue[t], loop.msg)) <= QueueCap
      BY <2>1, <3>2, QueueAssumption, StackAppended DEF TypeOK
    <3>. QED
      BY <3>2, <3>3 DEF TypeOK
  <2>3. /\ loop' \in [pc : {"select"}, msg : {None}]
        /\ UNCHANGED <<due, restarts, seen, forgotten, worker, stack, report, item, lastPhase, status,
                      alone, accepted, answered, fate>>
    BY <1>7, <2>1 DEF AtRest, Send, slackVars, phaseVars, statusVars, historyVars
  <2>. QED
    BY <2>2, <2>3 DEF TypeOK
<1>8. CASE SendToGone
  <2>1. fate' \in [Msg -> {"open", "answered", "dropped", "forfeited"}]
    BY <1>8, SettleType DEF SendToGone
  <2>. QED
    BY <1>8, <2>1 DEF TypeOK, SendToGone, AtRest, Abandoned, slackVars, threadVars, phaseVars
<1>. QED
  BY <1>2, <1>3, <1>4, <1>5, <1>6, <1>7, <1>8 DEF Loop

LEMMA WorkType ==
  ASSUME TypeOK, NEW t \in Thread, Work(t) \/ Expire(t)
  PROVE  TypeOK'
<1>. USE WorkerFields DEF Carries, Empty
<1>1. ASSUME NEW p, Moves(t, p),
             (p \in Carries /\ worker[t].pc \in Carries) \/ (p \in Empty /\ worker[t].pc \in Empty)
      PROVE  worker' \in [Thread -> [pc : {"none", "fresh", "select", "leaving"}, msg : {None}] \cup
                          [pc : {"setup", "turn", "post", "clear"}, msg : Msg]]
  BY <1>1, MovesType
<1>2. FreshStack(t) \in [Thread -> Seq(Msg \X Item)]
  BY DEF FreshStack, TypeOK
<1>3. CASE Take(t)
  <2>1. /\ Head(queue[t]) \in Msg /\ Tail(queue[t]) \in Seq(Msg)
        /\ Len(Tail(queue[t])) <= Len(queue[t]) /\ Len(queue[t]) \in Nat
    BY <1>3 DEF Take, TypeOK
  <2>2. worker' \in [Thread -> [pc : {"none", "fresh", "select", "leaving"}, msg : {None}] \cup
                          [pc : {"setup", "turn", "post", "clear"}, msg : Msg]]
    BY <1>3, <2>1 DEF Take, TypeOK
  <2>3. queue' \in [Thread -> Seq(Msg)] /\ \A u \in Thread : Len(queue'[u]) <= QueueCap
    <3>1. Len(Tail(queue[t])) <= QueueCap
      BY <2>1, QueueAssumption DEF TypeOK
    <3>. QED
      BY <1>3, <2>1, <3>1 DEF Take, TypeOK
  <2>. QED
    BY <1>3, <2>2, <2>3 DEF TypeOK, Take, slackVars, phaseVars, statusVars, historyVars
<1>4. CASE BeginTurn(t)
  <2>1. Moves(t, "turn") /\ worker[t].pc \in Carries
    BY <1>4 DEF BeginTurn
  <2>. QED
    BY <1>1, <1>2, <1>4, <2>1 DEF TypeOK, BeginTurn, slackVars, statusVars, historyVars
<1>5. CASE FailSetup(t)
  <2>1. Moves(t, "post") /\ worker[t].pc \in Carries /\ worker[t].msg \in Msg
    BY <1>5, NoneAssumption DEF FailSetup
  <2>2. item' \in [Msg -> [Item -> {"none", "new", "running", "done", "closed"}]]
    BY <1>5, <2>1, AfterType DEF FailSetup, TypeOK
  <2>. QED
    BY <1>1, <1>5, <2>1, <2>2 DEF TypeOK, FailSetup, slackVars, statusVars, historyVars
<1>6. CASE EndTurn(t)
  <2>1. Moves(t, "post") /\ worker[t].pc \in Carries
    BY <1>6 DEF EndTurn
  <2>. QED
    BY <1>1, <1>2, <1>6, <2>1 DEF TypeOK, EndTurn, slackVars, statusVars, historyVars
<1>7. CASE Post(t)
  <2>1. Moves(t, "clear") /\ worker[t].pc \in Carries /\ worker[t].msg \in Msg
    BY <1>7, NoneAssumption DEF Post
  <2>2. fate' \in [Msg -> {"open", "answered", "dropped", "forfeited"}]
    BY <1>7, SettleType DEF Post
  <2>3. answered' \in [Thread -> Seq(Msg)]
    BY <1>7, <2>1 DEF Post, TypeOK
  <2>4. status' \in [Thread -> {"none", "live", "stray"}]
    BY <1>7 DEF Post, TypeOK
  <2>. QED
    BY <1>1, <1>7, <2>1, <2>2, <2>3, <2>4 DEF TypeOK, Post, slackVars, phaseVars
<1>8. CASE Clear(t)
  <2>1. worker' \in [Thread -> [pc : {"none", "fresh", "select", "leaving"}, msg : {None}] \cup
                          [pc : {"setup", "turn", "post", "clear"}, msg : Msg]]
    BY <1>8 DEF Clear, AtRest, TypeOK
  <2>2. status' \in [Thread -> {"none", "live", "stray"}]
    BY <1>8 DEF Clear, TypeOK, Abandoned
  <2>. QED
    BY <1>8, <2>1, <2>2 DEF TypeOK, Clear, slackVars, phaseVars, historyVars
<1>9. CASE Return(t)
  <2>1. Moves(t, "none") /\ worker[t].pc \in Empty
    BY <1>9 DEF Return
  <2>2. fate' \in [Msg -> {"open", "answered", "dropped", "forfeited"}]
    BY <1>9, SettleType DEF Return
  <2>3. loop' \in [pc : {"select"}, msg : {None}] \cup
             [pc : {"status", "lookup", "send", "gone", "stranded"}, msg : Msg]
    BY <1>9, LoopFields DEF Return, TypeOK
  <2>4. item' \in [Msg -> [Item -> {"none", "new", "running", "done", "closed"}]]
    BY <1>9, AfterType DEF Return, TypeOK
  <2>5. report' \in [Thread -> {NoReport} \cup
       [pc : {"push", "emit"}, msg : Msg, frame : (Msg \X Item) \cup {Idle}]]
    <3>1. report[t].pc = "push" => [report[t] EXCEPT !.pc = "emit"] \in Report
      BY ReportEmits
    <3>. QED
      BY <1>9, <3>1 DEF Report, Return, TypeOK
  <2>6. queue' \in [Thread -> Seq(Msg)] /\ \A u \in Thread : Len(queue'[u]) <= QueueCap
    BY <1>9, QueueAssumption DEF Return, TypeOK
  <2>7. status' \in [Thread -> {"none", "live", "stray"}] /\ stack' \in [Thread -> Seq(Msg \X Item)]
    BY <1>9 DEF Return, TypeOK, Abandoned
  <2>. QED
    BY <1>1, <1>9, <2>1, <2>2, <2>3, <2>4, <2>5, <2>6, <2>7 DEF TypeOK, Return, slackVars
<1>10. CASE Expire(t)
  <2>1. Moves(t, "leaving") /\ worker[t].pc \in Empty
    BY <1>10 DEF Expire
  <2>. QED
    BY <1>1, <1>10, <2>1 DEF TypeOK, Expire, slackVars, phaseVars, statusVars, historyVars
<1>. QED
  BY <1>3, <1>4, <1>5, <1>6, <1>7, <1>8, <1>9, <1>10 DEF Work

LEMMA ReadType ==
  ASSUME TypeOK, \A t \in Thread : Stacked(t) /\ Reporting(t),
         \/ \E t \in Thread : Read(t)
         \/ \E m \in Msg, i \in Item : ItemStarted(m, i) \/ ItemCompleted(m, i)
  PROVE  TypeOK'
<1>. USE DEF Report
<1>1. ASSUME NEW t \in Thread, Push(t) PROVE TypeOK'
  <2>1. [report[t] EXCEPT !.pc = "emit"] \in Report
    BY <1>1, ReportEmits DEF Push
  <2>2. report' \in [Thread -> {NoReport} \cup Report]
    BY <1>1, <2>1 DEF Push, TypeOK
  <2>3. stack' \in [Thread -> Seq(Msg \X Item)]
    BY <1>1, SMTT(60) DEF Push, Reporting, Frame, TypeOK
  <2>. QED
    BY <1>1, <2>2, <2>3 DEF Push, TypeOK, slackVars, threadVars, statusVars, historyVars
<1>2. ASSUME NEW t \in Thread, Emit(t) PROVE TypeOK'
  <2>1. report[t].msg \in Msg /\ report[t].frame[2] \in Item \cup {"idle"}
    <3>1. /\ report[t].msg \in Msg
          /\ report[t].frame \in Msg \X Item \/ report[t].frame = <<None, "idle">>
      BY <1>2, ReportFields DEF Emit, Idle
    <3>. QED
      BY <3>1
  <2>2. lastPhase' \in [Msg -> Item \cup {"idle", None}]
    BY <1>2, <2>1 DEF Emit, TypeOK
  <2>3. status' \in [Thread -> {"none", "live", "stray"}]
    BY <1>2 DEF Emit, Shown, TypeOK
  <2>4. report' \in [Thread -> {NoReport} \cup Report]
    BY <1>2 DEF Emit, TypeOK
  <2>. QED
    BY <1>2, <2>2, <2>3, <2>4 DEF Emit, TypeOK, slackVars, threadVars, historyVars
<1>3. ASSUME NEW m \in Msg, NEW i \in Item, ItemStarted(m, i) PROVE TypeOK'
  <2>1. PICK t \in Thread : t = ThreadOf[m]
    BY ThreadType
  <2>2. item' \in [Msg -> [Item -> {"none", "new", "running", "done", "closed"}]]
    BY <1>3, ItemSet DEF ItemStarted, Notify
  <2>3. Callback(t) # None => Callback(t) \in Msg
    BY WorkerFields DEF Callback
  <2>4. report' \in [Thread -> {NoReport} \cup Report]
    <3>1. \/ report' = report
          \/ report' = [report EXCEPT ![t] = [pc |-> "push", msg |-> Callback(t), frame |-> <<m, i>>]]
             /\ Callback(t) # None
      BY <1>3, <2>1 DEF ItemStarted, Ignores, Reports
    <3>2. report \in [Thread -> {NoReport} \cup Report]
      BY DEF TypeOK
    <3>3. <<m, i>> \in (Msg \X Item) \cup {Idle}
      OBVIOUS
    <3>. QED
      BY <3>1, <2>3, <3>2, <3>3, OneReport
  <2>5. stack' = stack
    BY <1>3 DEF ItemStarted, Ignores
  <2>. QED
    BY <1>3, <2>2, <2>4, <2>5
    DEF ItemStarted, TypeOK, slackVars, threadVars, statusVars, historyVars
<1>4. ASSUME NEW m \in Msg, NEW i \in Item, ItemCompleted(m, i) PROVE TypeOK'
  <2>1. PICK t \in Thread : t = ThreadOf[m]
    BY ThreadType
  <2>2. item' \in [Msg -> [Item -> {"none", "new", "running", "done", "closed"}]]
    BY <1>4, ItemSet DEF ItemCompleted, Notify
  <2>3. Callback(t) # None => Callback(t) \in Msg
    BY WorkerFields DEF Callback
  <2>4. PICK left : left = Without(stack[t], <<m, i>>)
    OBVIOUS
  <2>5. left \in Seq(Msg \X Item)
    BY <2>4, RemovedIsRemoved DEF Stacked, TypeOK
  <2>6. left # <<>> => left[Len(left)] \in Msg \X Item
    BY <2>5
  <2>7. PICK top : top = IF left = <<>> THEN Idle ELSE left[Len(left)]
    OBVIOUS
  <2>8. report' \in [Thread -> {NoReport} \cup Report]
    <3>1. \/ report' = report
          \/ report' = [report EXCEPT ![t] = [pc |-> "emit", msg |-> Callback(t), frame |-> top]]
             /\ Callback(t) # None
      BY <1>4, <2>1, <2>4, <2>7 DEF ItemCompleted, Ignores, Reports
    <3>2. report \in [Thread -> {NoReport} \cup Report]
      BY DEF TypeOK
    <3>3. top \in (Msg \X Item) \cup {Idle}
      BY <2>6, <2>7
    <3>. QED
      BY <3>1, <2>3, <3>2, <3>3, OneReport
  <2>9. stack' \in [Thread -> Seq(Msg \X Item)]
    BY <1>4, <2>1, <2>4, <2>5 DEF ItemCompleted, Ignores, TypeOK
  <2>. QED
    BY <1>4, <2>2, <2>8, <2>9
    DEF ItemCompleted, TypeOK, slackVars, threadVars, statusVars, historyVars
<1>. QED
  BY <1>1, <1>2, <1>3, <1>4 DEF Read

LEMMA RestartType ==
  ASSUME TypeOK, Restart
  PROVE  TypeOK'
<1>1. restarts' \in Nat
  BY DEF Restart, TypeOK
<1>2. fate' \in [Msg -> {"open", "answered", "dropped", "forfeited"}]
  BY SettleType DEF Restart
<1>3. item' \in [Msg -> [Item -> {"none", "new", "running", "done", "closed"}]]
  BY AfterType DEF Restart
<1>. QED
  BY <1>1, <1>2, <1>3, QueueAssumption
  DEF Restart, TypeOK, SeenAfterRestart, AtRest, NoWorker, Abandoned

LEMMA TypeStep ==
  ASSUME TypeOK, \A t \in Thread : Stacked(t) /\ Reporting(t), [Next]_vars
  PROVE  TypeOK'
<1>1. CASE UNCHANGED vars
  BY <1>1 DEF TypeOK, vars, slackVars, threadVars, phaseVars, statusVars, historyVars
<1>. QED
  BY <1>1, LoopType, WorkType, ReadType, RestartType DEF Next

-----------------------------------------------------------------------------
(* The line of messages of a thread.                                         *)

LEMMA PipelineType ==
  ASSUME TypeOK, NEW t \in Thread
  PROVE  /\ InWorker(t) \in Seq(Msg) /\ queue[t] \in Seq(Msg) /\ InLoop(t) \in Seq(Msg)
         /\ Pipeline(t) \in Seq(Msg) /\ answered[t] \in Seq(Msg) /\ Line(t) \in Seq(Msg)
         /\ accepted[t] \in Seq(Msg)
<1>1. InWorker(t) \in Seq(Msg)
  BY WorkerFields DEF InWorker
<1>2. InLoop(t) \in Seq(Msg)
  BY LoopFields DEF InLoop
<1>3. queue[t] \in Seq(Msg) /\ answered[t] \in Seq(Msg) /\ accepted[t] \in Seq(Msg)
  BY DEF TypeOK
<1>4. Pipeline(t) \in Seq(Msg)
  BY <1>1, <1>2, <1>3, ConcatProperties DEF Pipeline
<1>. QED
  BY <1>1, <1>2, <1>3, <1>4, ConcatProperties DEF Line

\* What a thread without a message in its worker has, and one with.
LEMMA WorkerHolds ==
  ASSUME TypeOK, NEW t \in Thread
  PROVE  /\ worker[t].pc \in Empty \cup {"clear"} => InWorker(t) = <<>>
         /\ worker[t].pc \in Carries \ {"clear"} =>
              worker[t].msg \in Msg /\ InWorker(t) = <<worker[t].msg>>
         /\ Clearing(t) => worker[t].msg \in Msg
BY WorkerFields, NoneAssumption DEF InWorker, Clearing, Empty, Carries

\* The event goroutine has one message, for one thread, or none.
LEMMA LoopHolds ==
  ASSUME TypeOK, NEW t \in Thread
  PROVE  /\ loop.pc = "select" => InLoop(t) = <<>>
         /\ loop.pc # "select" => loop.msg \in Msg /\ loop.msg # None
         /\ loop.pc # "select" /\ ThreadOf[loop.msg] = t => InLoop(t) = <<loop.msg>>
         /\ loop.pc # "select" /\ ThreadOf[loop.msg] # t => InLoop(t) = <<>>
BY LoopFields, NoneAssumption DEF InLoop

\* The steps that pass a message on, or do something else.
Passing ==
  \/ UNCHANGED vars
  \/ \E e \in Envelope : Drop(e)
  \/ \E m \in Msg : Forget(m)
  \/ SetStatus \/ Lookup \/ Send
  \/ \E t \in Thread :
       \/ Take(t) \/ BeginTurn(t) \/ FailSetup(t) \/ EndTurn(t) \/ Clear(t) \/ Expire(t)
       \/ Read(t)
  \/ \E m \in Msg, i \in Item : ItemStarted(m, i) \/ ItemCompleted(m, i)

LEMMA AppendBehind ==
  ASSUME NEW S, NEW w \in Seq(S), NEW q \in Seq(S), NEW m \in S
  PROVE  (w \o q) \o <<m>> = (w \o Append(q, m)) \o <<>>
<1>1. Append(q, m) = q \o <<m>> /\ <<m>> \in Seq(S)
  BY AppendIsConcat
<1>2. \A x \in Seq(S) : /\ (w \o q) \o x = w \o (q \o x)
                        /\ w \o (q \o x) \in Seq(S)
  BY ConcatAssociative, ConcatProperties
<1>3. \A x \in Seq(S) : x \o <<>> = x
  BY ConcatEmptySeq
<1>. QED
  BY <1>1, <1>2, <1>3, Zenon

LEMMA SendPassed ==
  ASSUME TypeOK, Send, NEW u \in Thread
  PROVE  Pipeline(u)' = Pipeline(u)
<1>1. PICK t \in Thread : t = ThreadOf[loop.msg]
  BY ThreadType, LoopFields DEF Send
<1>2. PICK m \in Msg : m = loop.msg
  BY LoopFields DEF Send
<1>3. InWorker(u)' = InWorker(u) /\ InLoop(u)' = <<>>
  BY DEF Send, InWorker, InLoop, Clearing, AtRest
<1>4. CASE u = t
  <2>1. queue'[u] = Append(queue[u], m) /\ InLoop(u) = <<m>>
    BY <1>1, <1>2, <1>4, LoopHolds DEF Send, TypeOK
  <2>2. PICK q \in Seq(Msg), w \in Seq(Msg) : q = queue[u] /\ w = InWorker(u)
    BY PipelineType
  <2>3. Pipeline(u) = (w \o q) \o <<m>> /\ Pipeline(u)' = (w \o Append(q, m)) \o <<>>
    BY <1>3, <2>1, <2>2 DEF Pipeline
  <2>4. (w \o q) \o <<m>> = (w \o Append(q, m)) \o <<>>
    BY <2>2, AppendBehind, ZenonT(60)
  <2>. QED
    BY <2>3, <2>4
<1>5. CASE u # t
  <2>1. queue'[u] = queue[u] /\ InLoop(u) = <<>>
    BY <1>1, <1>5, LoopHolds DEF Send, TypeOK
  <2>. QED
    BY <1>3, <2>1 DEF Pipeline
<1>. QED
  BY <1>4, <1>5

LEMMA TakePassed ==
  ASSUME TypeOK, NEW t \in Thread, Take(t), NEW u \in Thread
  PROVE  Pipeline(u)' = Pipeline(u)
<1>1. InLoop(u)' = InLoop(u)
  BY DEF Take, InLoop
<1>2. CASE u = t
  <2>1. PICK q \in Seq(Msg) : q = queue[u] /\ q # <<>>
    BY <1>2, PipelineType DEF Take
  <2>2. q = <<Head(q)>> \o Tail(q) /\ Head(q) \in Msg /\ Tail(q) \in Seq(Msg)
    <3>0. PICK h, r : h = Head(q) /\ r = Tail(q)
      OBVIOUS
    <3>1. /\ h \in Msg /\ r \in Seq(Msg)
          /\ h = Head(q) /\ r = Tail(q) /\ Len(q) = Len(r) + 1
          /\ q[1] = h /\ \A i \in 1..Len(r) : r[i] = q[i + 1]
      <4>1. Head(q) \in Msg /\ Tail(q) \in Seq(Msg)
        BY <2>1
      <4>2. Len(q) = Len(Tail(q)) + 1 /\ Head(q) = q[1]
        BY <2>1
      <4>3. \A i \in 1..Len(Tail(q)) : Tail(q)[i] = q[i + 1]
        BY <2>1
      <4>. QED
        BY <3>0, <4>1, <4>2, <4>3
    <3>2. PICK s \in Seq(Msg) : s = <<h>> \o r
      BY <3>1, ConcatProperties
    <3>3. /\ Len(s) = 1 + Len(r)
          /\ \A i \in 1..(1 + Len(r)) : s[i] = IF i = 1 THEN h ELSE r[i - 1]
      <4>1. <<h>> \in Seq(Msg) /\ Len(<<h>>) = 1 /\ <<h>>[1] = h
        BY <3>1
      <4>2. /\ Len(s) = Len(<<h>>) + Len(r)
            /\ \A i \in 1..(Len(<<h>>) + Len(r)) :
                 s[i] = IF i <= Len(<<h>>) THEN <<h>>[i] ELSE r[i - Len(<<h>>)]
        BY <3>2, <4>1, ConcatProperties
      <4>. QED
        BY <4>1, <4>2
    <3>4. \A i \in 1..Len(q) : s[i] = q[i]
      BY <3>1, <3>3
    <3>. QED
      BY <3>1, <3>2, <3>3, <3>4
  <2>3. worker'[u] = [pc |-> "setup", msg |-> Head(q)] /\ queue'[u] = Tail(q)
    BY <1>2, <2>1 DEF Take, TypeOK
  <2>4. InWorker(u)' = <<Head(q)>> /\ InWorker(u) = <<>>
    <3>1. worker[u].pc \in Empty
      BY <1>2 DEF Take, Empty
    <3>2. worker'[u].msg = Head(q) /\ worker'[u].pc = "setup" /\ Head(q) # None
      BY <2>2, <2>3, NoneAssumption
    <3>3. InWorker(u)' = <<Head(q)>>
      BY <3>2 DEF InWorker, Clearing
    <3>. QED
      BY <3>1, <3>3, WorkerHolds
  <2>. QED
    BY <1>1, <2>1, <2>2, <2>3, <2>4, ConcatEmptySeq DEF Pipeline
<1>3. CASE u # t
  BY <1>1, <1>3 DEF Take, TypeOK, Pipeline, InWorker, Clearing
<1>. QED
  BY <1>2, <1>3

LEMMA Passed ==
  ASSUME TypeOK, Passing, NEW u \in Thread
  PROVE  /\ Pipeline(u)' = Pipeline(u)
         /\ UNCHANGED <<seen, accepted, answered, fate>>
         /\ Clearing(u)' => Clearing(u) /\ worker'[u].msg = worker[u].msg
         /\ Clearing(u) => Clearing(u)' \/ Clear(u)
<1>1. ASSUME loop'.msg = loop.msg, queue' = queue, InWorker(u)' = InWorker(u)
      PROVE  Pipeline(u)' = Pipeline(u)
  BY <1>1 DEF Pipeline, InLoop
<1>2. ASSUME UNCHANGED <<seen, loop, threadVars, historyVars>>
      PROVE  /\ Pipeline(u)' = Pipeline(u)
             /\ UNCHANGED <<seen, accepted, answered, fate>>
             /\ Clearing(u)' <=> Clearing(u)
             /\ worker'[u].msg = worker[u].msg
  BY <1>1, <1>2 DEF threadVars, historyVars, InWorker, Clearing
<1>3. CASE UNCHANGED vars
  BY <1>2, <1>3 DEF vars
<1>4. ASSUME NEW e \in Envelope, Drop(e) PROVE UNCHANGED <<seen, loop, threadVars, historyVars>>
  BY <1>4 DEF Drop
<1>0. ASSUME NEW m \in Msg, Forget(m) PROVE UNCHANGED <<seen, loop, threadVars, historyVars>>
  BY <1>0 DEF Forget
<1>5. CASE SetStatus
  <2>1. loop'.msg = loop.msg
    BY <1>5, LoopFields DEF SetStatus
  <2>. QED
    BY <1>1, <1>5, <2>1 DEF SetStatus, threadVars, historyVars, InWorker, Clearing
<1>6. CASE Lookup
  <2>1. loop'.msg = loop.msg
    BY <1>6, LoopFields DEF Lookup
  <2>2. worker'[u].msg = worker[u].msg /\ (worker'[u].pc = "clear" <=> worker[u].pc = "clear")
    <3>1. PICK t \in Thread : t = ThreadOf[loop.msg]
      BY <1>6, LoopHolds, ThreadType DEF Lookup
    <3>2. CASE worker[t].pc = "none" /\ u = t
      <4>1. /\ worker'[u] = [worker[u] EXCEPT !.pc = "fresh"]
            /\ worker[u].msg = None /\ "fresh" \in Carries \cup Empty
        BY <1>6, <3>1, <3>2, WorkerFields DEF Lookup, TypeOK, Carries, Empty
      <4>. QED
        BY <3>2, <4>1, WorkerFields
    <3>3. CASE ~(worker[t].pc = "none" /\ u = t)
      BY <1>6, <3>1, <3>3 DEF Lookup, TypeOK
    <3>. QED
      BY <3>2, <3>3
  <2>3. InWorker(u)' = InWorker(u) /\ (Clearing(u)' <=> Clearing(u))
    BY <2>2 DEF InWorker, Clearing
  <2>. QED
    BY <1>1, <1>6, <2>1, <2>2, <2>3 DEF Lookup, historyVars
<1>7. CASE Send
  BY <1>7, SendPassed DEF Send, historyVars, Clearing
<1>8. ASSUME NEW t \in Thread, Take(t)
      PROVE  /\ UNCHANGED <<seen, accepted, answered, fate>>
             /\ Clearing(u)' => Clearing(u) /\ worker'[u].msg = worker[u].msg
             /\ Clearing(u) => Clearing(u)'
  <2>1. worker'[u] = worker[u] \/ (worker'[u].pc = "setup" /\ worker[u].pc # "clear")
    BY <1>8 DEF Take, TypeOK
  <2>. QED
    BY <1>8, <2>1 DEF Take, historyVars, Clearing
<1>9. ASSUME NEW t \in Thread, NEW p, Moves(t, p),
             (p \in Carries \ {"clear"} /\ worker[t].pc \in Carries \ {"clear"}) \/
             (p \in Empty /\ worker[t].pc \in Empty)
      PROVE  InWorker(u)' = InWorker(u) /\ (Clearing(u)' <=> Clearing(u))
             /\ worker'[u].msg = worker[u].msg
  <2>1. /\ worker'[t] = [pc |-> p, msg |-> worker[t].msg]
        /\ \A v \in Thread \ {t} : worker'[v] = worker[v]
    BY <1>9, MovesType
  <2>2. CASE u = t
    <3>1. worker'[u].pc = p /\ worker'[u].msg = worker[u].msg
      BY <2>1, <2>2
    <3>2. worker[u].pc = "clear" <=> p = "clear"
      BY <1>9, <2>2 DEF Carries, Empty
    <3>. QED
      BY <3>1, <3>2 DEF InWorker, Clearing
  <2>3. CASE u # t
    BY <2>1, <2>3 DEF InWorker, Clearing
  <2>. QED
    BY <2>2, <2>3
<1>10. ASSUME NEW t \in Thread, BeginTurn(t) \/ FailSetup(t) \/ EndTurn(t) \/ Expire(t)
       PROVE  /\ InWorker(u)' = InWorker(u) /\ (Clearing(u)' <=> Clearing(u))
              /\ worker'[u].msg = worker[u].msg
              /\ UNCHANGED <<seen, loop, queue, historyVars>>
  <2>1. PICK p : /\ Moves(t, p)
                 /\ \/ p \in Carries \ {"clear"} /\ worker[t].pc \in Carries \ {"clear"}
                    \/ p \in Empty /\ worker[t].pc \in Empty
    BY <1>10 DEF BeginTurn, FailSetup, EndTurn, Expire, Carries, Empty
  <2>. QED
    BY <1>9, <1>10, <2>1 DEF BeginTurn, FailSetup, EndTurn, Expire
<1>11. ASSUME NEW t \in Thread, Clear(t)
       PROVE  /\ InWorker(u)' = InWorker(u)
              /\ Clearing(u)' => Clearing(u) /\ worker'[u].msg = worker[u].msg
              /\ Clearing(u) => Clearing(u)' \/ Clear(u)
              /\ UNCHANGED <<seen, loop, queue, historyVars>>
  <2>1. worker'[u] = (IF u = t THEN AtRest ELSE worker[u]) /\ (u = t => worker[u].pc = "clear")
    BY <1>11 DEF Clear, TypeOK
  <2>2. UNCHANGED <<seen, loop, queue, historyVars>>
    BY <1>11 DEF Clear
  <2>3. /\ InWorker(u)' = InWorker(u) /\ (Clearing(u)' => u # t)
        /\ Clearing(u)' => Clearing(u) /\ worker'[u].msg = worker[u].msg
    BY <2>1 DEF InWorker, Clearing, AtRest
  <2>4. Clearing(u) => Clearing(u)' \/ u = t
    BY <2>1 DEF Clearing
  <2>. QED
    BY <1>11, <2>2, <2>3, <2>4
<1>12. ASSUME NEW t \in Thread, Read(t) PROVE UNCHANGED <<seen, loop, threadVars, historyVars>>
  BY <1>12 DEF Read, Push, Emit
<1>13. ASSUME NEW m \in Msg, NEW i \in Item, ItemStarted(m, i) \/ ItemCompleted(m, i)
       PROVE  UNCHANGED <<seen, loop, threadVars, historyVars>>
  BY <1>13 DEF ItemStarted, ItemCompleted
<1>. QED
  BY <1>0, <1>1, <1>2, <1>3, <1>4, <1>5, <1>6, <1>7, <1>8, <1>10, <1>11, <1>12, <1>13, TakePassed
  DEF Passing, historyVars

-----------------------------------------------------------------------------
(* Sequences, put together.                                                  *)

LEMMA ElementsOne ==
  ASSUME NEW m
  PROVE  Elements(<<>>) = {} /\ Elements(<<m>>) = {m}
BY DEF Elements

LEMMA ElementsIn ==
  ASSUME NEW S, NEW s \in Seq(S)
  PROVE  Elements(s) \subseteq S
BY DEF Elements

LEMMA ElementsAppend ==
  ASSUME NEW S, NEW s \in Seq(S), NEW m \in S
  PROVE  Elements(Append(s, m)) = Elements(s) \cup {m}
<1>1. PICK r : r = Append(s, m)
  OBVIOUS
<1>2. /\ Len(r) = Len(s) + 1 /\ Len(s) \in Nat /\ r[Len(s) + 1] = m
      /\ \A i \in 1..Len(s) : r[i] = s[i]
  BY <1>1, StackAppended
<1>3. \A i \in 1..Len(r) : i \in 1..Len(s) \/ i = Len(s) + 1
  BY <1>2
<1>4. \A i \in 1..Len(s) : i \in 1..Len(r)
  BY <1>2
<1>5. Len(s) + 1 \in 1..Len(r)
  BY <1>2
<1>. QED
  BY <1>1, <1>2, <1>3, <1>4, <1>5 DEF Elements

LEMMA ElementsConcat ==
  ASSUME NEW S, NEW s \in Seq(S), NEW x \in Seq(S)
  PROVE  Elements(s \o x) = Elements(s) \cup Elements(x)
<1>1. PICK r : r = s \o x
  OBVIOUS
<1>2. /\ Len(r) = Len(s) + Len(x) /\ Len(s) \in Nat /\ Len(x) \in Nat
      /\ \A i \in 1..Len(r) : r[i] = IF i <= Len(s) THEN s[i] ELSE x[i - Len(s)]
  BY <1>1, ConcatProperties
<1>3. \A i \in 1..Len(s) : i \in 1..Len(r) /\ r[i] = s[i]
  BY <1>2
<1>4. \A i \in 1..Len(x) : i + Len(s) \in 1..Len(r) /\ r[i + Len(s)] = x[i]
  BY <1>2
<1>5. ASSUME NEW i \in 1..Len(r)
      PROVE  \/ i \in 1..Len(s) /\ r[i] = s[i]
             \/ i - Len(s) \in 1..Len(x) /\ r[i] = x[i - Len(s)]
  BY <1>2
<1>6. Elements(r) \subseteq Elements(s) \cup Elements(x)
  BY <1>5 DEF Elements
<1>7. Elements(s) \subseteq Elements(r) /\ Elements(x) \subseteq Elements(r)
  BY <1>3, <1>4 DEF Elements
<1>. QED
  BY <1>1, <1>6, <1>7

LEMMA OneAppended ==
  ASSUME NEW S, NEW s \in Seq(S), NEW m \in S
  PROVE  <<m>> \in Seq(S) /\ s \o <<m>> = Append(s, m)
BY AppendIsConcat

\* One element, moved over the seam of two sequences.
LEMMA AppendedLast ==
  ASSUME NEW S, NEW s \in Seq(S), NEW x \in Seq(S), NEW m \in S
  PROVE  s \o Append(x, m) = Append(s \o x, m)
<1>1. <<m>> \in Seq(S) /\ x \o <<m>> = Append(x, m)
  BY OneAppended
<1>2. (s \o x) \o <<m>> = Append(s \o x, m)
  <2>1. s \o x \in Seq(S)
    BY ConcatProperties
  <2>. QED
    BY <2>1, OneAppended
<1>3. \A a \in Seq(S) : (s \o x) \o a = s \o (x \o a)
  BY ConcatAssociative
<1>. QED
  BY <1>1, <1>2, <1>3, Zenon

LEMMA MovedOver ==
  ASSUME NEW S, NEW s \in Seq(S), NEW x \in Seq(S), NEW m \in S
  PROVE  Append(s, m) \o x = s \o (<<m>> \o x)
<1>1. <<m>> \in Seq(S) /\ s \o <<m>> = Append(s, m)
  BY OneAppended
<1>2. \A a \in Seq(S) : (s \o a) \o x = s \o (a \o x)
  BY ConcatAssociative, SMTT(60)
<1>. QED
  BY <1>1, <1>2, Zenon

LEMMA OneFirst ==
  ASSUME NEW S, NEW x \in Seq(S), NEW m \in S
  PROVE  (<<m>> \o x)[1] = m
<1>1. ASSUME NEW a \in Seq(S), Len(a) = 1 PROVE (a \o x)[1] = a[1]
  <2>1. /\ Len(x) \in Nat
        /\ \A i \in 1..Len(a) + Len(x) : (a \o x)[i] = IF i <= Len(a) THEN a[i] ELSE x[i - Len(a)]
    BY ConcatProperties
  <2>. QED
    BY <1>1, <2>1
<1>2. <<m>> \in Seq(S) /\ Len(<<m>>) = 1 /\ <<m>>[1] = m
  OBVIOUS
<1>. QED
  BY <1>1, <1>2

-----------------------------------------------------------------------------
(* Answers, once and in order.                                               *)

\* A line that lost some of its messages is in order still.
LEMMA Thinned ==
  ASSUME NEW t \in Thread, Ordered(t),
         accepted'[t] = accepted[t], seen \subseteq seen',
         \A m : m \in Elements(accepted[t]) =>
           /\ fate[m] # "open" => fate'[m] # "open"
           /\ m \in Elements(Pipeline(t)) => m \in Elements(Pipeline(t))' \/ fate'[m] # "open",
         NEW line, line = Line(t)', Elements(line) \subseteq Elements(Line(t)),
         \A i, j \in 1..Len(line) : i < j => Before(accepted[t], line[i], line[j]),
         Clearing(t)' => worker'[t].msg \in Elements(answered[t])'
  PROVE  Ordered(t)'
BY DEF Ordered, Holds

LEMMA SameLine ==
  ASSUME NEW t \in Thread, Ordered(t),
         accepted'[t] = accepted[t], seen \subseteq seen',
         \A m : m \in Elements(accepted[t]) =>
           /\ fate[m] # "open" => fate'[m] # "open"
           /\ m \in Elements(Pipeline(t)) => m \in Elements(Pipeline(t))' \/ fate'[m] # "open",
         Line(t)' = Line(t),
         Clearing(t)' => worker'[t].msg \in Elements(answered[t])'
  PROVE  Ordered(t)'
BY DEF Ordered, Holds

LEMMA PassingOrdered ==
  ASSUME TypeOK, Passing, NEW t \in Thread, Ordered(t)
  PROVE  Ordered(t)'
<1>1. Line(t)' = Line(t) /\ Elements(Pipeline(t))' = Elements(Pipeline(t))
  BY Passed DEF Line
<1>2. Clearing(t)' => worker'[t].msg \in Elements(answered[t])'
  BY Passed DEF Ordered
<1>. QED
  BY <1>1, <1>2, Passed, SameLine

LEMMA DispatchLine ==
  ASSUME TypeOK, NEW e \in Envelope, Dispatch(e), NEW d, TakenFor(e, d), NEW u \in Thread
  PROVE  /\ d \in Msg /\ ThreadOf[d] \in Thread /\ d \notin seen
         /\ seen' = seen \cup {d}
         /\ u = ThreadOf[d] => /\ Pipeline(u)' = Append(Pipeline(u), d)
                                  /\ accepted'[u] = Append(accepted[u], d)
         /\ u # ThreadOf[d] => Pipeline(u)' = Pipeline(u) /\ accepted'[u] = accepted[u]
         /\ Clearing(u)' = Clearing(u)
         /\ UNCHANGED <<worker, answered, fate, status, alone>>
<1>1. d \in Msg /\ ThreadOf[d] \in Thread
  BY ThreadType DEF TakenFor, New
<1>2. UNCHANGED <<worker, queue, answered, fate, status, alone>>
  BY DEF Dispatch, threadVars, statusVars
<1>3. loop' = [pc |-> "status", msg |-> d] /\ d # None
  BY <1>1, NoneAssumption DEF TakenFor
<1>4. InLoop(u) = <<>> /\ InLoop(u)' = IF ThreadOf[d] = u THEN <<d>> ELSE <<>>
  BY <1>3, LoopHolds DEF Dispatch, InLoop
<1>5. PICK wq : wq = InWorker(u) \o queue[u]
  OBVIOUS
<1>6. wq \in Seq(Msg)
  BY <1>5, PipelineType, ConcatProperties
<1>7. (InWorker(u) \o queue[u])' = wq
  BY <1>2, <1>5 DEF InWorker, Clearing
<1>8. Pipeline(u) = wq /\ wq \o <<>> = wq
  BY <1>4, <1>5, <1>6, ConcatEmptySeq DEF Pipeline
<1>9. u = ThreadOf[d] => Pipeline(u)' = Append(Pipeline(u), d)
  <2>1. u = ThreadOf[d] => Pipeline(u)' = wq \o <<d>>
    BY <1>4, <1>7 DEF Pipeline
  <2>2. wq \o <<d>> = Append(wq, d)
    BY <1>1, <1>6, OneAppended
  <2>. QED
    BY <1>8, <2>1, <2>2
<1>10. u # ThreadOf[d] => Pipeline(u)' = Pipeline(u)
  BY <1>4, <1>7, <1>8 DEF Pipeline
<1>11. /\ u = ThreadOf[d] => accepted'[u] = Append(accepted[u], d)
       /\ u # ThreadOf[d] => accepted'[u] = accepted[u]
  BY <1>1 DEF TakenFor, TypeOK
<1>12. d \notin seen /\ seen' = seen \cup {d}
  BY DEF TakenFor, New
<1>. QED
  BY <1>1, <1>2, <1>9, <1>10, <1>11, <1>12 DEF Clearing

LEMMA PostLine ==
  ASSUME TypeOK, NEW t \in Thread, Post(t), NEW u \in Thread
  PROVE  /\ worker[t].msg \in Msg /\ ~Clearing(t)
         /\ worker'[t] = [pc |-> "clear", msg |-> worker[t].msg]
         /\ answered'[t] = Append(answered[t], worker[t].msg)
         /\ Pipeline(t)' \in Seq(Msg) /\ Pipeline(t) = <<worker[t].msg>> \o Pipeline(t)'
         /\ u # t => /\ Pipeline(u)' = Pipeline(u) /\ answered'[u] = answered[u]
                     /\ worker'[u] = worker[u]
         /\ UNCHANGED <<seen, accepted, alone>>
<1>1. worker[t].pc = "post" /\ "clear" \in Carries /\ "post" \in Carries \ {"clear"}
  BY DEF Post, Carries
<1>2. worker[t].msg \in Msg /\ InWorker(t) = <<worker[t].msg>> /\ ~Clearing(t)
  BY <1>1, WorkerHolds DEF Clearing
<1>3. /\ worker'[t] = [pc |-> "clear", msg |-> worker[t].msg]
      /\ \A v \in Thread \ {t} : worker'[v] = worker[v]
  BY <1>1, MovesType DEF Post
<1>4. answered'[t] = Append(answered[t], worker[t].msg)
  BY DEF Post, TypeOK
<1>5. InWorker(t)' = <<>>
  BY <1>3 DEF InWorker, Clearing
<1>6. queue' = queue /\ \A v \in Thread : InLoop(v)' = InLoop(v)
  BY DEF Post, InLoop
<1>7. PICK m, q, l : m = worker[t].msg /\ q = queue[t] /\ l = InLoop(t)
  OBVIOUS
<1>8. m \in Msg /\ q \in Seq(Msg) /\ l \in Seq(Msg)
  BY <1>2, <1>7, PipelineType
<1>9. Pipeline(t) = (<<m>> \o q) \o l /\ Pipeline(t)' = (<<>> \o q) \o l
  BY <1>2, <1>5, <1>6, <1>7 DEF Pipeline
<1>10. <<>> \o q = q /\ q \o l \in Seq(Msg)
  BY <1>8, ConcatEmptySeq, ConcatProperties
<1>11. (<<m>> \o q) \o l = <<m>> \o (q \o l)
  <2>1. <<m>> \in Seq(Msg)
    BY <1>8
  <2>2. \A x \in Seq(Msg) : (x \o q) \o l = x \o (q \o l)
    BY <1>8, ConcatAssociative
  <2>. QED
    BY <2>1, <2>2
<1>12. u # t => /\ Pipeline(u)' = Pipeline(u) /\ answered'[u] = answered[u]
                /\ worker'[u] = worker[u]
  BY <1>3, <1>6 DEF Post, TypeOK, Pipeline, InWorker, Clearing
<1>. QED
  BY <1>2, <1>3, <1>4, <1>7, <1>9, <1>10, <1>11, <1>12 DEF Post

LEMMA GoneLine ==
  ASSUME TypeOK, SendToGone, NEW u \in Thread
  PROVE  /\ loop.msg \in Msg /\ ThreadOf[loop.msg] \in Thread
         /\ u = ThreadOf[loop.msg] =>
              Pipeline(u)' \in Seq(Msg) /\ Pipeline(u) = Append(Pipeline(u)', loop.msg)
         /\ u # ThreadOf[loop.msg] => Pipeline(u)' = Pipeline(u)
         /\ UNCHANGED <<seen, worker, answered, accepted, alone>>
<1>1. loop.pc = "gone" /\ loop.msg \in Msg /\ ThreadOf[loop.msg] \in Thread
  BY ThreadType, LoopHolds DEF SendToGone
<1>2. UNCHANGED <<seen, worker, queue, answered, accepted, alone>> /\ loop' = AtRest
  BY DEF SendToGone, threadVars
<1>3. InLoop(u)' = <<>>
  BY <1>2 DEF InLoop, AtRest
<1>4. PICK m, wq : m = loop.msg /\ wq = InWorker(u) \o queue[u]
  OBVIOUS
<1>5. wq \in Seq(Msg) /\ m \in Msg
  BY <1>1, <1>4, PipelineType, ConcatProperties
<1>6. (InWorker(u) \o queue[u])' = wq
  BY <1>2, <1>4 DEF InWorker, Clearing
<1>7. Pipeline(u)' = wq
  BY <1>3, <1>5, <1>6, ConcatEmptySeq DEF Pipeline
<1>8. InLoop(u) = IF u = ThreadOf[m] THEN <<m>> ELSE <<>>
  BY <1>1, <1>4, LoopHolds
<1>9. wq \o <<m>> = Append(wq, m) /\ wq \o <<>> = wq
  BY <1>5, OneAppended, ConcatEmptySeq
<1>10. Pipeline(u) = IF u = ThreadOf[m] THEN Append(wq, m) ELSE wq
  BY <1>4, <1>8, <1>9 DEF Pipeline
<1>. QED
  BY <1>1, <1>2, <1>4, <1>5, <1>7, <1>10

LEMMA ReturnLine ==
  ASSUME TypeOK, NEW t \in Thread, Return(t), NEW u \in Thread
  PROVE  /\ Pipeline(t) = queue[t] \o InLoop(t) /\ Pipeline(t)' = InLoop(t)
         /\ ~Clearing(t) /\ ~Clearing(t)'
         /\ worker'[t].pc = "none"
         /\ u # t => /\ Pipeline(u)' = Pipeline(u) /\ worker'[u] = worker[u]
                     /\ queue'[u] = queue[u]
         /\ UNCHANGED <<seen, answered, accepted, alone>>
<1>1. worker[t].pc = "leaving" /\ {"none", "leaving"} \subseteq Empty
  BY DEF Return, Empty
<1>2. InWorker(t) = <<>> /\ ~Clearing(t) /\ worker[t].msg = None
  BY <1>1, WorkerHolds, WorkerFields DEF Clearing, Carries, Empty
<1>3. /\ worker'[t] = [pc |-> "none", msg |-> worker[t].msg]
      /\ \A v \in Thread \ {t} : worker'[v] = worker[v]
  BY <1>1, MovesType DEF Return
<1>4. InWorker(t)' = <<>> /\ ~Clearing(t)' /\ worker'[t].pc = "none"
  BY <1>2, <1>3 DEF InWorker, Clearing
<1>5. queue'[t] = <<>> /\ \A v \in Thread \ {t} : queue'[v] = queue[v]
  BY DEF Return, TypeOK
<1>6. loop'.msg = loop.msg
  <2>1. loop' = loop \/ \E p \in {"gone", "stranded"} : loop.pc = "send" /\ loop' = [loop EXCEPT !.pc = p]
    BY DEF Return
  <2>. QED
    BY <2>1, LoopFields
<1>7. \A v \in Thread : InLoop(v)' = InLoop(v)
  BY <1>6 DEF InLoop
<1>8. PICK q, l : q = queue[t] /\ l = InLoop(t)
  OBVIOUS
<1>9. q \in Seq(Msg) /\ l \in Seq(Msg)
  BY <1>8, PipelineType
<1>10. <<>> \o q = q /\ <<>> \o l = l /\ <<>> \o <<>> = <<>>
  <2>1. <<>> \in Seq(Msg)
    OBVIOUS
  <2>. QED
    BY <1>9, <2>1, ConcatEmptySeq
<1>11. Pipeline(t) = (<<>> \o q) \o l /\ Pipeline(t)' = (<<>> \o <<>>) \o l
  BY <1>2, <1>4, <1>5, <1>7, <1>8 DEF Pipeline
<1>12. u # t => /\ Pipeline(u)' = Pipeline(u) /\ worker'[u] = worker[u]
                /\ queue'[u] = queue[u]
  BY <1>3, <1>5, <1>7 DEF Pipeline, InWorker, Clearing
<1>. QED
  BY <1>2, <1>4, <1>8, <1>10, <1>11, <1>12 DEF Return

LEMMA RestartLine ==
  ASSUME TypeOK, Restart, NEW t \in Thread
  PROVE  /\ Pipeline(t)' = <<>> /\ accepted'[t] = <<>> /\ answered'[t] = <<>>
         /\ ~Clearing(t)'
<1>1. InWorker(t)' = <<>> /\ InLoop(t)' = <<>> /\ queue'[t] = <<>>
  BY DEF Restart, InWorker, InLoop, NoWorker, AtRest
<1>2. Pipeline(t)' = (<<>> \o <<>>) \o <<>>
  BY <1>1 DEF Pipeline
<1>3. <<>> \o <<>> = <<>>
  BY <<>> \in Seq(Msg), ConcatEmptySeq
<1>. QED
  BY <1>2, <1>3 DEF Restart, Clearing, NoWorker

LEMMA DispatchOrdered ==
  ASSUME TypeOK, NEW e \in Envelope, Dispatch(e), NEW d, TakenFor(e, d), NEW t \in Thread, Ordered(t)
  PROVE  Ordered(t)'
<1>0. /\ d \in Msg /\ ThreadOf[d] \in Thread /\ d \notin seen
      /\ seen' = seen \cup {d}
      /\ t = ThreadOf[d] => /\ Pipeline(t)' = Append(Pipeline(t), d)
                               /\ accepted'[t] = Append(accepted[t], d)
      /\ t # ThreadOf[d] => Pipeline(t)' = Pipeline(t) /\ accepted'[t] = accepted[t]
      /\ Clearing(t)' = Clearing(t)
      /\ UNCHANGED <<worker, answered, fate, status, alone>>
  BY DispatchLine
<1>1. CASE t # ThreadOf[d]
  <2>1. Line(t)' = Line(t) /\ Elements(Pipeline(t))' = Elements(Pipeline(t))
    BY <1>0, <1>1 DEF Line
  <2>2. Clearing(t)' => worker'[t].msg \in Elements(answered[t])'
    BY <1>0, <1>1 DEF Ordered
  <2>. QED
    BY <1>0, <1>1, <2>1, <2>2, SameLine
<1>2. CASE t = ThreadOf[d]
  <2>1. PICK m, acc, line, pipe : m = d /\ acc = accepted[t] /\ line = Line(t) /\ pipe = Pipeline(t)
    OBVIOUS
  <2>2. m \in Msg /\ acc \in Seq(Msg) /\ line \in Seq(Msg) /\ pipe \in Seq(Msg) /\ answered[t] \in Seq(Msg)
    BY <1>0, <2>1, PipelineType
  <2>3. accepted'[t] = Append(acc, m) /\ Pipeline(t)' = Append(pipe, m)
    BY <1>0, <1>2, <2>1
  <2>4. Line(t)' = Append(line, m)
    <3>1. answered[t] \o Append(pipe, m) = Append(answered[t] \o pipe, m)
      <4>1. \A s \in Seq(Msg) : s \o Append(pipe, m) = Append(s \o pipe, m)
        <5>1. m \in Msg /\ pipe \in Seq(Msg)
          BY <2>2
        <5>. QED
          BY <5>1, AppendedLast
      <4>. QED
        BY <2>2, <4>1
    <3>2. Line(t)' = answered[t] \o Append(pipe, m)
      BY <1>0, <2>3 DEF Line
    <3>. QED
      BY <2>1, <3>1, <3>2 DEF Line
  <2>5. /\ Elements(Append(acc, m)) = Elements(acc) \cup {m}
        /\ Elements(Append(line, m)) = Elements(line) \cup {m}
        /\ Elements(Append(pipe, m)) = Elements(pipe) \cup {m}
    BY <2>2, ElementsAppend
  <2>6. m \notin Elements(acc)
    BY <1>0, <2>1 DEF Ordered
  <2>7. /\ Elements(line) \subseteq Elements(acc)
        /\ \A i, j \in 1..Len(acc) : acc[i] = acc[j] => i = j
        /\ \A i, j \in 1..Len(line) : i < j => Before(acc, line[i], line[j])
    BY <2>1 DEF Ordered
  <2>8. PICK acc2, line2 : acc2 = Append(acc, m) /\ line2 = Append(line, m)
    OBVIOUS
  <2>9. /\ Len(acc2) = Len(acc) + 1 /\ Len(acc) \in Nat /\ acc2[Len(acc) + 1] = m
        /\ \A i \in 1..Len(acc) : acc2[i] = acc[i]
        /\ Len(line2) = Len(line) + 1 /\ Len(line) \in Nat /\ line2[Len(line) + 1] = m
        /\ \A i \in 1..Len(line) : line2[i] = line[i]
    BY <2>2, <2>8, StackAppended
  <2>10. /\ \A i \in 1..Len(acc2) : i \in 1..Len(acc) \/ i = Len(acc2)
         /\ \A i \in 1..Len(line2) : i \in 1..Len(line) \/ i = Len(line2)
         /\ Len(acc2) = Len(acc) + 1 /\ Len(line2) = Len(line) + 1
    BY <2>9
  <2>11. \A i \in 1..Len(acc) : acc[i] # m
    BY <2>6 DEF Elements
  <2>12. \A i, j \in 1..Len(acc2) : acc2[i] = acc2[j] => i = j
    BY <2>7, <2>9, <2>10, <2>11
  <2>13. ASSUME NEW i \in 1..Len(line2), NEW j \in 1..Len(line2), i < j
         PROVE  Before(acc2, line2[i], line2[j])
    <3>1. i \in 1..Len(line)
      BY <2>9, <2>13
    <3>2. CASE j \in 1..Len(line)
      <4>1. PICK a, b \in 1..Len(acc) : a < b /\ acc[a] = line[i] /\ acc[b] = line[j]
        BY <2>7, <2>13, <3>1, <3>2 DEF Before
      <4>2. a \in 1..Len(acc2) /\ b \in 1..Len(acc2)
        BY <2>9
      <4>. QED
        BY <2>9, <3>1, <3>2, <4>1, <4>2 DEF Before
    <3>3. CASE j = Len(line2)
      <4>1. PICK a \in 1..Len(acc) : acc[a] = line[i]
        <5>1. line[i] \in Elements(line)
          BY <3>1 DEF Elements
        <5>2. line[i] \in Elements(acc)
          BY <2>7, <5>1
        <5>. QED
          BY <5>2 DEF Elements
      <4>2. a \in 1..Len(acc2) /\ Len(acc2) \in 1..Len(acc2) /\ a < Len(acc2)
        BY <2>9
      <4>3. acc2[a] = line2[i] /\ acc2[Len(acc2)] = line2[j]
        BY <2>9, <3>1, <3>3, <4>1
      <4>. QED
        BY <4>2, <4>3 DEF Before
    <3>. QED
      BY <2>10, <3>2, <3>3
  <2>14. ASSUME NEW n \in Elements(acc) \cup {m}
         PROVE  /\ n \in seen' /\ ThreadOf[n] = t
                /\ n \in Elements(Pipeline(t))' \/ fate'[n] # "open"
    <3>1. Elements(Pipeline(t))' = Elements(pipe) \cup {m}
      BY <2>3, <2>5
    <3>2. ASSUME n \in Elements(acc)
          PROVE  n \in seen /\ ThreadOf[n] = t /\ (n \in Elements(pipe) \/ fate[n] # "open")
      BY <2>1, <3>2 DEF Ordered, Holds
    <3>. QED
      BY <1>0, <1>2, <2>1, <2>14, <3>1, <3>2
  <2>15. Clearing(t)' => worker'[t].msg \in Elements(answered[t])'
    BY <1>0 DEF Ordered
  <2>16. accepted'[t] = acc2 /\ Line(t)' = line2
    BY <2>3, <2>4, <2>8
  <2>17. Elements(acc2) = Elements(acc) \cup {m} /\ Elements(line2) = Elements(line) \cup {m}
    BY <2>5, <2>8
  <2>. QED
    BY <2>7, <2>12, <2>13, <2>14, <2>15, <2>16, <2>17 DEF Ordered, Holds
<1>. QED
  BY <1>1, <1>2

LEMMA PostOrdered ==
  ASSUME TypeOK, NEW t \in Thread, Post(t), NEW u \in Thread, Ordered(u)
  PROVE  Ordered(u)'
<1>0. /\ worker[t].msg \in Msg /\ ~Clearing(t)
      /\ worker'[t] = [pc |-> "clear", msg |-> worker[t].msg]
      /\ answered'[t] = Append(answered[t], worker[t].msg)
      /\ Pipeline(t)' \in Seq(Msg) /\ Pipeline(t) = <<worker[t].msg>> \o Pipeline(t)'
      /\ u # t => /\ Pipeline(u)' = Pipeline(u) /\ answered'[u] = answered[u]
                  /\ worker'[u] = worker[u]
      /\ UNCHANGED <<seen, accepted, alone>>
  BY PostLine
<1>1. \A m \in Msg : m = worker[t].msg \/ fate[m] # "open" => fate'[m] # "open"
  BY SettleType DEF Post
<1>2. Elements(accepted[u]) \subseteq Msg
  BY PipelineType, ElementsIn
<1>3. CASE u # t
  <2>1. Line(u)' = Line(u) /\ Elements(Pipeline(u))' = Elements(Pipeline(u))
    BY <1>0, <1>3 DEF Line
  <2>2. Clearing(u)' => worker'[u].msg \in Elements(answered[u])'
    BY <1>0, <1>3 DEF Ordered, Clearing
  <2>. QED
    BY <1>0, <1>1, <1>2, <1>3, <2>1, <2>2, SameLine
<1>4. CASE u = t
  <2>1. PICK m, ans, rest : m = worker[t].msg /\ ans = answered[t] /\ rest = Pipeline(t)'
    OBVIOUS
  <2>2. m \in Msg /\ ans \in Seq(Msg) /\ rest \in Seq(Msg)
    BY <1>0, <2>1, PipelineType
  <2>3. Pipeline(t) = <<m>> \o rest /\ answered'[t] = Append(ans, m)
    BY <1>0, <2>1
  <2>4. Line(t)' = Line(t)
    <3>1. Append(ans, m) \o rest = ans \o (<<m>> \o rest)
      BY <2>2, MovedOver
    <3>2. Line(t)' = Append(ans, m) \o rest
      BY <2>1, <2>3 DEF Line
    <3>. QED
      BY <2>1, <2>3, <3>1, <3>2 DEF Line
  <2>5. Elements(<<m>> \o rest) = {m} \cup Elements(rest) /\ Elements(Append(ans, m)) = Elements(ans) \cup {m}
    <3>1. <<m>> \in Seq(Msg)
      BY <2>2
    <3>2. Elements(<<m>> \o rest) = Elements(<<m>>) \cup Elements(rest)
      BY <2>2, <3>1, ElementsConcat, ZenonT(60)
    <3>3. Elements(Append(ans, m)) = Elements(ans) \cup {m}
      BY <2>2, ElementsAppend
    <3>. QED
      BY <3>2, <3>3, ElementsOne
  <2>6. Elements(Pipeline(t))' = Elements(rest) /\ Elements(answered[t])' = Elements(ans) \cup {m}
    BY <2>1, <2>3, <2>5
  <2>7. worker'[t].msg \in Elements(answered[t])'
    BY <1>0, <2>1, <2>6
  <2>. QED
    BY <1>0, <1>1, <1>2, <1>4, <2>1, <2>3, <2>4, <2>5, <2>6, <2>7, SameLine
<1>. QED
  BY <1>3, <1>4

LEMMA GoneOrdered ==
  ASSUME TypeOK, SendToGone, NEW t \in Thread, Ordered(t)
  PROVE  Ordered(t)'
<1>0. /\ loop.msg \in Msg /\ ThreadOf[loop.msg] \in Thread
      /\ t = ThreadOf[loop.msg] =>
           Pipeline(t)' \in Seq(Msg) /\ Pipeline(t) = Append(Pipeline(t)', loop.msg)
      /\ t # ThreadOf[loop.msg] => Pipeline(t)' = Pipeline(t)
      /\ UNCHANGED <<seen, worker, answered, accepted, alone>>
  BY GoneLine
<1>1. \A m \in Msg : m = loop.msg \/ fate[m] # "open" => fate'[m] # "open"
  BY SettleType DEF SendToGone
<1>2. Elements(accepted[t]) \subseteq Msg
  BY PipelineType, ElementsIn
<1>3. Clearing(t)' => worker'[t].msg \in Elements(answered[t])'
  BY <1>0 DEF Ordered, Clearing
<1>4. CASE t # ThreadOf[loop.msg]
  <2>1. Line(t)' = Line(t) /\ Elements(Pipeline(t))' = Elements(Pipeline(t))
    BY <1>0, <1>4 DEF Line
  <2>. QED
    BY <1>0, <1>1, <1>2, <1>3, <1>4, <2>1, SameLine
<1>5. CASE t = ThreadOf[loop.msg]
  <2>1. PICK m, rest, line, line2 : m = loop.msg /\ rest = Pipeline(t)' /\ line = Line(t) /\ line2 = Line(t)'
    OBVIOUS
  <2>2. m \in Msg /\ rest \in Seq(Msg) /\ Pipeline(t) = Append(rest, m) /\ answered[t] \in Seq(Msg)
    BY <1>0, <1>5, <2>1, PipelineType
  <2>3. line2 = answered[t] \o rest
    BY <1>0, <2>1 DEF Line
  <2>4. line2 \in Seq(Msg) /\ line = Append(line2, m)
    <3>1. answered[t] \o Append(rest, m) = Append(answered[t] \o rest, m)
      <4>1. \A s \in Seq(Msg) : s \o Append(rest, m) = Append(s \o rest, m)
        <5>1. m \in Msg /\ rest \in Seq(Msg)
          BY <2>2
        <5>. QED
          BY <5>1, AppendedLast
      <4>. QED
        BY <2>2, <4>1
    <3>2. answered[t] \o rest \in Seq(Msg)
      BY <2>2, ConcatProperties
    <3>. QED
      BY <2>1, <2>2, <2>3, <3>1, <3>2 DEF Line
  <2>5. Elements(Append(rest, m)) = Elements(rest) \cup {m} /\ Elements(line2) \subseteq Elements(line)
    BY <2>2, <2>4, ElementsAppend
  <2>6. /\ Len(line) = Len(line2) + 1 /\ Len(line2) \in Nat
        /\ \A i \in 1..Len(line2) : line[i] = line2[i]
    BY <2>4, StackAppended, <2>2
  <2>7. \A i, j \in 1..Len(line2) : i < j => Before(accepted[t], line2[i], line2[j])
    <3>1. \A i, j \in 1..Len(line) : i < j => Before(accepted[t], line[i], line[j])
      BY <2>1 DEF Ordered
    <3>2. \A i \in 1..Len(line2) : i \in 1..Len(line)
      BY <2>6
    <3>. QED
      BY <2>6, <3>1, <3>2
  <2>8. Elements(line2) \subseteq Elements(Line(t)) /\ line2 = Line(t)'
    BY <2>1, <2>5
  <2>9. Elements(Pipeline(t)) = Elements(Pipeline(t))' \cup {m}
    BY <2>1, <2>2, <2>5
  <2>. QED
    BY <1>0, <1>1, <1>2, <1>3, <2>1, <2>7, <2>8, <2>9, Thinned
<1>. QED
  BY <1>4, <1>5

LEMMA ReturnOrdered ==
  ASSUME TypeOK, NEW t \in Thread, Return(t), NEW u \in Thread, Ordered(u)
  PROVE  Ordered(u)'
<1>0. /\ Pipeline(t) = queue[t] \o InLoop(t) /\ Pipeline(t)' = InLoop(t)
      /\ ~Clearing(t)'
      /\ u # t => /\ Pipeline(u)' = Pipeline(u) /\ worker'[u] = worker[u]
                  /\ queue'[u] = queue[u]
      /\ UNCHANGED <<seen, answered, accepted, alone>>
  BY ReturnLine
<1>1. \A m \in Msg : m \in Elements(queue[t]) \/ fate[m] # "open" => fate'[m] # "open"
  BY SettleType DEF Return
<1>2. Elements(accepted[u]) \subseteq Msg
  BY PipelineType, ElementsIn
<1>3. CASE u # t
  <2>1. Line(u)' = Line(u) /\ Elements(Pipeline(u))' = Elements(Pipeline(u))
    BY <1>0, <1>3 DEF Line
  <2>2. Clearing(u)' => worker'[u].msg \in Elements(answered[u])'
    BY <1>0, <1>3 DEF Ordered, Clearing
  <2>. QED
    BY <1>0, <1>1, <1>2, <1>3, <2>1, <2>2, SameLine
<1>4. CASE u = t
  <2>1. PICK q, l, ans : q = queue[t] /\ l = InLoop(t) /\ ans = answered[t]
    OBVIOUS
  <2>2. q \in Seq(Msg) /\ l \in Seq(Msg) /\ ans \in Seq(Msg)
    BY <2>1, PipelineType
  <2>3. PICK line, line2 : line = Line(t) /\ line2 = Line(t)'
    OBVIOUS
  <2>4. line = ans \o (q \o l) /\ line2 = ans \o l
    BY <1>0, <2>1, <2>3 DEF Line
  <2>5. /\ Elements(q \o l) = Elements(q) \cup Elements(l)
        /\ Elements(line2) \subseteq Elements(line)
    <3>1. q \o l \in Seq(Msg)
      BY <2>2, ConcatProperties
    <3>2. /\ Elements(q \o l) = Elements(q) \cup Elements(l)
          /\ Elements(ans \o l) = Elements(ans) \cup Elements(l)
          /\ Elements(ans \o (q \o l)) = Elements(ans) \cup Elements(q \o l)
      <4>1. Elements(q \o l) = Elements(q) \cup Elements(l)
        BY <2>2, ElementsConcat
      <4>2. Elements(ans \o l) = Elements(ans) \cup Elements(l)
        BY <2>2, ElementsConcat
      <4>3. Elements(ans \o (q \o l)) = Elements(ans) \cup Elements(q \o l)
        <5>1. \A s \in Seq(Msg) : Elements(ans \o s) = Elements(ans) \cup Elements(s)
          BY <2>2, ElementsConcat
        <5>. QED
          BY <3>1, <5>1
      <4>. QED
        BY <4>1, <4>2, <4>3
    <3>. QED
      BY <2>4, <3>2
  <2>6. PICK f : f = [i \in 1..Len(line2) |-> IF i <= Len(ans) THEN i ELSE i + Len(q)]
    OBVIOUS
  <2>7. /\ \A i \in 1..Len(line2) : f[i] \in 1..Len(line) /\ line[f[i]] = line2[i]
        /\ \A i, j \in 1..Len(line2) : i < j => f[i] < f[j]
    <3>1. PICK ql \in Seq(Msg) : ql = q \o l
      BY <2>2, ConcatProperties
    <3>2. /\ Len(ql) = Len(q) + Len(l) /\ Len(q) \in Nat /\ Len(l) \in Nat
          /\ \A i \in 1..(Len(q) + Len(l)) : ql[i] = IF i <= Len(q) THEN q[i] ELSE l[i - Len(q)]
      BY <2>2, <3>1, ConcatProperties
    <3>3. /\ Len(line) = Len(ans) + Len(ql) /\ Len(ans) \in Nat
          /\ \A i \in 1..(Len(ans) + Len(ql)) : line[i] = IF i <= Len(ans) THEN ans[i] ELSE ql[i - Len(ans)]
      BY <2>2, <2>4, <3>1, ConcatProperties
    <3>4. /\ Len(line2) = Len(ans) + Len(l)
          /\ \A i \in 1..(Len(ans) + Len(l)) : line2[i] = IF i <= Len(ans) THEN ans[i] ELSE l[i - Len(ans)]
      BY <2>2, <2>4, ConcatProperties
    <3>5. ASSUME NEW i \in 1..Len(line2) PROVE f[i] \in 1..Len(line) /\ line[f[i]] = line2[i]
      <4>1. CASE i <= Len(ans)
        BY <2>6, <3>2, <3>3, <3>4, <4>1
      <4>2. CASE ~(i <= Len(ans))
        <5>1. f[i] = i + Len(q) /\ line2[i] = l[i - Len(ans)] /\ f[i] \in 1..Len(line)
          BY <2>6, <3>2, <3>3, <3>4, <4>2
        <5>2. line[f[i]] = ql[f[i] - Len(ans)]
          BY <3>2, <3>3, <3>4, <4>2, <5>1
        <5>3. ql[f[i] - Len(ans)] = l[i - Len(ans)]
          <6>1. PICK k : k = f[i] - Len(ans)
            OBVIOUS
          <6>2. k \in 1..(Len(q) + Len(l)) /\ ~(k <= Len(q)) /\ k - Len(q) = i - Len(ans)
            BY <3>2, <3>3, <3>4, <4>2, <5>1, <6>1
          <6>3. ql[k] = l[k - Len(q)]
            BY <3>2, <6>2
          <6>. QED
            BY <6>1, <6>2, <6>3
        <5>. QED
          BY <5>1, <5>2, <5>3
      <4>. QED
        BY <4>1, <4>2
    <3>6. \A i, j \in 1..Len(line2) : i < j => f[i] < f[j]
      BY <2>6, <3>2, <3>3, <3>4
    <3>. QED
      BY <3>5, <3>6
  <2>8. \A i, j \in 1..Len(line2) : i < j => Before(accepted[t], line2[i], line2[j])
    <3>1. \A i, j \in 1..Len(line) : i < j => Before(accepted[t], line[i], line[j])
      BY <1>4, <2>3 DEF Ordered
    <3>2. ASSUME NEW i \in 1..Len(line2), NEW j \in 1..Len(line2), i < j
          PROVE  Before(accepted[t], line2[i], line2[j])
      BY <2>7, <3>1, <3>2
    <3>. QED
      BY <3>2
  <2>9. Elements(line2) \subseteq Elements(Line(t)) /\ line2 = Line(t)'
    BY <2>3, <2>5
  <2>10. Elements(Pipeline(t)) = Elements(Pipeline(t))' \cup Elements(queue[t])
    BY <1>0, <2>1, <2>5
  <2>. QED
    BY <1>0, <1>1, <1>2, <1>4, <2>8, <2>9, <2>10, Thinned
<1>. QED
  BY <1>3, <1>4

LEMMA NothingOrdered ==
  ASSUME NEW t \in Thread, Pipeline(t) = <<>>, accepted[t] = <<>>, answered[t] = <<>>, ~Clearing(t)
  PROVE  Ordered(t)
<1>1. Line(t) = <<>>
  BY <<>> \in Seq({}), ConcatEmptySeq DEF Line
<1>2. Elements(<<>>) = {} /\ \A i : i \notin 1..Len(<<>>)
  BY DEF Elements
<1>. QED
  BY <1>1, <1>2 DEF Ordered

LEMMA OrderedStep ==
  ASSUME TypeOK, [Next]_vars, NEW t \in Thread, Ordered(t)
  PROVE  Ordered(t)'
<1>1. CASE Restart
  <2>1. (Pipeline(t) = <<>> /\ accepted[t] = <<>> /\ answered[t] = <<>> /\ ~Clearing(t))'
    BY <1>1, RestartLine
  <2>. QED
    BY <2>1, NothingOrdered, PTL
<1>2. ASSUME NEW e \in Envelope, Dispatch(e) PROVE Ordered(t)'
  <2>1. PICK d : TakenFor(e, d)
    BY <1>2 DEF Dispatch
  <2>. QED
    BY <1>2, <2>1, DispatchOrdered
<1>. QED
  BY <1>1, <1>2, PassingOrdered, PostOrdered, GoneOrdered, ReturnOrdered
  DEF Next, Loop, Work, Passing

LEMMA AgainStep ==
  ASSUME TypeOK, [Next]_vars, NEW t \in Thread, Ordered(t), Again(t)
  PROVE  Again(t)'
<1>1. CASE Restart
  <2>1. accepted'[t] = <<>> /\ Len(<<>>) = 0
    BY <1>1, RestartLine
  <2>. QED
    BY <2>1 DEF Again
<1>2. ASSUME accepted'[t] = accepted[t], forgotten \subseteq forgotten' PROVE Again(t)'
  BY <1>2 DEF Again
<1>3. ASSUME NEW e \in Envelope, Dispatch(e) PROVE Again(t)'
  <2>1. PICK d : TakenFor(e, d)
    BY <1>3 DEF Dispatch
  <2>2. /\ t = ThreadOf[d] => accepted'[t] = Append(accepted[t], d)
        /\ t # ThreadOf[d] => accepted'[t] = accepted[t]
        /\ d \in Msg /\ SourceOf[d] = e[1] /\ UNCHANGED forgotten
    <3>1. /\ t = ThreadOf[d] => accepted'[t] = Append(accepted[t], d)
          /\ t # ThreadOf[d] => accepted'[t] = accepted[t]
      BY <1>3, <2>1, DispatchLine
    <3>2. d \in Msg /\ SourceOf[d] = e[1]
      BY <2>1 DEF TakenFor, New
    <3>3. UNCHANGED forgotten
      BY <1>3 DEF Dispatch
    <3>. QED
      BY <3>1, <3>2, <3>3
  <2>3. \A m \in seen : SourceOf[m] = e[1] => m \in forgotten
    BY <1>3 DEF Dispatch, Duplicate, Remembered
  <2>4. PICK acc : acc = accepted[t]
    OBVIOUS
  <2>5. CASE t = ThreadOf[d]
    <3>1. acc \in Seq(Msg) /\ accepted'[t] = Append(acc, d)
      BY <2>2, <2>4, <2>5, PipelineType
    <3>2. /\ Len(acc) \in Nat /\ Len(Append(acc, d)) = Len(acc) + 1
          /\ Append(acc, d)[Len(acc) + 1] = d
          /\ \A i \in 1..Len(acc) : Append(acc, d)[i] = acc[i]
      BY <2>2, <3>1, StackAppended
    <3>3. \A i \in 1..Len(acc) : acc[i] \in seen
      BY <2>4 DEF Ordered, Elements
    <3>4. ASSUME NEW i \in 1..Len(Append(acc, d)), NEW j \in 1..Len(Append(acc, d)), i < j,
                 SourceOf[Append(acc, d)[i]] = SourceOf[Append(acc, d)[j]]
          PROVE  Append(acc, d)[i] \in forgotten
      <4>1. i \in 1..Len(acc) /\ Append(acc, d)[i] = acc[i]
        BY <3>2, <3>4
      <4>2. CASE j \in 1..Len(acc)
        BY <2>4, <3>2, <3>4, <4>1, <4>2 DEF Again
      <4>3. CASE j = Len(acc) + 1
        BY <2>2, <2>3, <3>2, <3>3, <3>4, <4>1, <4>3
      <4>. QED
        BY <3>2, <4>2, <4>3
    <3>. QED
      BY <2>2, <3>1, <3>4 DEF Again
  <2>. QED
    BY <1>2, <2>2, <2>5
<1>4. ASSUME NEW m \in Msg, Forget(m) PROVE Again(t)'
  BY <1>2, <1>4 DEF Forget, historyVars
<1>5. ASSUME [Next]_vars, ~Restart, \A e \in Envelope : ~Dispatch(e), \A m \in Msg : ~Forget(m)
      PROVE  UNCHANGED <<forgotten, accepted>>
  <2>1. ASSUME NEW e \in Envelope, Drop(e) PROVE UNCHANGED <<forgotten, accepted>>
    BY <2>1 DEF Drop, historyVars
  <2>2. ASSUME NEW u \in Thread, Work(u) \/ Expire(u) \/ Read(u)
        PROVE  UNCHANGED <<forgotten, accepted>>
    BY <2>2 DEF Work, Take, BeginTurn, FailSetup, EndTurn, Post, Clear, Return, Expire, Read,
                Push, Emit, slackVars, historyVars
  <2>3. ASSUME NEW m \in Msg, NEW i \in Item, ItemStarted(m, i) \/ ItemCompleted(m, i)
        PROVE  UNCHANGED <<forgotten, accepted>>
    BY <2>3 DEF ItemStarted, ItemCompleted, slackVars, historyVars
  <2>4. CASE Loop \/ UNCHANGED vars
    BY <2>4 DEF Loop, SetStatus, Lookup, Send, SendToGone, vars, slackVars, historyVars
  <2>. QED
    BY <1>5, <2>1, <2>2, <2>3, <2>4 DEF Next
<1>. QED
  BY <1>1, <1>2, <1>3, <1>4, <1>5

-----------------------------------------------------------------------------
(* The status.                                                               *)

LEMMA PassingStatus ==
  ASSUME TypeOK, StatusIsOwed, Passing, NEW u \in Thread
  PROVE  /\ status'[u] = "live" => Busy(u)'
         /\ ~Clearing(u) /\ status[u] # "none" => status'[u] # "none"
<1>1. /\ Pipeline(u)' = Pipeline(u)
      /\ Clearing(u) => Clearing(u)' \/ Clear(u)
      /\ status[u] = "live" => Busy(u)
  BY Passed DEF StatusIsOwed
<1>2. Busy(u) => Busy(u)' \/ Clear(u)
  BY <1>1 DEF Busy
<1>3. CASE Clear(u)
  <2>1. status'[u] \in {Abandoned(status[u]), "none"} /\ Clearing(u)
    BY <1>3 DEF Clear, TypeOK, Clearing
  <2>. QED
    BY <2>1 DEF Abandoned
<1>4. CASE ~Clear(u) /\ status'[u] = status[u]
  BY <1>1, <1>2, <1>4
<1>5. CASE SetStatus
  <2>1. CASE status'[u] = status[u]
    BY <1>1, <1>2, <1>3, <2>1
  <2>2. CASE status'[u] # status[u]
    <3>1. u = ThreadOf[loop.msg] /\ loop.pc = "status" /\ status'[u] = "live"
      BY <1>5, <2>2, LoopHolds, ThreadType DEF SetStatus, statusVars, TypeOK
    <3>2. InLoop(u) # <<>>
      BY <3>1, LoopHolds, SMTT(60)
    <3>3. Pipeline(u) # <<>>
      <4>1. PICK wq, l : wq = InWorker(u) \o queue[u] /\ l = InLoop(u)
        OBVIOUS
      <4>2. wq \in Seq(Msg) /\ l \in Seq(Msg) /\ Pipeline(u) = wq \o l
        BY <4>1, PipelineType, ConcatProperties DEF Pipeline
      <4>3. wq \o l = <<>> <=> wq = <<>> /\ l = <<>>
        BY <4>2, ConcatEqualIffEmpty
      <4>. QED
        BY <3>2, <4>1, <4>2, <4>3
    <3>. QED
      BY <1>1, <3>1, <3>3 DEF Busy
  <2>. QED
    BY <2>1, <2>2
<1>6. ASSUME NEW t \in Thread, Emit(t), ~Clear(u), status'[u] # status[u]
      PROVE  status'[u] = IF Busy(u) THEN "live" ELSE "stray"
  BY <1>6 DEF Emit, Shown, TypeOK
<1>7. ASSUME NEW t \in Thread, Emit(t), ~Clear(u), status'[u] # status[u]
      PROVE  /\ status'[u] = "live" => Busy(u)'
             /\ ~Clearing(u) /\ status[u] # "none" => status'[u] # "none"
  BY <1>2, <1>6, <1>7
<1>8. ASSUME NEW t \in Thread, Clear(t), t # u PROVE status'[u] = status[u]
  BY <1>8 DEF Clear, TypeOK
<1>9. ASSUME \/ UNCHANGED vars
             \/ \E e \in Envelope : Drop(e)
             \/ \E m \in Msg : Forget(m)
             \/ Lookup \/ Send
             \/ \E t \in Thread :
                  Take(t) \/ BeginTurn(t) \/ FailSetup(t) \/ EndTurn(t) \/ Expire(t) \/ Push(t)
             \/ \E m \in Msg, i \in Item : ItemStarted(m, i) \/ ItemCompleted(m, i)
      PROVE  status' = status
  BY <1>9 DEF vars, statusVars, Drop, Forget, Lookup, Send, Take, BeginTurn, FailSetup, EndTurn,
              Expire, Push, ItemStarted, ItemCompleted
<1>. QED
  BY <1>3, <1>4, <1>5, <1>7, <1>8, <1>9 DEF Passing, Read

\* A message that stays at the head of its thread keeps its status.
LEMMA StaysFirst ==
  ASSUME NEW m \in Msg, Alone, m \in alone, seen \subseteq seen',
         Holds(m)' => /\ Holds(m)
                      /\ First(m) => /\ Pipeline(ThreadOf[m])'[1] = Pipeline(ThreadOf[m])[1]
                                     /\ ~Clearing(ThreadOf[m])' /\ status'[ThreadOf[m]] # "none"
  PROVE  m \in seen' /\ (Holds(m)' => First(m)')
BY DEF Alone, First

LEMMA PassingAlone ==
  ASSUME TypeOK, StatusIsOwed, Alone, Passing, \A t \in Thread : Ordered(t)
  PROVE  Alone'
<1>. SUFFICES ASSUME NEW m \in Msg, m \in alone'
              PROVE  m \in seen' /\ (Holds(m)' => First(m)')
  <2>1. alone' \subseteq Msg
    <3>1. CASE SetStatus
      BY <3>1, LoopHolds DEF SetStatus, statusVars, TypeOK
    <3>2. CASE ~SetStatus
      BY <3>2 DEF Passing, Read, TypeOK, vars, statusVars, Drop, Forget, Lookup, Send, Take, BeginTurn,
                  FailSetup, EndTurn, Clear, Expire, Push, Emit, ItemStarted, ItemCompleted
    <3>. QED
      BY <3>1, <3>2
  <2>. QED
    BY <2>1 DEF Alone
<1>1. PICK t \in Thread : t = ThreadOf[m]
  BY ThreadType
<1>2. Pipeline(t)' = Pipeline(t) /\ seen' = seen /\ (Clearing(t)' => Clearing(t))
  BY Passed
<1>3. status[t] # "none" /\ ~Clearing(t) => status'[t] # "none"
  BY PassingStatus
<1>4. CASE m \in alone
  <2>1. Holds(m)' => Holds(m)
    BY <1>1, <1>2 DEF Holds
  <2>2. First(m) => ~Clearing(t)' /\ status'[t] # "none"
    BY <1>1, <1>2, <1>3 DEF First
  <2>. QED
    BY <1>1, <1>2, <1>4, <2>1, <2>2, StaysFirst
<1>5. CASE m \notin alone
  <2>1. SetStatus
    BY <1>5 DEF Passing, Read, vars, statusVars, Drop, Forget, Lookup, Send, Take, BeginTurn,
                  FailSetup, EndTurn, Clear, Expire, Push, Emit, ItemStarted, ItemCompleted
  <2>2. m = loop.msg /\ Pipeline(t) = <<m>> /\ ~Clearing(t) /\ status'[t] = "live"
    BY <1>1, <1>5, <2>1 DEF SetStatus, statusVars, TypeOK
  <2>3. m \in Elements(Pipeline(t))
    BY <2>2, ElementsOne
  <2>4. m \in seen
    <3>1. Elements(Line(t)) = Elements(answered[t]) \cup Elements(Pipeline(t))
      BY PipelineType, ElementsConcat DEF Line
    <3>. QED
      BY <2>3, <3>1 DEF Ordered
  <2>5. Pipeline(t)'[1] = m /\ ~Clearing(t)' /\ status'[t] # "none"
    BY <1>2, <2>2
  <2>. QED
    BY <1>1, <1>2, <2>4, <2>5 DEF First
<1>. QED
  BY <1>4, <1>5

\* Behind a message that is answered, none is at the head.
LEMMA HeadOnce ==
  ASSUME TypeOK, NEW t \in Thread, Ordered(t), NEW m \in Msg, NEW rest \in Seq(Msg),
         Pipeline(t) = <<m>> \o rest
  PROVE  m \notin Elements(answered[t]) /\ m \notin Elements(rest) /\ ThreadOf[m] = t
<1>1. PICK ans, line, pipe, acc : /\ ans = answered[t] /\ line = Line(t) /\ pipe = Pipeline(t)
                                  /\ acc = accepted[t]
  OBVIOUS
<1>2. /\ ans \in Seq(Msg) /\ pipe \in Seq(Msg) /\ line = ans \o pipe
      /\ pipe = <<m>> \o rest /\ <<m>> \in Seq(Msg)
  BY <1>1, PipelineType DEF Line
<1>3. /\ Len(line) = Len(ans) + Len(pipe) /\ Len(ans) \in Nat /\ Len(pipe) \in Nat
      /\ \A i \in 1..(Len(ans) + Len(pipe)) :
           line[i] = IF i <= Len(ans) THEN ans[i] ELSE pipe[i - Len(ans)]
  BY <1>2, ConcatProperties
<1>4. /\ Len(pipe) = 1 + Len(rest) /\ Len(rest) \in Nat /\ pipe[1] = m
      /\ \A i \in 1..Len(rest) : pipe[i + 1] = rest[i]
  <2>1. ASSUME NEW a \in Seq(Msg), Len(a) = 1
        PROVE  /\ Len(a \o rest) = 1 + Len(rest) /\ Len(rest) \in Nat /\ (a \o rest)[1] = a[1]
               /\ \A i \in 1..Len(rest) : (a \o rest)[i + 1] = rest[i]
    <3>1. PICK r : r = a \o rest
      OBVIOUS
    <3>2. /\ Len(r) = 1 + Len(rest) /\ Len(rest) \in Nat
          /\ \A i \in 1..(1 + Len(rest)) : r[i] = IF i <= 1 THEN a[i] ELSE rest[i - 1]
      <4>1. /\ Len(r) = Len(a) + Len(rest) /\ Len(rest) \in Nat
            /\ \A i \in 1..(Len(a) + Len(rest)) :
                 r[i] = IF i <= Len(a) THEN a[i] ELSE rest[i - Len(a)]
        BY <3>1, ConcatProperties
      <4>. QED
        BY <2>1, <4>1
    <3>3. r[1] = a[1]
      BY <3>2
    <3>4. ASSUME NEW i \in 1..Len(rest) PROVE r[i + 1] = rest[i]
      BY <3>2
    <3>. QED
      BY <3>1, <3>2, <3>3, <3>4
  <2>2. Len(<<m>>) = 1 /\ <<m>>[1] = m
    OBVIOUS
  <2>. QED
    BY <1>2, <2>1, <2>2
<1>5. PICK k : k = Len(ans) + 1
  OBVIOUS
<1>6. k \in 1..Len(line) /\ line[k] = m
  BY <1>3, <1>4, <1>5
<1>7. /\ \A i, j \in 1..Len(acc) : acc[i] = acc[j] => i = j
      /\ \A i, j \in 1..Len(line) : i < j => Before(acc, line[i], line[j])
      /\ Elements(line) \subseteq Elements(acc)
      /\ \A n \in Elements(acc) : ThreadOf[n] = t
  BY <1>1 DEF Ordered
<1>8. ASSUME NEW i \in 1..Len(line), NEW j \in 1..Len(line), i < j PROVE line[i] # line[j]
  <2>1. PICK a, b \in 1..Len(acc) : a < b /\ acc[a] = line[i] /\ acc[b] = line[j]
    BY <1>7, <1>8 DEF Before
  <2>2. a # b
    BY <2>1
  <2>. QED
    BY <1>7, <2>1, <2>2
<1>9. \A i \in 1..Len(ans) : i \in 1..Len(line) /\ i < k /\ line[i] = ans[i]
  BY <1>3, <1>5
<1>10. ASSUME NEW i \in 1..Len(rest) PROVE rest[i] # m
  <2>1. k + i \in 1..Len(line) /\ k < k + i
    BY <1>3, <1>4, <1>5
  <2>2. line[k + i] = pipe[i + 1]
    <3>1. PICK x : x = k + i
      OBVIOUS
    <3>2. x \in 1..(Len(ans) + Len(pipe)) /\ ~(x <= Len(ans)) /\ x - Len(ans) = i + 1
      BY <1>3, <1>4, <1>5, <3>1
    <3>. QED
      BY <1>3, <3>1, <3>2
  <2>. QED
    BY <1>4, <1>6, <1>8, <2>1, <2>2
<1>11. m \notin Elements(rest)
  BY <1>10 DEF Elements
<1>12. m \notin Elements(ans)
  BY <1>6, <1>8, <1>9 DEF Elements
<1>13. ThreadOf[m] = t
  <2>1. m \in Elements(line)
    BY <1>6 DEF Elements
  <2>. QED
    BY <1>7, <2>1
<1>. QED
  BY <1>1, <1>11, <1>12, <1>13

LEMMA DispatchStatus ==
  ASSUME TypeOK, StatusIsOwed, Alone, NEW e \in Envelope, Dispatch(e), NEW d, TakenFor(e, d)
  PROVE  StatusIsOwed' /\ Alone'
<1>1. d \notin seen /\ seen' = seen \cup {d} /\ UNCHANGED <<status, alone>>
  <2>1. d \in Msg
    BY DEF TakenFor, New
  <2>2. ThreadOf[d] \in Thread
    BY <2>1, ThreadType
  <2>. QED
    BY <2>2, DispatchLine
<1>2. ASSUME NEW t \in Thread
      PROVE  /\ Clearing(t)' = Clearing(t)
             /\ Pipeline(t)' = Pipeline(t) \/ Pipeline(t)' = Append(Pipeline(t), d)
             /\ d \in Msg /\ Pipeline(t) \in Seq(Msg)
  BY DispatchLine, PipelineType
<1>3. ASSUME NEW t \in Thread PROVE Busy(t) => Busy(t)'
  <2>1. Pipeline(t) # <<>> => Pipeline(t)' # <<>>
    BY <1>2
  <2>. QED
    BY <1>2, <2>1 DEF Busy
<1>4. StatusIsOwed'
  BY <1>1, <1>3 DEF StatusIsOwed
<1>5. ASSUME NEW m \in Msg, m \in alone PROVE m \in seen' /\ (Holds(m)' => First(m)')
  <2>1. PICK t \in Thread : t = ThreadOf[m]
    BY ThreadType
  <2>2. m \in seen /\ m # d /\ (Holds(m) => First(m))
    BY <1>1, <1>5 DEF Alone
  <2>3. PICK p : p = Pipeline(t)
    OBVIOUS
  <2>4. p \in Seq(Msg) /\ d \in Msg /\ (Pipeline(t)' = p \/ Pipeline(t)' = Append(p, d))
    BY <1>2, <2>3
  <2>5. Elements(Append(p, d)) = Elements(p) \cup {d}
    BY <2>4, ElementsAppend
  <2>6. Holds(m)' => Holds(m)
    BY <2>1, <2>2, <2>3, <2>4, <2>5 DEF Holds
  <2>7. Holds(m) => Pipeline(t)'[1] = p[1]
    <3>1. Holds(m) => p # <<>>
      BY <2>1, <2>3, ElementsOne DEF Holds
    <3>2. p # <<>> => Append(p, d)[1] = p[1]
      BY <2>4
    <3>. QED
      BY <2>4, <3>1, <3>2
  <2>8. First(m) => ~Clearing(t)' /\ status'[t] # "none"
    BY <1>1, <1>2, <2>1 DEF First
  <2>. QED
    BY <1>1, <1>5, <2>1, <2>3, <2>6, <2>7, <2>8, StaysFirst
<1>6. \A x \in alone' : x \in Msg /\ x \in alone
  BY <1>1 DEF TypeOK
<1>7. Alone'
  BY <1>5, <1>6 DEF Alone
<1>. QED
  BY <1>4, <1>7

LEMMA PostStatus ==
  ASSUME TypeOK, StatusIsOwed, Alone, NEW t \in Thread, Post(t), Ordered(t)
  PROVE  StatusIsOwed' /\ Alone'
<1>1. PICK m, rest : m = worker[t].msg /\ rest = Pipeline(t)'
  OBVIOUS
<1>2. m \in Msg /\ rest \in Seq(Msg) /\ Pipeline(t) = <<m>> \o rest /\ ~Clearing(t)
  BY <1>1, PostLine
<1>3. Clearing(t)' /\ UNCHANGED <<seen, alone>>
  <2>1. worker'[t] = [pc |-> "clear", msg |-> worker[t].msg] /\ UNCHANGED <<seen, alone>>
    BY PostLine
  <2>. QED
    BY <2>1 DEF Clearing
<1>4. m \notin Elements(rest)
  BY <1>2, HeadOnce
<1>5. ASSUME NEW u \in Thread, u # t
      PROVE  /\ Pipeline(u)' = Pipeline(u) /\ (Clearing(u)' <=> Clearing(u))
             /\ status'[u] = status[u]
  <2>1. Pipeline(u)' = Pipeline(u) /\ worker'[u] = worker[u]
    BY <1>5, PostLine
  <2>2. status'[u] = status[u]
    BY <1>5 DEF Post, TypeOK
  <2>. QED
    BY <2>1, <2>2 DEF Clearing
<1>6. StatusIsOwed'
  BY <1>3, <1>5 DEF StatusIsOwed, Busy
<1>7. ASSUME NEW n \in Msg, n \in alone PROVE n \in seen' /\ (Holds(n)' => First(n)')
  <2>1. PICK u \in Thread : u = ThreadOf[n]
    BY ThreadType
  <2>2. CASE u # t
    <3>1. Holds(n)' => Holds(n)
      BY <1>5, <2>1, <2>2 DEF Holds
    <3>2. First(n) => ~Clearing(u)' /\ status'[u] # "none"
      BY <1>5, <2>1, <2>2 DEF First
    <3>. QED
      BY <1>3, <1>5, <1>7, <2>1, <2>2, <3>1, <3>2, StaysFirst
  <2>3. CASE u = t
    <3>1. Elements(<<m>> \o rest) = {m} \cup Elements(rest) /\ (<<m>> \o rest)[1] = m
      <4>1. <<m>> \in Seq(Msg)
        BY <1>2
      <4>2. Elements(<<m>> \o rest) = Elements(<<m>>) \cup Elements(rest)
        BY <1>2, <4>1, ElementsConcat, ZenonT(60)
      <4>3. (<<m>> \o rest)[1] = m
        BY <1>2, OneFirst
      <4>. QED
        BY <4>2, <4>3, ElementsOne
    <3>2. Holds(n)' => n \in Elements(rest)
      BY <1>1, <2>1, <2>3 DEF Holds
    <3>3. n \in Elements(rest) => Holds(n) /\ n # m
      BY <1>2, <1>4, <2>1, <2>3, <3>1 DEF Holds
    <3>4. Holds(n) => n = m
      BY <1>2, <1>7, <2>1, <2>3, <3>1 DEF Alone, First
    <3>5. ~Holds(n)'
      BY <3>2, <3>3, <3>4
    <3>. QED
      BY <1>3, <1>7, <3>5 DEF Alone
  <2>. QED
    BY <2>2, <2>3
<1>8. \A x \in alone' : x \in Msg /\ x \in alone
  BY <1>3 DEF TypeOK
<1>9. Alone'
  BY <1>7, <1>8 DEF Alone
<1>. QED
  BY <1>6, <1>9

LEMMA GoneStatus ==
  ASSUME TypeOK, StatusIsOwed, Alone, SendToGone
  PROVE  StatusIsOwed' /\ Alone'
<1>1. PICK t \in Thread : t = ThreadOf[loop.msg]
  <2>1. loop.pc = "gone"
    BY DEF SendToGone
  <2>2. loop.msg \in Msg
    BY <2>1, LoopFields, NoneAssumption
  <2>. QED
    BY <2>2, ThreadType
<1>2. PICK m, rest : m = loop.msg /\ rest = Pipeline(t)'
  OBVIOUS
<1>3. m \in Msg /\ rest \in Seq(Msg) /\ Pipeline(t) = Append(rest, m) /\ UNCHANGED <<seen, alone>>
  BY <1>1, <1>2, GoneLine
<1>4. ASSUME NEW u \in Thread
      PROVE  /\ u # t => Pipeline(u)' = Pipeline(u) /\ status'[u] = status[u]
             /\ u = t => status'[u] = Abandoned(status[u])
             /\ Clearing(u)' <=> Clearing(u)
  <2>1. (u # t => Pipeline(u)' = Pipeline(u)) /\ worker' = worker
    BY <1>1, GoneLine
  <2>2. /\ u # t => status'[u] = status[u]
        /\ u = t => status'[u] = Abandoned(status[u])
    BY <1>1 DEF SendToGone, TypeOK
  <2>. QED
    BY <2>1, <2>2 DEF Clearing
<1>5. StatusIsOwed'
  BY <1>4 DEF StatusIsOwed, Busy, Abandoned
<1>6. ASSUME NEW n \in Msg, n \in alone PROVE n \in seen' /\ (Holds(n)' => First(n)')
  <2>1. PICK u \in Thread : u = ThreadOf[n]
    BY ThreadType
  <2>2. First(n) => ~Clearing(u)' /\ status'[u] # "none"
    BY <1>4, <2>1 DEF First, Abandoned
  <2>3. CASE u # t
    <3>1. Holds(n)' => Holds(n)
      BY <1>4, <2>1, <2>3 DEF Holds
    <3>. QED
      BY <1>3, <1>4, <1>6, <2>1, <2>2, <2>3, <3>1, StaysFirst
  <2>4. CASE u = t
    <3>1. Elements(Append(rest, m)) = Elements(rest) \cup {m}
      BY <1>3, ElementsAppend
    <3>2. Holds(n)' => n \in Elements(rest)
      BY <1>2, <2>1, <2>4 DEF Holds
    <3>3. n \in Elements(rest) => Holds(n)
      BY <1>3, <2>1, <2>4, <3>1 DEF Holds
    <3>4. n \in Elements(rest) => Append(rest, m)[1] = rest[1]
      <4>1. n \in Elements(rest) => rest # <<>>
        BY ElementsOne
      <4>. QED
        BY <1>3, <4>1
    <3>. QED
      BY <1>2, <1>3, <1>6, <2>1, <2>2, <2>4, <3>2, <3>3, <3>4, StaysFirst
  <2>. QED
    BY <2>3, <2>4
<1>7. \A x \in alone' : x \in Msg /\ x \in alone
  BY <1>3 DEF TypeOK
<1>8. Alone'
  BY <1>6, <1>7 DEF Alone
<1>. QED
  BY <1>5, <1>8

LEMMA ReturnStatus ==
  ASSUME TypeOK, StatusIsOwed, Alone, NEW t \in Thread, Return(t)
  PROVE  StatusIsOwed' /\ Alone'
<1>1. PICK q, l : q = queue[t] /\ l = InLoop(t)
  OBVIOUS
<1>2. /\ q \in Seq(Msg) /\ l \in Seq(Msg) /\ Pipeline(t) = q \o l /\ Pipeline(t)' = l
      /\ ~Clearing(t) /\ ~Clearing(t)' /\ UNCHANGED <<seen, alone>>
  BY <1>1, PipelineType, ReturnLine
<1>3. ASSUME NEW u \in Thread, u # t
      PROVE  /\ Pipeline(u)' = Pipeline(u) /\ (Clearing(u)' <=> Clearing(u))
             /\ status'[u] = status[u]
  <2>1. Pipeline(u)' = Pipeline(u) /\ worker'[u] = worker[u]
    BY <1>3, ReturnLine
  <2>2. status'[u] = status[u]
    BY <1>3 DEF Return, TypeOK
  <2>. QED
    BY <2>1, <2>2 DEF Clearing
<1>4. status'[t] = IF q = <<>> THEN status[t] ELSE Abandoned(status[t])
  BY <1>1 DEF Return, TypeOK
<1>5. q = <<>> => Pipeline(t)' = Pipeline(t)
  BY <1>2, ConcatEmptySeq
<1>6. StatusIsOwed'
  <2>1. ASSUME NEW u \in Thread, status'[u] = "live" PROVE Busy(u)'
    <3>1. CASE u = t
      BY <1>2, <1>4, <1>5, <2>1, <3>1 DEF StatusIsOwed, Busy, Abandoned
    <3>2. CASE u # t
      BY <1>3, <2>1, <3>2 DEF StatusIsOwed, Busy
    <3>. QED
      BY <3>1, <3>2
  <2>. QED
    BY <2>1 DEF StatusIsOwed
<1>7. ASSUME NEW n \in Msg, n \in alone PROVE n \in seen' /\ (Holds(n)' => First(n)')
  <2>1. PICK u \in Thread : u = ThreadOf[n]
    BY ThreadType
  <2>2. CASE u # t
    <3>1. Holds(n)' => Holds(n)
      BY <1>3, <2>1, <2>2 DEF Holds
    <3>2. First(n) => ~Clearing(u)' /\ status'[u] # "none"
      BY <1>3, <2>1, <2>2 DEF First
    <3>. QED
      BY <1>2, <1>3, <1>7, <2>1, <2>2, <3>1, <3>2, StaysFirst
  <2>3. CASE u = t
    <3>1. Elements(q \o l) = Elements(q) \cup Elements(l)
      BY <1>2, ElementsConcat
    <3>2. Holds(n)' => n \in Elements(l)
      BY <1>2, <2>1, <2>3 DEF Holds
    <3>3. n \in Elements(l) => Holds(n)
      BY <1>2, <2>1, <2>3, <3>1 DEF Holds
    <3>4. n \in Elements(l) => l[1] = n
      <4>1. l = <<>> \/ \E k : l = <<k>>
        BY <1>1 DEF InLoop
      <4>2. CASE l = <<>>
        BY <4>2, ElementsOne
      <4>3. ASSUME NEW k, l = <<k>> PROVE n \in Elements(l) => l[1] = n
        BY <4>3, ElementsOne
      <4>. QED
        BY <4>1, <4>2, <4>3
    <3>5. First(n) => status'[t] # "none"
      BY <1>4, <2>1, <2>3 DEF First, Abandoned
    <3>6. Holds(n)' => Pipeline(t)'[1] = n /\ ~Clearing(t)' /\ status'[t] # "none"
      BY <1>2, <1>7, <3>2, <3>3, <3>4, <3>5 DEF Alone
    <3>. QED
      BY <1>2, <1>7, <2>1, <2>3, <3>6 DEF Alone, First
  <2>. QED
    BY <2>2, <2>3
<1>8. \A x \in alone' : x \in Msg /\ x \in alone
  BY <1>2 DEF TypeOK
<1>9. Alone'
  BY <1>7, <1>8 DEF Alone
<1>. QED
  BY <1>6, <1>9

LEMMA StatusStep ==
  ASSUME TypeOK, StatusIsOwed, Alone, \A t \in Thread : Ordered(t), [Next]_vars
  PROVE  StatusIsOwed' /\ Alone'
<1>1. CASE Restart
  BY <1>1 DEF Restart, StatusIsOwed, Alone, Abandoned
<1>2. CASE Passing
  BY <1>2, PassingStatus, PassingAlone DEF StatusIsOwed
<1>3. ASSUME NEW e \in Envelope, Dispatch(e) PROVE StatusIsOwed' /\ Alone'
  <2>1. PICK d : TakenFor(e, d)
    BY <1>3 DEF Dispatch
  <2>. QED
    BY <1>3, <2>1, DispatchStatus
<1>. QED
  BY <1>1, <1>2, <1>3, PostStatus, GoneStatus, ReturnStatus
  DEF Next, Loop, Work, Passing

-----------------------------------------------------------------------------
(* The phases.                                                               *)

LEMMA WorkerMessage ==
  ASSUME TypeOK, NEW t \in Thread, Ordered(t), worker[t].pc \in Carries
  PROVE  /\ worker[t].msg \in Msg /\ ThreadOf[worker[t].msg] = t
         /\ worker[t].pc # "clear" => worker[t].msg \notin Elements(answered[t])
<1>1. PICK m, q, l : m = worker[t].msg /\ q = queue[t] /\ l = InLoop(t)
  OBVIOUS
<1>2. m \in Msg /\ q \in Seq(Msg) /\ l \in Seq(Msg) /\ <<m>> \in Seq(Msg)
  <2>1. m \in Msg
    BY <1>1, WorkerFields, NoneAssumption
  <2>. QED
    BY <1>1, <2>1, PipelineType
<1>3. CASE worker[t].pc = "clear"
  <2>1. Elements(Line(t)) = Elements(answered[t]) \cup Elements(Pipeline(t))
    BY PipelineType, ElementsConcat DEF Line
  <2>. QED
    BY <1>1, <1>2, <1>3, <2>1 DEF Ordered, Clearing
<1>4. CASE worker[t].pc # "clear"
  <2>1. Pipeline(t) = (<<m>> \o q) \o l
    BY <1>1, <1>4, WorkerHolds DEF Pipeline
  <2>2. (<<m>> \o q) \o l = <<m>> \o (q \o l)
    <3>1. \A x \in Seq(Msg) : (x \o q) \o l = x \o (q \o l)
      BY <1>2, ConcatAssociative
    <3>. QED
      BY <1>2, <3>1
  <2>3. q \o l \in Seq(Msg)
    BY <1>2, ConcatProperties
  <2>. QED
    BY <1>1, <1>2, <2>1, <2>2, <2>3, HeadOnce, ZenonT(60)
<1>. QED
  BY <1>3, <1>4

\* Phases are kept if, of the thread, items at most come to an end, the stack
\* at most is dropped, and no turn begins.
LEMMA PhasesKept ==
  ASSUME TypeOK, NEW t \in Thread, Phases(t), Ordered(t),
         stack'[t] = stack[t] \/ (stack'[t] = <<>> /\ worker'[t].pc # "turn"),
         report'[t] = report[t] \/ (report'[t] = NoReport /\ report[t].pc # "push"),
         worker'[t] = worker[t] \/ worker'[t].pc # "turn",
         \A m \in Msg, i \in Item : ThreadOf[m] = t =>
           item'[m][i] = item[m][i] \/ item'[m][i] \in {"none", "closed"}
  PROVE  Phases(t)'
<1>1. ASSUME NEW f, Frame(t, f)
      PROVE  State(f)' = State(f) \/ State(f)' \in {"none", "closed"}
  BY <1>1 DEF Frame, State
<1>2. Stacked(t)'
  <2>1. CASE stack'[t] = <<>>
    <3>1. Elements(<<>>) = {} /\ \A i : i \notin 1..Len(<<>>)
      BY DEF Elements
    <3>. QED
      BY <2>1, <3>1 DEF Stacked
  <2>2. CASE stack'[t] = stack[t]
    <3>1. \A f \in Elements(stack[t]) : Frame(t, f) /\ State(f)' # "new"
      BY <1>1 DEF Phases, Stacked
    <3>2. \A f : Frame(t, f)' = Frame(t, f)
      BY DEF Frame
    <3>. QED
      BY <2>2, <3>1, <3>2 DEF Phases, Stacked
  <2>. QED
    BY <2>1, <2>2
<1>3. Reporting(t)'
  <2>1. CASE report'[t] = NoReport
    BY <2>1 DEF Reporting, NoReport
  <2>2. CASE report'[t] = report[t]
    <3>1. report[t].pc = "push" => report[t].frame \notin Elements(stack[t])'
      BY ElementsOne DEF Phases, Reporting
    <3>2. report[t].pc = "push" => State(report[t].frame)' \notin {"new", "done"}
      BY <1>1, <2>2 DEF Phases, Reporting, State
    <3>. QED
      BY <2>2, <3>1, <3>2 DEF Phases, Reporting, Frame
  <2>. QED
    BY <2>1, <2>2
<1>4. OnStack(t)'
  <2>. SUFFICES ASSUME worker'[t].pc = "turn" PROVE OnStack(t)'
    BY DEF OnStack
  <2>1. /\ worker'[t] = worker[t] /\ stack'[t] = stack[t]
        /\ worker[t].msg \in Msg /\ ThreadOf[worker[t].msg] = t
    BY WorkerMessage DEF Carries
  <2>2. \A f \in Elements(stack[t]) : State(f)' # "done"
    BY <1>1, <2>1 DEF Phases, Stacked, OnStack
  <2>3. \A i \in Item : item'[worker[t].msg][i] = "running" =>
          \/ <<worker[t].msg, i>> \in Elements(stack[t])
          \/ report'[t].pc = "push" /\ report'[t].frame = <<worker[t].msg, i>>
    BY <2>1 DEF Phases, OnStack
  <2>. QED
    BY <2>1, <2>2, <2>3 DEF OnStack
<1>5. Current(t)'
  <2>. SUFFICES ASSUME report'[t].pc = "emit" PROVE Current(t)'
    BY DEF Current
  <2>1. report'[t] = report[t] /\ report[t].msg \in Msg /\ ThreadOf[report[t].msg] = t
    <3>1. report'[t] = report[t]
      BY DEF NoReport
    <3>2. report[t] # NoReport /\ report[t].msg \in Msg
      BY <3>1, ReportFields DEF NoReport
    <3>. QED
      BY <3>1, <3>2 DEF Phases, Reporting
  <2>2. report[t].frame # Idle => Frame(t, report[t].frame)
    BY <2>1 DEF Phases, Reporting
  <2>3. CASE report[t].frame = Idle
    BY <2>1, <2>3 DEF Phases, Current
  <2>4. CASE report[t].frame # Idle
    BY <1>1, <2>1, <2>2, <2>4 DEF Phases, Current, State
  <2>. QED
    BY <2>3, <2>4
<1>. QED
  BY <1>2, <1>3, <1>4, <1>5 DEF Phases

\* What a step does with the workers.
LEMMA WorkerSteps ==
  ASSUME TypeOK, [Next]_vars, ~Restart, NEW t \in Thread
  PROVE  \/ worker'[t] = worker[t]
         \/ Take(t) \/ BeginTurn(t) \/ FailSetup(t) \/ EndTurn(t) \/ Post(t) \/ Clear(t)
         \/ Return(t) \/ Expire(t)
         \/ Lookup /\ worker[t].pc = "none" /\ worker'[t].pc = "fresh"
<1>1. CASE Lookup
  <2>1. ThreadOf[loop.msg] \in Thread
    BY <1>1, LoopHolds, ThreadType DEF Lookup
  <2>2. worker'[t] = worker[t] \/ (worker[t].pc = "none" /\ worker'[t] = [worker[t] EXCEPT !.pc = "fresh"])
    BY <1>1, <2>1 DEF Lookup, TypeOK
  <2>3. "fresh" \in Carries \cup Empty
    BY DEF Empty
  <2>4. worker[t].pc = "none" => [worker[t] EXCEPT !.pc = "fresh"].pc = "fresh"
    <3>1. [worker[t] EXCEPT !.pc = "fresh"] = [pc |-> "fresh", msg |-> worker[t].msg]
      BY <2>3, WorkerFields
    <3>. QED
      BY <3>1
  <2>. QED
    BY <1>1, <2>2, <2>4
<1>2. ASSUME NEW u \in Thread, u # t,
             Take(u) \/ BeginTurn(u) \/ FailSetup(u) \/ EndTurn(u) \/ Post(u) \/ Clear(u)
               \/ Return(u) \/ Expire(u)
      PROVE  worker'[t] = worker[t]
  BY <1>2 DEF Take, BeginTurn, FailSetup, EndTurn, Post, Clear, Return, Expire, Moves, TypeOK
<1>3. ASSUME \/ UNCHANGED vars \/ SetStatus \/ Send \/ SendToGone
             \/ \E e \in Envelope : Drop(e) \/ Dispatch(e)
             \/ \E m \in Msg : Forget(m)
             \/ \E u \in Thread : Read(u)
             \/ \E m \in Msg, i \in Item : ItemStarted(m, i) \/ ItemCompleted(m, i)
      PROVE  worker' = worker
  BY <1>3 DEF vars, threadVars, SetStatus, Send, SendToGone, Drop, Forget, Dispatch, Read, Push,
              Emit, ItemStarted, ItemCompleted
<1>. QED
  BY <1>1, <1>2, <1>3 DEF Next, Loop, Work

\* A turn the server has been given stays given.
LEMMA BegunStays ==
  ASSUME TypeOK, [Next]_vars, ~Restart, NEW m \in Msg, Ordered(ThreadOf[m]),
         Begun(ThreadOf[m], m)
  PROVE  Begun(ThreadOf[m], m)'
<1>1. PICK t \in Thread : t = ThreadOf[m]
  BY ThreadType
<1>2. Elements(answered[t]) \subseteq Elements(answered[t])'
  <2>1. ASSUME NEW u \in Thread, Post(u)
        PROVE  Elements(answered[t]) \subseteq Elements(answered[t])'
    <3>1. PICK n : n = worker[t].msg
      OBVIOUS
    <3>2. CASE u # t
      BY <2>1, <3>2, PostLine
    <3>3. CASE u = t
      <4>1. answered'[t] = Append(answered[t], n) /\ n \in Msg /\ answered[t] \in Seq(Msg)
        BY <2>1, <3>1, <3>3, PostLine, PipelineType
      <4>2. Elements(Append(answered[t], n)) = Elements(answered[t]) \cup {n}
        BY <4>1, ElementsAppend
      <4>. QED
        BY <4>1, <4>2
    <3>. QED
      BY <3>2, <3>3
  <2>2. CASE Passing
    BY <2>2, Passed
  <2>3. ASSUME (\E e \in Envelope : Dispatch(e)) \/ SendToGone \/ \E u \in Thread : Return(u)
        PROVE  answered' = answered
    BY <2>3 DEF Dispatch, SendToGone, Return
  <2>. QED
    BY <2>1, <2>2, <2>3 DEF Next, Loop, Work, Passing
<1>3. CASE m \in Elements(answered[t])
  BY <1>1, <1>2, <1>3 DEF Begun
<1>4. CASE m = worker[t].msg /\ worker[t].pc # "setup"
  <2>1. worker[t].pc \in {"turn", "post", "clear"}
    BY <1>4, WorkerFields, NoneAssumption DEF Carries
  <2>2. CASE worker'[t] = worker[t]
    BY <1>1, <1>4, <2>2 DEF Begun
  <2>3. ASSUME NEW p \in {"post", "clear"}, Moves(t, p)
        PROVE  worker'[t].msg = m /\ worker'[t].pc # "setup"
    <3>1. p \in Carries /\ worker[t].pc \in Carries
      BY <2>1 DEF Carries
    <3>2. worker'[t] = [pc |-> p, msg |-> worker[t].msg]
      BY <2>3, <3>1, MovesType
    <3>. QED
      BY <1>4, <3>2
  <2>4. CASE EndTurn(t) \/ Post(t)
    <3>1. \E p \in {"post", "clear"} : Moves(t, p)
      BY <2>4 DEF EndTurn, Post
    <3>2. worker'[t].msg = m /\ worker'[t].pc # "setup"
      BY <2>3, <3>1
    <3>. QED
      BY <1>1, <3>2 DEF Begun
  <2>5. CASE Clear(t)
    <3>1. m \in Elements(answered[t])
      BY <1>1, <1>4, <2>5 DEF Clear, Ordered, Clearing
    <3>. QED
      BY <1>1, <1>2, <3>1 DEF Begun
  <2>6. ~(Take(t) \/ BeginTurn(t) \/ FailSetup(t) \/ Return(t) \/ Expire(t)) /\ worker[t].pc # "none"
    BY <2>1 DEF Take, BeginTurn, FailSetup, Return, Expire
  <2>. QED
    BY <2>2, <2>4, <2>5, <2>6, WorkerSteps
<1>. QED
  BY <1>1, <1>3, <1>4 DEF Begun

LEMMA BeginTurnPhases ==
  ASSUME TypeOK, Unbegun, NEW t \in Thread, BeginTurn(t), Ordered(t), Phases(t)
  PROVE  Phases(t)'
<1>1. PICK m : m = worker[t].msg
  OBVIOUS
<1>2. m \in Msg /\ ThreadOf[m] = t /\ m \notin Elements(answered[t])
  BY <1>1, WorkerMessage DEF BeginTurn, Carries
<1>3. /\ worker'[t] = [pc |-> "turn", msg |-> m] /\ stack'[t] = <<>>
      /\ UNCHANGED <<report, item>>
  BY <1>1, MovesType DEF BeginTurn, FreshStack, Carries, TypeOK
<1>4. \A i \in Item : item[m][i] \notin {"running", "done"}
  BY <1>1, <1>2 DEF BeginTurn, Unbegun, Begun
<1>5. Elements(<<>>) = {} /\ \A i : i \notin 1..Len(<<>>)
  BY DEF Elements
<1>6. Stacked(t)' /\ OnStack(t)'
  BY <1>3, <1>4, <1>5 DEF Stacked, OnStack
<1>7. Reporting(t)' /\ Current(t)'
  BY <1>3, <1>5 DEF Phases, Reporting, Current, Frame, State
<1>. QED
  BY <1>6, <1>7 DEF Phases

LEMMA ReturnPhases ==
  ASSUME TypeOK, NEW t \in Thread, Return(t), NEW u \in Thread, Ordered(u), Phases(u)
  PROVE  Phases(u)'
<1>1. \A m \in Msg, i \in Item :
        item'[m][i] = item[m][i] \/ (ThreadOf[m] = t /\ item'[m][i] \in {"none", "closed"})
  BY AfterType DEF Return
<1>2. worker'[u] = worker[u] \/ worker'[u].pc # "turn"
  BY ReturnLine
<1>3. CASE u # t \/ report[t].pc # "push"
  <2>1. report'[u] = report[u]
    BY <1>3 DEF Return, TypeOK
  <2>2. stack'[u] = stack[u] \/ (stack'[u] = <<>> /\ worker'[u].pc # "turn")
    <3>1. worker'[t].pc # "turn"
      BY ReturnLine
    <3>. QED
      BY <3>1 DEF Return, TypeOK
  <2>. QED
    BY <1>1, <1>2, <2>1, <2>2, PhasesKept
<1>4. CASE u = t /\ report[t].pc = "push"
  <2>1. /\ report[t].msg \in Msg /\ ThreadOf[report[t].msg] = t /\ Frame(t, report[t].frame)
        /\ State(report[t].frame) \notin {"new", "done"}
    <3>1. report[t] # NoReport
      BY <1>4 DEF NoReport
    <3>. QED
      BY <1>4, <3>1, ReportFields DEF Phases, Reporting
  <2>2. PICK m, f : m = report[t].msg /\ f = report[t].frame
    OBVIOUS
  <2>3. report'[t] = [pc |-> "emit", msg |-> m, frame |-> f]
    <3>1. [report[t] EXCEPT !.pc = "emit"] = [pc |-> "emit", msg |-> m, frame |-> f]
      BY <1>4, <2>2, ReportFields
    <3>. QED
      BY <1>4, <3>1 DEF Return, TypeOK
  <2>4. stack'[t] = <<>> /\ worker'[t].pc = "none"
    <3>1. worker'[t].pc = "none"
      BY ReturnLine
    <3>2. stack'[t] = <<>>
      BY DEF Return, TypeOK
    <3>. QED
      BY <3>1, <3>2
  <2>5. Elements(<<>>) = {} /\ \A i : i \notin 1..Len(<<>>)
    BY DEF Elements
  <2>6. Stacked(t)' /\ OnStack(t)'
    BY <2>4, <2>5 DEF Stacked, OnStack
  <2>7. f \in Msg \X Item /\ f # Idle
    BY <2>1, <2>2, NoneAssumption DEF Frame, Idle
  <2>8. item'[f[1]][f[2]] # "done"
    BY <1>1, <2>1, <2>2, <2>7 DEF State
  <2>9. Reporting(t)' /\ Current(t)'
    BY <2>1, <2>2, <2>3, <2>7, <2>8 DEF Reporting, Current, Frame
  <2>. QED
    BY <1>4, <2>6, <2>9 DEF Phases
<1>. QED
  BY <1>3, <1>4

LEMMA PushPhases ==
  ASSUME TypeOK, NEW t \in Thread, Push(t), Ordered(t), Phases(t)
  PROVE  Phases(t)'
<1>1. PICK m, f, s : m = report[t].msg /\ f = report[t].frame /\ s = stack[t]
  OBVIOUS
<1>2. /\ m \in Msg /\ ThreadOf[m] = t /\ Frame(t, f) /\ f \notin Elements(s)
      /\ State(f) \notin {"new", "done"}
  <2>1. report[t].pc = "push" /\ report[t] # NoReport
    BY DEF Push, NoReport
  <2>. QED
    BY <1>1, <2>1, ReportFields DEF Phases, Reporting
<1>3. report'[t] = [pc |-> "emit", msg |-> m, frame |-> f]
  <2>1. [report[t] EXCEPT !.pc = "emit"] = [pc |-> "emit", msg |-> m, frame |-> f]
    BY <1>1, ReportFields DEF Push
  <2>. QED
    BY <2>1 DEF Push, TypeOK
<1>4. f \in Msg \X Item /\ f # Idle /\ s \in Seq(Msg \X Item)
  BY <1>1, <1>2, NoneAssumption DEF Frame, Idle, TypeOK
<1>5. PICK s2 : s2 = Append(s, f)
  OBVIOUS
<1>6. stack'[t] = s2 /\ UNCHANGED <<worker, item>>
  BY <1>1, <1>5 DEF Push, TypeOK, threadVars
<1>7. Elements(s2) = Elements(s) \cup {f}
  BY <1>4, <1>5, ElementsAppend
<1>8. \A a, b \in 1..Len(s2) : s2[a] = s2[b] => a = b
  <2>1. /\ Len(s2) = Len(s) + 1 /\ Len(s) \in Nat /\ s2[Len(s) + 1] = f
        /\ \A i \in 1..Len(s) : s2[i] = s[i]
    BY <1>4, <1>5, StackAppended
  <2>2. \A a \in 1..Len(s2) : a \in 1..Len(s) \/ a = Len(s) + 1
    BY <2>1
  <2>3. \A a \in 1..Len(s) : s[a] # f
    BY <1>2 DEF Elements
  <2>4. \A a, b \in 1..Len(s) : s[a] = s[b] => a = b
    BY <1>1 DEF Phases, Stacked
  <2>. QED
    BY <2>1, <2>2, <2>3, <2>4
<1>9. \A g \in Elements(s2) : Frame(t, g) /\ State(g) # "new"
  BY <1>1, <1>2, <1>7 DEF Phases, Stacked
<1>10. Stacked(t)'
  BY <1>6, <1>8, <1>9 DEF Stacked, Frame, State
<1>11. Reporting(t)' /\ Current(t)'
  BY <1>2, <1>3, <1>4, <1>6 DEF Reporting, Current, Frame, State
<1>12. worker[t].pc = "turn" =>
         /\ \A g \in Elements(s2) : State(g) # "done"
         /\ \A i \in Item : item[worker[t].msg][i] = "running" => <<worker[t].msg, i>> \in Elements(s2)
  BY <1>1, <1>2, <1>7 DEF Phases, OnStack
<1>13. OnStack(t)'
  BY <1>6, <1>12 DEF OnStack, State
<1>. QED
  BY <1>10, <1>11, <1>13 DEF Phases

LEMMA StartedPhases ==
  ASSUME TypeOK, NEW m \in Msg, NEW i \in Item, ItemStarted(m, i),
         Ordered(ThreadOf[m]), Phases(ThreadOf[m])
  PROVE  Phases(ThreadOf[m])'
<1>1. PICK t \in Thread : t = ThreadOf[m]
  BY ThreadType
<1>2. /\ report[t] = NoReport /\ item[m][i] = "new" /\ item'[m][i] = "running"
      /\ \A n \in Msg, j \in Item : n # m \/ j # i => item'[n][j] = item[n][j]
      /\ UNCHANGED <<worker, stack>>
  BY <1>1, ItemSet DEF ItemStarted, Notify, Ignores, threadVars
<1>3. PICK s, f : s = stack[t] /\ f = <<m, i>>
  OBVIOUS
<1>4. \A g \in Elements(s) : Frame(t, g) /\ State(g) # "new"
  BY <1>1, <1>3 DEF Phases, Stacked
<1>5. f \notin Elements(s) /\ Frame(t, f) /\ f # Idle
  BY <1>1, <1>2, <1>3, <1>4, NoneAssumption DEF Frame, State, Idle
<1>6. ASSUME NEW g, g \in Elements(s)
      PROVE  State(g)' = State(g)
  <2>1. g # f /\ g \in Msg \X Item
    BY <1>4, <1>5, <1>6 DEF Frame
  <2>2. g[1] # m \/ g[2] # i
    BY <1>3, <2>1
  <2>. QED
    BY <1>2, <2>1, <2>2 DEF State
<1>7. Stacked(t)'
  BY <1>1, <1>2, <1>3, <1>4, <1>6 DEF Phases, Stacked, Frame
<1>8. CASE Callback(t) = None /\ report' = report
  <2>1. worker[t].pc # "turn"
    BY <1>8, WorkerFields DEF Callback, Carries
  <2>2. OnStack(t)' /\ Reporting(t)' /\ Current(t)'
    BY <1>2, <1>8, <2>1 DEF OnStack, Reporting, Current, NoReport
  <2>. QED
    BY <1>1, <1>7, <2>2 DEF Phases
<1>9. CASE Callback(t) # None /\ Reports(t, "push", <<m, i>>)
  <2>1. worker[t].pc = "turn" /\ worker[t].msg \in Msg /\ ThreadOf[worker[t].msg] = t
        /\ Callback(t) = worker[t].msg
    BY <1>1, <1>9, WorkerMessage DEF Callback, Carries
  <2>2. report'[t] = [pc |-> "push", msg |-> worker[t].msg, frame |-> f]
    BY <1>3, <1>9, <2>1 DEF Reports, TypeOK
  <2>3. Reporting(t)' /\ Current(t)'
    BY <1>2, <1>3, <1>5, <2>1, <2>2 DEF Reporting, Current, Frame, State, NoReport
  <2>4. \A g \in Elements(s) : State(g)' # "done"
    BY <1>1, <1>3, <1>6, <2>1 DEF Phases, OnStack
  <2>5. ASSUME NEW j \in Item, item'[worker[t].msg][j] = "running"
        PROVE  <<worker[t].msg, j>> \in Elements(s) \/ f = <<worker[t].msg, j>>
    <3>1. CASE worker[t].msg = m /\ j = i
      BY <1>3, <3>1
    <3>2. CASE worker[t].msg # m \/ j # i
      <4>1. item[worker[t].msg][j] = "running"
        BY <1>2, <2>1, <2>5, <3>2
      <4>. QED
        BY <1>1, <1>2, <1>3, <2>1, <4>1 DEF Phases, OnStack, NoReport
    <3>. QED
      BY <3>1, <3>2
  <2>6. OnStack(t)'
    BY <1>2, <1>3, <2>2, <2>4, <2>5 DEF OnStack
  <2>. QED
    BY <1>1, <1>7, <2>3, <2>6 DEF Phases
<1>. QED
  BY <1>1, <1>8, <1>9 DEF ItemStarted, Ignores

LEMMA CompletedPhases ==
  ASSUME TypeOK, NEW m \in Msg, NEW i \in Item, ItemCompleted(m, i),
         Ordered(ThreadOf[m]), Phases(ThreadOf[m])
  PROVE  Phases(ThreadOf[m])'
<1>1. PICK t \in Thread : t = ThreadOf[m]
  BY ThreadType
<1>2. /\ report[t] = NoReport /\ item[m][i] = "running" /\ item'[m][i] = "done"
      /\ \A n \in Msg, j \in Item : n # m \/ j # i => item'[n][j] = item[n][j]
      /\ UNCHANGED worker
  BY <1>1, ItemSet DEF ItemCompleted, Notify, threadVars
<1>3. PICK s, f : s = stack[t] /\ f = <<m, i>>
  OBVIOUS
<1>4. /\ s \in Seq(Msg \X Item) /\ f \in Msg \X Item
      /\ \A a, b \in 1..Len(s) : s[a] = s[b] => a = b
      /\ \A g \in Elements(s) : Frame(t, g) /\ State(g) # "new"
  BY <1>1, <1>3 DEF Phases, Stacked, TypeOK
<1>5. ASSUME NEW g \in Msg \X Item, g # f
      PROVE  State(g)' = State(g)
  <2>1. g[1] # m \/ g[2] # i
    BY <1>3, <1>5
  <2>. QED
    BY <1>2, <2>1 DEF State
<1>6. State(f)' = "done"
  BY <1>2, <1>3 DEF State
<1>7. \A g \in Elements(s) : g \in Msg \X Item /\ Frame(t, g) /\ State(g)' # "new"
  BY <1>4, <1>5, <1>6 DEF Frame
<1>8. CASE Callback(t) = None /\ UNCHANGED <<report, stack>>
  <2>1. worker[t].pc # "turn"
    BY <1>8, WorkerFields DEF Callback, Carries
  <2>2. OnStack(t)' /\ Reporting(t)' /\ Current(t)'
    BY <1>2, <1>8, <2>1 DEF OnStack, Reporting, Current, NoReport
  <2>3. Stacked(t)'
    BY <1>3, <1>4, <1>7, <1>8 DEF Stacked, Frame
  <2>. QED
    BY <1>1, <2>2, <2>3 DEF Phases
<1>9. CASE /\ Callback(t) # None
           /\ stack' = [stack EXCEPT ![t] = Without(s, f)]
           /\ Reports(t, "emit", IF Without(s, f) = <<>> THEN Idle
                                 ELSE Without(s, f)[Len(Without(s, f))])
  <2>1. PICK w, left, top : /\ w = worker[t].msg /\ left = Without(s, f)
                            /\ top = IF left = <<>> THEN Idle ELSE left[Len(left)]
    OBVIOUS
  <2>2. worker[t].pc = "turn" /\ w \in Msg /\ ThreadOf[w] = t /\ Callback(t) = w
    BY <1>1, <1>9, <2>1, WorkerMessage DEF Callback, Carries
  <2>3. report'[t] = [pc |-> "emit", msg |-> w, frame |-> top] /\ stack'[t] = left
    BY <1>9, <2>1, <2>2 DEF Reports, TypeOK
  <2>4. /\ left \in Seq(Msg \X Item)
        /\ \A a, b \in 1..Len(left) : left[a] = left[b] => a = b
        /\ \A a \in 1..Len(left) : left[a] # f /\ \E b \in 1..Len(s) : s[b] = left[a]
        /\ \A b \in 1..Len(s) : s[b] # f => \E a \in 1..Len(left) : left[a] = s[b]
    BY <1>4, <2>1, RemovedIsRemoved, SMTT(60)
  <2>5. Elements(left) = Elements(s) \ {f}
    BY <2>4 DEF Elements
  <2>6. \A g \in Elements(left) : Frame(t, g) /\ State(g)' \notin {"new", "done"}
    <3>1. \A g \in Elements(s) : State(g) # "done"
      BY <1>1, <1>3, <2>2 DEF Phases, OnStack
    <3>. QED
      BY <1>5, <1>7, <2>5, <3>1
  <2>7. \A j \in Item : item'[w][j] = "running" => <<w, j>> \in Elements(left)
    <3>1. ASSUME NEW j \in Item, item'[w][j] = "running" PROVE <<w, j>> \in Elements(left)
      <4>1. w # m \/ j # i
        BY <1>2, <3>1
      <4>2. item[w][j] = "running" /\ <<w, j>> # f
        BY <1>2, <1>3, <2>2, <3>1, <4>1
      <4>3. <<w, j>> \in Elements(s)
        BY <1>1, <1>2, <1>3, <2>1, <2>2, <4>2 DEF Phases, OnStack, NoReport
      <4>. QED
        BY <2>5, <4>2, <4>3
    <3>. QED
      BY <3>1
  <2>8. Stacked(t)'
    BY <2>3, <2>4, <2>6 DEF Stacked, Frame
  <2>9. OnStack(t)'
    BY <1>2, <2>1, <2>3, <2>6, <2>7 DEF OnStack
  <2>10. left # <<>> => top \in Elements(left)
    BY <2>1, <2>4 DEF Elements
  <2>11. left = <<>> => Elements(left) = {}
    BY ElementsOne
  <2>12. top # Idle => Frame(t, top) /\ State(top)' # "done"
    BY <2>1, <2>6, <2>10
  <2>13. top = Idle => \A j \in Item : item'[w][j] # "running"
    <3>1. left # <<>> => top # Idle
      BY <2>6, <2>10, NoneAssumption DEF Frame, Idle
    <3>. QED
      BY <2>7, <2>11, <3>1
  <2>14. Reporting(t)' /\ Current(t)'
    BY <2>2, <2>3, <2>12, <2>13 DEF Reporting, Current, Frame, State
  <2>. QED
    BY <1>1, <2>8, <2>9, <2>14 DEF Phases
<1>. QED
  BY <1>1, <1>3, <1>8, <1>9 DEF ItemCompleted, Ignores

LEMMA RestartPhases ==
  ASSUME TypeOK, Restart, NEW t \in Thread
  PROVE  Phases(t)'
<1>1. stack'[t] = <<>> /\ report'[t] = NoReport /\ worker'[t].pc = "none"
  BY DEF Restart, NoWorker
<1>2. Elements(<<>>) = {} /\ \A i : i \notin 1..Len(<<>>)
  BY DEF Elements
<1>. QED
  BY <1>1, <1>2 DEF Phases, Stacked, Reporting, OnStack, Current, NoReport

LEMMA PhasesStep ==
  ASSUME TypeOK, Unbegun, [Next]_vars, \A t \in Thread : Ordered(t) /\ Phases(t), NEW u \in Thread
  PROVE  Phases(u)'
<1>1. ASSUME UNCHANGED phaseVars, worker'[u] = worker[u] \/ worker'[u].pc # "turn"
      PROVE  Phases(u)'
  BY <1>1, PhasesKept DEF phaseVars
<1>2. ASSUME \/ UNCHANGED vars \/ SetStatus \/ Lookup \/ Send \/ SendToGone
             \/ \E e \in Envelope : Drop(e) \/ Dispatch(e)
             \/ \E m \in Msg : Forget(m)
             \/ \E t \in Thread : Take(t) \/ Post(t) \/ Clear(t) \/ Expire(t)
      PROVE  Phases(u)'
  <2>1. UNCHANGED phaseVars
    BY <1>2 DEF vars, SetStatus, Lookup, Send, SendToGone, Drop, Forget, Dispatch, Take, Post,
           Clear, Expire
  <2>2. ASSUME NEW t \in Thread, Take(t) \/ Post(t) \/ Clear(t) \/ Expire(t)
        PROVE  worker'[u] = worker[u] \/ worker'[u].pc # "turn"
    <3>1. CASE Take(t) \/ Clear(t)
      BY <3>1 DEF Take, Clear, AtRest, TypeOK
    <3>2. CASE Post(t)
      <4>1. worker'[t] = [pc |-> "clear", msg |-> worker[t].msg]
        BY <3>2, PostLine
      <4>2. u # t => worker'[u] = worker[u]
        BY <3>2, PostLine
      <4>. QED
        BY <4>1, <4>2
    <3>3. CASE Expire(t)
      <4>1. Moves(t, "leaving") /\ "leaving" \in Empty /\ worker[t].pc \in Empty
        BY <3>3 DEF Expire, Empty
      <4>2. /\ worker'[t] = [pc |-> "leaving", msg |-> worker[t].msg]
            /\ \A v \in Thread \ {t} : worker'[v] = worker[v]
        BY <4>1, MovesType
      <4>. QED
        BY <4>2
    <3>. QED
      BY <2>2, <3>1, <3>2, <3>3
  <2>3. CASE Lookup
    <3>1. ~Restart
      BY <2>3, LoopFields DEF Lookup, Restart, AtRest
    <3>2. worker'[u] = worker[u] \/ worker'[u].pc = "fresh"
      <4>1. ThreadOf[loop.msg] \in Thread
        BY <2>3, LoopHolds, ThreadType DEF Lookup
      <4>2. worker'[u] = worker[u] \/ worker'[u] = [worker[u] EXCEPT !.pc = "fresh"]
        BY <2>3, <4>1 DEF Lookup, TypeOK
      <4>3. "fresh" \in Carries \cup Empty
        BY DEF Empty
      <4>4. [worker[u] EXCEPT !.pc = "fresh"] = [pc |-> "fresh", msg |-> worker[u].msg]
        BY <4>3, WorkerFields
      <4>. QED
        BY <4>2, <4>4
    <3>. QED
      BY <1>1, <2>1, <3>2
  <2>4. ASSUME \/ UNCHANGED vars \/ SetStatus \/ Send \/ SendToGone
               \/ \E e \in Envelope : Drop(e) \/ Dispatch(e)
               \/ \E m \in Msg : Forget(m)
        PROVE  worker' = worker
    BY <2>4 DEF vars, threadVars, SetStatus, Send, SendToGone, Drop, Forget, Dispatch
  <2>. QED
    BY <1>1, <1>2, <2>1, <2>2, <2>3, <2>4
<1>3. ASSUME NEW t \in Thread, BeginTurn(t) \/ EndTurn(t), u # t PROVE Phases(u)'
  <2>1. /\ stack'[u] = stack[u] /\ worker'[u] = worker[u] /\ UNCHANGED <<report, item>>
    BY <1>3 DEF BeginTurn, EndTurn, FreshStack, Moves, TypeOK
  <2>. QED
    BY <2>1, PhasesKept
<1>4. ASSUME EndTurn(u) PROVE Phases(u)'
  <2>1. Moves(u, "post") /\ "post" \in Carries /\ worker[u].pc \in Carries
    BY <1>4 DEF EndTurn, Carries
  <2>2. worker'[u].pc = "post"
    <3>1. worker'[u] = [pc |-> "post", msg |-> worker[u].msg]
      BY <2>1, MovesType
    <3>. QED
      BY <3>1
  <2>3. stack'[u] = <<>> /\ UNCHANGED <<report, item>>
    BY <1>4 DEF EndTurn, FreshStack, TypeOK
  <2>. QED
    BY <2>2, <2>3, PhasesKept
<1>5. ASSUME NEW t \in Thread, FailSetup(t) PROVE Phases(u)'
  <2>1. Moves(t, "post") /\ "post" \in Carries /\ worker[t].pc \in Carries
    BY <1>5 DEF FailSetup, Carries
  <2>2. worker'[u] = worker[u] \/ worker'[u].pc = "post"
    <3>1. /\ worker'[t] = [pc |-> "post", msg |-> worker[t].msg]
          /\ \A v \in Thread \ {t} : worker'[v] = worker[v]
      BY <2>1, MovesType
    <3>. QED
      BY <3>1
  <2>3. worker[t].msg \in Msg
    BY <2>1, WorkerMessage
  <2>4. \A m \in Msg, i \in Item : item'[m][i] = item[m][i] \/ item'[m][i] \in {"none", "closed"}
    BY <1>5, <2>3, AfterType, SMTT(60) DEF FailSetup, TypeOK
  <2>5. UNCHANGED <<stack, report>>
    BY <1>5 DEF FailSetup
  <2>. QED
    BY <2>2, <2>4, <2>5, PhasesKept
<1>6. ASSUME NEW t \in Thread, Push(t), u # t PROVE Phases(u)'
  <2>1. stack'[u] = stack[u] /\ report'[u] = report[u] /\ UNCHANGED <<worker, item>>
    BY <1>6 DEF Push, TypeOK, threadVars
  <2>. QED
    BY <2>1, PhasesKept
<1>7. ASSUME NEW t \in Thread, Emit(t) PROVE Phases(u)'
  <2>1. report'[u] = report[u] \/ (report'[u] = NoReport /\ report[u].pc # "push")
    BY <1>7 DEF Emit, TypeOK
  <2>2. UNCHANGED <<worker, item, stack>>
    BY <1>7 DEF Emit, threadVars
  <2>. QED
    BY <2>1, <2>2, PhasesKept
<1>8. ASSUME NEW m \in Msg, NEW i \in Item, ItemStarted(m, i) \/ ItemCompleted(m, i), u # ThreadOf[m]
      PROVE  Phases(u)'
  <2>1. PICK t \in Thread : t = ThreadOf[m]
    BY ThreadType
  <2>2. stack'[u] = stack[u] /\ report'[u] = report[u] /\ UNCHANGED worker
    BY <1>8, <2>1 DEF ItemStarted, ItemCompleted, Ignores, Reports, TypeOK, threadVars
  <2>3. \A n \in Msg, j \in Item : ThreadOf[n] = u => item'[n][j] = item[n][j]
    <3>1. PICK st \in {"running", "done"} : item' = [item EXCEPT ![m][i] = st]
      BY <1>8 DEF ItemStarted, ItemCompleted, Notify
    <3>. QED
      BY <1>8, <3>1, ItemSet
  <2>. QED
    BY <2>2, <2>3, PhasesKept
<1>9. ASSUME NEW m \in Msg, NEW i \in Item, ItemStarted(m, i) \/ ItemCompleted(m, i), u = ThreadOf[m]
      PROVE  Phases(u)'
  BY <1>9, StartedPhases, CompletedPhases
<1>10. ASSUME NEW t \in Thread, Work(t) \/ Expire(t) \/ Read(t) PROVE Phases(u)'
  BY <1>2, <1>3, <1>4, <1>5, <1>6, <1>7, <1>10, BeginTurnPhases, PushPhases, ReturnPhases
  DEF Work, Read
<1>. QED
  BY <1>2, <1>8, <1>9, <1>10, RestartPhases DEF Next, Loop

LEMMA UnbegunStep ==
  ASSUME TypeOK, Unbegun, [Next]_vars, \A t \in Thread : Ordered(t)
  PROVE  Unbegun'
<1>1. CASE Restart
  BY <1>1, AfterType DEF Restart, Unbegun
<1>2. CASE ~Restart
  <2>. SUFFICES ASSUME NEW m \in Msg, ~Begun(ThreadOf[m], m)', NEW i \in Item
                PROVE  item'[m][i] \notin {"running", "done"}
    BY DEF Unbegun
  <2>1. ~Begun(ThreadOf[m], m) /\ item[m][i] \notin {"running", "done"}
    BY <1>2, BegunStays, ThreadType DEF Unbegun
  <2>2. ASSUME NEW n \in Msg, NEW j \in Item, ItemStarted(n, j) \/ ItemCompleted(n, j)
        PROVE  item'[m][i] = item[m][i]
    <3>1. PICK st \in {"running", "done"} : item' = [item EXCEPT ![n][j] = st]
      BY <2>2 DEF ItemStarted, ItemCompleted, Notify
    <3>2. n # m
      BY <2>1, <2>2 DEF ItemStarted, ItemCompleted, Notify
    <3>. QED
      BY <3>1, <3>2, ItemSet
  <2>3. ASSUME NEW t \in Thread, FailSetup(t) PROVE item'[m][i] = item[m][i] \/ item'[m][i] \in {"none", "closed"}
    <3>1. worker[t].msg \in Msg
      BY <2>3, WorkerMessage DEF FailSetup, Carries
    <3>. QED
      BY <2>3, <3>1, AfterType DEF FailSetup, TypeOK
  <2>4. ASSUME NEW t \in Thread, Return(t) PROVE item'[m][i] = item[m][i] \/ item'[m][i] \in {"none", "closed"}
    BY <2>4, AfterType DEF Return
  <2>5. ASSUME \/ UNCHANGED vars \/ Loop
               \/ \E e \in Envelope : Drop(e) \/ Dispatch(e)
               \/ \E k \in Msg : Forget(k)
               \/ \E t \in Thread : \/ Take(t) \/ BeginTurn(t) \/ EndTurn(t) \/ Post(t)
                                    \/ Clear(t) \/ Expire(t) \/ Read(t)
        PROVE  item' = item
    BY <2>5 DEF vars, phaseVars, Loop, SetStatus, Lookup, Send, SendToGone, Drop, Forget, Dispatch,
                Take, BeginTurn, EndTurn, Post, Clear, Expire, Read, Push, Emit
  <2>. QED
    BY <1>2, <2>1, <2>2, <2>3, <2>4, <2>5 DEF Next, Work
<1>. QED
  BY <1>1, <1>2

-----------------------------------------------------------------------------
(* The theorems.                                                             *)

LEMMA Initial == Init => IInv
<1>. SUFFICES ASSUME Init PROVE IInv
  OBVIOUS
<1>1. TypeOK
  BY InitType
<1>2. ASSUME NEW t \in Thread
      PROVE  /\ worker[t] = NoWorker /\ queue[t] = <<>> /\ stack[t] = <<>> /\ report[t] = NoReport
             /\ accepted[t] = <<>> /\ answered[t] = <<>> /\ status[t] = "none"
             /\ InLoop(t) = <<>> /\ InWorker(t) = <<>> /\ ~Clearing(t)
  BY <1>2 DEF Init, InLoop, InWorker, AtRest, NoWorker, Clearing
<1>3. ASSUME NEW t \in Thread PROVE Ordered(t) /\ Again(t) /\ Phases(t)
  <2>1. <<>> \o <<>> = <<>>
    BY <<>> \in Seq({}), ConcatEmptySeq
  <2>2. Pipeline(t) = <<>>
    BY <1>2, <2>1 DEF Pipeline
  <2>3. Ordered(t)
    BY <1>2, <2>2, NothingOrdered
  <2>4. Elements(<<>>) = {} /\ \A i : i \notin 1..Len(<<>>)
    BY DEF Elements
  <2>5. Phases(t)
    BY <1>2, <2>4 DEF Phases, Stacked, Reporting, OnStack, Current, NoReport, NoWorker
  <2>6. Again(t)
    BY <1>2, <2>4 DEF Again
  <2>. QED
    BY <2>3, <2>5, <2>6
<1>4. Unbegun
  <2>1. PICK w \in Workloads :
          item = [m \in Msg |-> [i \in Item |-> IF <<m, i>> \in w.items THEN "new" ELSE "none"]]
    BY DEF Init
  <2>. QED
    BY <2>1 DEF Unbegun
<1>. QED
  BY <1>1, <1>2, <1>3, <1>4 DEF IInv, Init, StatusIsOwed, Alone

LEMMA Step == IInv /\ [Next]_vars => IInv'
<1>. SUFFICES ASSUME IInv, [Next]_vars PROVE IInv'
  OBVIOUS
<1>1. TypeOK /\ StatusIsOwed /\ Alone /\ Unbegun
      /\ \A t \in Thread : Ordered(t) /\ Again(t) /\ Phases(t)
  BY DEF IInv
<1>2. TypeOK'
  BY <1>1, TypeStep DEF Phases
<1>3. \A t \in Thread : Ordered(t)' /\ Again(t)' /\ Phases(t)'
  BY <1>1, OrderedStep, AgainStep, PhasesStep
<1>4. StatusIsOwed' /\ Alone' /\ Unbegun'
  BY <1>1, StatusStep, UnbegunStep
<1>. QED
  BY <1>2, <1>3, <1>4 DEF IInv

\* The invariant holds in every state: for any number of messages, threads and
\* restarts, however often Slack repeats itself.
THEOREM Invariance == Spec => []IInv
BY Initial, Step, PTL DEF Spec

\* Types, and no worker's channel ever holds more than its capacity.
THEOREM TypeCorrect == Spec => []TypeOK
<1>1. IInv => TypeOK
  BY DEF IInv
<1>. QED
  BY <1>1, Invariance, PTL

\* Every message dispatched by the process is in one place, answered at most
\* once, behind the earlier ones of its thread, and lost only as the history
\* says, with any capacity of the channels (slackapp/app.go, scheduler.go). Slack's
\* repeats, however many, are dispatched as a message again only when the one
\* before has been forgotten (deduper.seen in filter.go).
THEOREM AnswersInOrder == Spec => []AnsweredOnceInOrder
<1>1. ASSUME IInv, NEW t \in Thread, NEW i \in 1..Len(accepted[t]), NEW j \in 1..Len(accepted[t]),
             i < j, SourceOf[accepted[t][i]] = SourceOf[accepted[t][j]]
      PROVE  accepted[t][i] # accepted[t][j] /\ accepted[t][i] \in forgotten
  <2>1. accepted[t][i] \in forgotten
    BY <1>1 DEF IInv, Again
  <2>2. i # j
    BY <1>1
  <2>. QED
    BY <1>1, <2>1, <2>2 DEF IInv, Ordered
<1>2. IInv => AnsweredOnceInOrder
  BY <1>1 DEF IInv, Ordered, Line, AnsweredOnceInOrder
<1>. QED
  BY <1>2, Invariance, PTL

\* A thread that shows a live status has a message to answer, or its worker is
\* about to clear it (the done callback in slackapp/app.go, assistant_live.go).
THEOREM StatusHasAnOwner == Spec => []StatusIsOwed
<1>1. IInv => StatusIsOwed
  BY DEF IInv
<1>. QED
  BY <1>1, Invariance, PTL

\* A message alone in its thread shows a status until it has been answered,
\* whatever phases are reported meanwhile.
THEOREM StatusUntilAnswer == Spec => []AloneShowsStatus
<1>1. IInv => AloneShowsStatus
  BY DEF IInv, Alone, First, AloneShowsStatus
<1>. QED
  BY <1>1, Invariance, PTL

\* The reader names no tool that has completed, and goes idle only when no item
\* of the turn runs, though the stack changes hands under it
\* (codexPhaseItemStarted and codexPhaseItemCompleted in codex_appserver.go).
THEOREM PhasesAreCurrent == Spec => []PhaseIsCurrent
<1>1. IInv => PhaseIsCurrent
  BY DEF IInv, Phases, Current, PhaseIsCurrent
<1>. QED
  BY <1>1, Invariance, PTL
=============================================================================
