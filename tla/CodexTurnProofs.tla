-------------------------- MODULE CodexTurnProofs --------------------------
(* Theorems about CodexTurn, for every number of turns.                      *)
EXTENDS CodexTurn, TLAPS

-----------------------------------------------------------------------------
(* The inductive invariant.                                                  *)

Status == {"completed", "failed", "aborted"}
Event == {"bubble", "final", "turnerror"} \cup Status

\* From the beginning of a request to its result; before it is written; and,
\* for a turn, from the reset of the texts on.
Active == {"arm", "reset", "register", "send", "response", "wait", "check"}
Early == {"arm", "reset", "register", "send"}
Reset == {"register", "send", "response", "wait", "check"}

InStdin(i) == \E a \in 1..Len(stdin) : stdin[a] = i

InStdout(i) == \E a \in 1..Len(stdout) : stdout[a].call = i

Unread(x) == \E a \in 1..Len(stdout) : stdout[a] = Line(x.phase, x.turn)

Answer(p, t) == [phase |-> p, turn |-> t]

\* The worker: a channel is registered, and a turn waited for, only by the
\* request being made; what has no result yet has none.
Requests ==
  /\ pending # {} => pc \in {"send", "response"}
  /\ chan # "empty" => pending = {}
  /\ turnWait # None =>
       n \in Turn /\ pc \in {"reset", "register", "send", "response", "wait"}
  /\ turnWait = None => finished = "empty"
  /\ pc \in Active => n \in Call
  /\ pc \in {"arm", "reset", "wait", "check"} => n \in Turn
  /\ result \in [Call -> Text \cup {NoText, None, Failed}]
  /\ \A i \in Call : i > n \/ (i = n /\ pc \in Active) => ~IsText(i)

\* Of a request that has not been written there is no trace.
Unsent(i) == i > n \/ (i = n /\ pc \in Early)

Untouched ==
  \A i \in Call : Unsent(i) =>
    /\ ~InStdin(i) /\ serving # i /\ ~InStdout(i)
    /\ i \in Turn => sent[i] = {}

\* The server gets a request once, says each thing once, and nothing about a
\* turn behind its end.
Pipes ==
  /\ \A a, b \in 1..Len(stdin) : stdin[a] = stdin[b] => a = b
  /\ \A i \in Call : InStdin(i) =>
       /\ serving # i /\ ~InStdout(i)
       /\ i \in Turn => sent[i] = {}
  /\ \A t \in Turn : sent[t] \cap Status # {} => serving # t
  /\ \A a \in 1..Len(stdout) : stdout[a].kind \in Event =>
       stdout[a].call \in Turn /\ stdout[a].kind \in sent[stdout[a].call]
  /\ \A a, b \in 1..Len(stdout) : a < b /\ stdout[a].kind \in Event =>
       /\ stdout[a] # stdout[b]
       /\ stdout[a].kind \in Status => stdout[b].call # stdout[a].call

\* A text that has been read was sent, and is not in the pipe any more; from
\* the reset on what is recorded has not been told before.
Told ==
  /\ output = NoText \/ output.phase = "final"
  /\ fallback = NoText \/ fallback.phase = "bubble"
  /\ \A x \in Text :
       x \in {output, fallback} \/ (\E t \in Call : IsText(t) /\ result[t] = x) =>
         x.phase \in sent[x.turn] /\ ~Unread(x)
  /\ pc \in Reset => \A t \in Call : IsText(t) /\ result[t] # NoText =>
       result[t] \notin {output, fallback}
  /\ \A t \in Call : IsText(t) => t \in Turn

\* A clean turn has the pipes to itself, and misses nothing of what it is sent;
\* if it counts as done, it has its final answer, or has failed, or the server
\* has completed it and everything is read.
Done ==
  \/ output = Answer("final", n)
  \/ turnErr
  \/ "completed" \in sent[n] /\ stdout = <<>>

Alone ==
  pc \in Active /\ n \in clean =>
    /\ \A a \in 1..Len(stdout) : stdout[a].call = n
    /\ \A a \in 1..Len(stdin) : stdin[a] = n
    /\ serving \in {None, n}
    /\ pc \in Early => /\ stdin = <<>> /\ stdout = <<>> /\ serving = None
                       /\ signal = None /\ finished = "empty"
    /\ pc \in Reset =>
         /\ output \in {NoText, Answer("final", n)}
         /\ fallback \in {NoText, Answer("bubble", n)}
         /\ "final" \in sent[n] => output # NoText \/ Unread(Answer("final", n))
         /\ "bubble" \in sent[n] => fallback # NoText \/ Unread(Answer("bubble", n))
    /\ signal = "done" \/ finished = "done" \/ pc = "check" => Done

IInv ==
  /\ TypeOK
  /\ Requests /\ Untouched /\ Pipes /\ Told /\ Alone
  /\ ToldOnce /\ CleanTurnIsExact

-----------------------------------------------------------------------------
(* Sequences, requests, and what is in the pipes.                            *)

LEMMA SeqWiden ==
  ASSUME NEW S, NEW T, S \subseteq T, NEW s \in Seq(S)
  PROVE  s \in Seq(T)
<1>1. Len(s) \in Nat /\ \A i \in 1..Len(s) : s[i] \in T
  OBVIOUS
<1>2. s = [i \in 1..Len(s) |-> s[i]]
  OBVIOUS
<1>. QED
  BY <1>1, <1>2

LEMMA Appended ==
  ASSUME NEW S, NEW s \in Seq(S), NEW e \in S
  PROVE  /\ Append(s, e) \in Seq(S) /\ Len(Append(s, e)) = Len(s) + 1 /\ Len(s) \in Nat
         /\ Append(s, e)[Len(s) + 1] = e
         /\ \A i \in 1..Len(s) : Append(s, e)[i] = s[i]
OBVIOUS

LEMMA HeadTail ==
  ASSUME NEW S, NEW s \in Seq(S), s # <<>>
  PROVE  /\ Head(s) \in S /\ Tail(s) \in Seq(S) /\ Head(s) = s[1]
         /\ Len(Tail(s)) = Len(s) - 1 /\ Len(s) \in Nat \ {0}
         /\ \A i \in 1..Len(Tail(s)) : Tail(s)[i] = s[i + 1] /\ i + 1 \in 1..Len(s)
         /\ \A i \in 2..Len(s) : s[i] = Tail(s)[i - 1] /\ i - 1 \in 1..Len(Tail(s))
OBVIOUS

LineType(m) ==
  [kind : {"reply", "error", "bubble", "final", "turnerror", "completed", "failed", "aborted"},
   call : 1..m]

LEMMA Typed ==
  ASSUME TypeOK
  PROVE  /\ n \in Nat /\ n <= MaxCall /\ MaxCall \in Nat /\ MaxCall > 2
         /\ \A i \in 1..n : i \in Call
         /\ \A i \in 3..n : i \in Turn
         /\ \A i \in Call : i \in Nat /\ i > 0
         /\ \A t \in Turn : t \in Call /\ t \in Nat /\ t > 2
         /\ \A i \in Call : i \in Turn <=> i \notin Setup
         /\ clean \subseteq 3..n
         /\ stdin \in Seq(1..n) /\ stdout \in Seq(LineType(n))
         /\ sent \in [Turn -> SUBSET Event]
         /\ \A t \in Turn : sent[t] \subseteq Event
         /\ None \notin Call
<1>1. MaxCall \in Nat /\ MaxCall > 2 /\ n \in 0..MaxCall
  BY BoundAssumption DEF TypeOK
<1>2. /\ \A i \in 1..n : i \in Call
      /\ \A i \in 3..n : i \in Turn
      /\ \A i \in Call : i \in Nat /\ i > 0
      /\ \A t \in Turn : t \in Call /\ t \in Nat /\ t > 2
      /\ \A i \in Call : i \in Turn <=> i \notin Setup
      /\ None \notin Call
  BY <1>1, ValueAssumption DEF Call, Turn, Setup
<1>3. /\ clean \subseteq 3..n /\ stdin \in Seq(1..n) /\ stdout \in Seq(LineType(n))
      /\ sent \in [Turn -> SUBSET Event]
  <2>1. sent \in [Turn -> SUBSET Event]
    <3>1. Event = {"bubble", "final", "turnerror", "completed", "failed", "aborted"}
      BY DEF Event, Status
    <3>. QED
      BY <3>1 DEF TypeOK
  <2>. QED
    BY <2>1 DEF TypeOK, LineType
<1>. QED
  BY <1>1, <1>2, <1>3

\* Nothing in the pipes moves.
LEMMA Still ==
  ASSUME UNCHANGED <<stdin, stdout>>
  PROVE  /\ \A i : (InStdin(i)' <=> InStdin(i)) /\ (InStdout(i)' <=> InStdout(i))
         /\ \A x : Unread(x)' <=> Unread(x)
BY DEF InStdin, InStdout, Unread

\* A text that was sent belongs to a turn that has been made.
LEMMA SentIsMade ==
  ASSUME IInv, NEW t \in Turn, sent[t] # {}
  PROVE  t <= n /\ ~InStdin(t) /\ (t = n => pc \notin Early)
<1>1. t \in Call /\ t \in Nat /\ n \in Nat
  BY Typed DEF IInv
<1>2. ~Unsent(t) /\ ~InStdin(t)
  BY <1>1 DEF IInv, Untouched, Pipes
<1>. QED
  BY <1>1, <1>2 DEF Unsent

\* A text recorded or told is of such a turn.
LEMMA TextIsSent ==
  ASSUME IInv, NEW x \in Text,
         x \in {output, fallback} \/ \E t \in Call : IsText(t) /\ result[t] = x
  PROVE  /\ x.phase \in {"final", "bubble"} /\ x.turn \in Turn /\ x = Answer(x.phase, x.turn)
         /\ x.phase \in sent[x.turn] /\ ~Unread(x) /\ x.turn <= n
<1>1. x.phase \in {"final", "bubble"} /\ x.turn \in Turn /\ x = Answer(x.phase, x.turn)
  BY DEF Text, Answer
<1>2. x.phase \in sent[x.turn] /\ ~Unread(x)
  BY DEF IInv, Told
<1>3. x.turn <= n
  BY <1>1, <1>2, SentIsMade
<1>. QED
  BY <1>1, <1>2, <1>3

LEMMA Answers ==
  /\ NoText \notin Text
  /\ \A p \in {"final", "bubble"}, t \in Turn :
       /\ Answer(p, t) \in Text /\ Answer(p, t) # NoText
       /\ Answer(p, t).phase = p /\ Answer(p, t).turn = t
  /\ \A x \in Text : x # NoText
<1>1. \A x \in Text : x.phase \in {"final", "bubble"}
  BY DEF Text
<1>2. NoText.phase = "none"
  BY DEF NoText
<1>. QED
  BY <1>1, <1>2 DEF Text, Answer

\* The pipes and what was sent stay as they are, and no request is begun.
LEMMA SamePipes ==
  ASSUME IInv, UNCHANGED <<n, stdin, stdout, serving, sent>>, pc \in Early \/ pc' \notin Early
  PROVE  Untouched' /\ Pipes'
<1>1. \A i : (InStdin(i)' <=> InStdin(i)) /\ (InStdout(i)' <=> InStdout(i))
  BY Still
<1>2. Untouched'
  BY <1>1 DEF IInv, Untouched, Unsent
<1>3. Pipes'
  BY <1>1 DEF IInv, Pipes
<1>. QED
  BY <1>2, <1>3


-----------------------------------------------------------------------------
(* The worker.                                                               *)

\* A step that leaves pipes, server and texts alone and tells no text: if a
\* clean turn is still being made, nothing about it is news.
LEMMA QuietIInv ==
  ASSUME IInv, TypeOK', Requests',
         UNCHANGED <<n, stdin, stdout, serving, sent, output, fallback, clean, turnErr>>,
         pc \in Early \/ pc' \notin Early,
         pc' \in Reset => pc \in Reset,
         pc' \in Active => pc \in Active,
         \A t \in Call : result'[t] = result[t] \/ ~IsText(t)',
         pc' \in Active /\ n \in clean =>
           /\ pc' \in Early => pc \in Early /\ signal' = None /\ finished' = "empty"
           /\ signal' = "done" \/ finished' = "done" \/ pc' = "check" =>
                signal = "done" \/ finished = "done" \/ pc = "check"
  PROVE  IInv'
<1>1. Untouched' /\ Pipes'
  BY SamePipes
<1>2. \A x : Unread(x)' <=> Unread(x)
  BY Still
<1>3. \A t \in Call : IsText(t)' => IsText(t) /\ result'[t] = result[t]
  BY DEF IsText
<1>4. Told'
  BY <1>2, <1>3 DEF IInv, Told
<1>5. Alone'
  BY <1>2 DEF IInv, Alone, Done
<1>6. ToldOnce'
  <2>. SUFFICES ASSUME NEW t \in Turn, NEW u \in Turn, IsText(t)', result'[t] # NoText
                PROVE  result'[t].turn <= t /\ (t # u => result'[u] # result'[t])
    BY DEF ToldOnce
  <2>1. t \in Call /\ u \in Call
    BY Typed DEF IInv
  <2>2. IsText(t) /\ result'[t] = result[t]
    BY <2>1, <1>3
  <2>3. result[t].turn <= t /\ (t # u => result[u] # result[t])
    BY <2>2 DEF IInv, ToldOnce
  <2>4. CASE IsText(u)'
    BY <2>1, <2>2, <2>3, <2>4, <1>3
  <2>5. CASE ~IsText(u)'
    BY <2>2, <2>3, <2>5 DEF IsText
  <2>. QED
    BY <2>4, <2>5
<1>7. CleanTurnIsExact'
  <2>. SUFFICES ASSUME NEW t \in clean, IsText(t)'
                PROVE  /\ result'[t] = OwnText(t)'
                       /\ "final" \in sent'[t] \/ "completed" \in sent'[t]
    BY DEF CleanTurnIsExact
  <2>1. t \in Call
    BY Typed DEF IInv
  <2>. QED
    BY <2>1, <1>3 DEF IInv, CleanTurnIsExact, OwnText
<1>. QED
  BY <1>1, <1>4, <1>5, <1>6, <1>7 DEF IInv

LEMMA ArmIInv == ASSUME IInv, Arm PROVE IInv'
<1>1. /\ pc = "arm" /\ pc' = "reset" /\ turnWait' = n /\ finished' = "empty"
      /\ UNCHANGED <<n, pending, chan, turnSeen, turnErr, output, fallback, result, reader,
                     signal, agent, serving, sent, stdin, stdout, clean>>
  BY DEF Arm, callVars, textVars, readerVars, agentVars
<1>2. TypeOK'
  BY <1>1 DEF IInv, TypeOK, IsText
<1>3. Requests'
  BY <1>1 DEF IInv, Requests, IsText, Active
<1>4. pc' \in Active /\ n \in clean => signal = None
  BY <1>1 DEF IInv, Alone, Active, Early
<1>. QED
  BY <1>1, <1>2, <1>3, <1>4, QuietIInv DEF Active, Early, Reset

LEMMA RegisterIInv == ASSUME IInv, Register PROVE IInv'
<1>1. /\ pc = "register" /\ pc' = "send" /\ pending' = pending \cup {n} /\ chan' = "empty"
      /\ UNCHANGED <<n, turnSeen, turnErr, turnWait, finished, output, fallback, result,
                     reader, signal, agent, serving, sent, stdin, stdout, clean>>
  BY DEF Register, turnVars, textVars, readerVars, agentVars
<1>2. TypeOK'
  BY <1>1 DEF IInv, TypeOK, IsText
<1>3. Requests'
  BY <1>1 DEF IInv, Requests, IsText, Active
<1>4. pc' \in Active /\ n \in clean => signal = None /\ finished = "empty"
  BY <1>1 DEF IInv, Alone, Active, Early
<1>. QED
  BY <1>1, <1>2, <1>3, <1>4, QuietIInv DEF Active, Early, Reset

LEMMA ResponseOKIInv == ASSUME IInv, ResponseOK PROVE IInv'
<1>1. /\ pc = "response" /\ chan = "reply" /\ chan' = "empty"
      /\ pc' = IF n \in Setup THEN "ready" ELSE "wait"
      /\ UNCHANGED <<n, pending, turnSeen, turnErr, turnWait, finished, output, fallback,
                     result, reader, signal, agent, serving, sent, stdin, stdout, clean>>
  BY DEF ResponseOK, turnVars, textVars, readerVars, agentVars
<1>2. TypeOK'
  BY <1>1 DEF IInv, TypeOK, IsText
<1>3. n \in Call /\ (n \in Setup \/ n \in Turn)
  BY <1>1, Typed DEF IInv, Requests, Active
<1>4. n \in Setup => turnWait = None
  BY <1>3, Typed DEF IInv, Requests
<1>5. Requests'
  BY <1>1, <1>3, <1>4 DEF IInv, Requests, IsText, Active
<1>. QED
  BY <1>1, <1>2, <1>5, QuietIInv DEF Active, Early, Reset

LEMMA BeginCloseIInv == ASSUME IInv, BeginClose PROVE IInv'
<1>1. /\ pc = "ready" /\ pc' = "close"
      /\ UNCHANGED <<n, pending, chan, turnSeen, turnErr, turnWait, finished, output, fallback,
                     result, reader, signal, agent, serving, sent, stdin, stdout, clean>>
  BY DEF BeginClose, callVars, turnVars, textVars, readerVars, agentVars
<1>2. TypeOK'
  BY <1>1 DEF IInv, TypeOK, IsText
<1>3. Requests'
  BY <1>1 DEF IInv, Requests, IsText, Active
<1>. QED
  BY <1>1, <1>2, <1>3, QuietIInv DEF Active, Early, Reset

LEMMA JoinIInv == ASSUME IInv, Join PROVE IInv'
<1>1. /\ pc = "join" /\ pc' = "closed"
      /\ UNCHANGED <<n, pending, chan, turnSeen, turnErr, turnWait, finished, output, fallback,
                     result, reader, signal, agent, serving, sent, stdin, stdout, clean>>
  BY DEF Join, callVars, turnVars, textVars, readerVars, agentVars
<1>2. TypeOK'
  BY <1>1 DEF IInv, TypeOK, IsText
<1>3. Requests'
  BY <1>1 DEF IInv, Requests, IsText, Active
<1>. QED
  BY <1>1, <1>2, <1>3, QuietIInv DEF Active, Early, Reset

\* The ways a request fails: nothing is registered any more.
LEMMA FailIInv ==
  ASSUME IInv, Fail, pc \in {"send", "response", "wait"},
         pending' = {}, chan' \in {chan, "empty"},
         UNCHANGED <<n, turnSeen, turnErr, output, fallback, reader, signal, agent, serving,
                     sent, stdin, stdout, clean>>
  PROVE  IInv'
<1>1. /\ result' = [result EXCEPT ![n] = Failed]
      /\ turnWait' = None /\ finished' = "empty" /\ pc' \in {"close", "ready"}
  BY DEF Fail
<1>2. n \in Call /\ result \in [Call -> Text \cup {NoText, None, Failed}]
  BY DEF IInv, Requests, Active
<1>3. /\ result' \in [Call -> Text \cup {NoText, None, Failed}]
      /\ \A t \in Call : result'[t] = result[t] \/ (t = n /\ result'[t] = Failed)
  BY <1>1, <1>2
<1>4. \A t \in Call : IsText(t)' => IsText(t) /\ result'[t] = result[t]
  BY <1>3 DEF IsText
<1>5. TypeOK'
  <2>1. \A t \in Turn : IsText(t)' => result'[t] \in Text \cup {NoText}
    BY <1>4, Typed DEF IInv, TypeOK
  <2>. QED
    BY <1>1, <2>1 DEF IInv, TypeOK
<1>6. Requests'
  <2>1. \A i \in Call : i > n \/ (i = n /\ pc' \in Active) => ~IsText(i)'
    BY <1>1, <1>4 DEF IInv, Requests, Active
  <2>. QED
    BY <1>1, <1>3, <2>1 DEF IInv, Requests, Active
<1>. QED
  BY <1>1, <1>4, <1>5, <1>6, QuietIInv DEF Active, Early, Reset

LEMMA ResponseFailIInv == ASSUME IInv, ResponseFail PROVE IInv'
<1>1. /\ Fail /\ pc = "response" /\ chan # "empty" /\ chan' = "empty"
      /\ UNCHANGED <<n, pending, turnSeen, turnErr, output, fallback, reader, signal, agent,
                     serving, sent, stdin, stdout, clean>>
  BY DEF ResponseFail, textVars, readerVars, agentVars
<1>2. pending' = {}
  BY <1>1 DEF IInv, Requests
<1>. QED
  BY <1>1, <1>2, FailIInv

LEMMA TimeoutIInv == ASSUME IInv, Timeout PROVE IInv'
<1>1. /\ Fail /\ pc \in {"response", "wait"} /\ pending' = pending \ {n}
      /\ UNCHANGED <<n, chan, turnSeen, turnErr, output, fallback, reader, signal, agent,
                     serving, sent, stdin, stdout, clean>>
  BY DEF Timeout, textVars, readerVars, agentVars
<1>2. pending' = {}
  BY <1>1 DEF IInv, TypeOK
<1>. QED
  BY <1>1, <1>2, FailIInv

LEMMA FinishIInv == ASSUME IInv, Finish PROVE IInv'
<1>1. /\ pc = "wait" /\ finished \in {"done", "aborted"}
      /\ UNCHANGED <<n, pending, chan, turnSeen, turnErr, output, fallback, reader, signal,
                     agent, serving, sent, stdin, stdout, clean>>
      /\ \/ Fail
         \/ /\ finished = "done" /\ turnWait' = None /\ finished' = "empty"
            /\ pc' = "check" /\ result' = result
  BY DEF Finish, callVars, textVars, readerVars, agentVars
<1>2. CASE Fail
  <2>1. pending' = {}
    BY <1>1 DEF IInv, Requests
  <2>. QED
    BY <1>1, <1>2, <2>1, FailIInv
<1>3. CASE /\ finished = "done" /\ turnWait' = None /\ finished' = "empty"
           /\ pc' = "check" /\ result' = result
  <2>1. TypeOK'
    BY <1>1, <1>3 DEF IInv, TypeOK, IsText
  <2>2. Requests'
    BY <1>1, <1>3 DEF IInv, Requests, IsText, Active
  <2>. QED
    BY <1>1, <1>3, <2>1, <2>2, QuietIInv DEF Active, Early, Reset
<1>. QED
  BY <1>1, <1>2, <1>3

LEMMA ResetTextIInv == ASSUME IInv, ResetText PROVE IInv'
<1>1. /\ pc = "reset" /\ pc' = "register" /\ output' = NoText /\ fallback' = NoText
      /\ UNCHANGED <<n, pending, chan, turnSeen, turnErr, turnWait, finished, result, reader,
                     signal, agent, serving, sent, stdin, stdout, clean>>
  BY DEF ResetText, callVars, turnVars, readerVars, agentVars
<1>2. TypeOK'
  BY <1>1 DEF IInv, TypeOK, IsText
<1>3. Requests'
  BY <1>1 DEF IInv, Requests, IsText, Active
<1>4. Untouched' /\ Pipes'
  BY <1>1, SamePipes DEF Early
<1>5. \A x : Unread(x)' <=> Unread(x)
  BY <1>1, Still
<1>6. \A t : IsText(t)' <=> IsText(t)
  BY <1>1 DEF IsText
<1>7. Told'
  BY <1>1, <1>5, <1>6, Answers DEF IInv, Told
<1>8. n \in Call /\ n \in Turn /\ sent[n] = {}
  BY <1>1 DEF IInv, Requests, Untouched, Unsent, Active, Early
<1>9. Alone'
  BY <1>1, <1>8, ValueAssumption DEF IInv, Alone, Active, Early, Reset
<1>10. ToldOnce' /\ CleanTurnIsExact'
  BY <1>1, <1>6 DEF IInv, ToldOnce, CleanTurnIsExact, OwnText
<1>. QED
  BY <1>2, <1>3, <1>4, <1>7, <1>9, <1>10 DEF IInv

LEMMA SendRequestIInv == ASSUME IInv, SendRequest PROVE IInv'
<1>1. /\ pc = "send"
      /\ UNCHANGED <<n, chan, turnSeen, turnErr, output, fallback, reader, signal, agent,
                     serving, sent, stdout, clean>>
      /\ \/ /\ stdin' = Append(stdin, n) /\ pc' = "response"
            /\ UNCHANGED <<pending, turnWait, finished, result>>
         \/ pending' = pending \ {n} /\ Fail /\ stdin' = stdin
  BY DEF SendRequest, textVars, readerVars, agentVars
<1>2. CASE pending' = pending \ {n} /\ Fail /\ stdin' = stdin
  <2>1. pending' = {}
    BY <1>2 DEF IInv, TypeOK
  <2>. QED
    BY <1>1, <1>2, <2>1, FailIInv
<1>3. CASE /\ stdin' = Append(stdin, n) /\ pc' = "response"
           /\ UNCHANGED <<pending, turnWait, finished, result>>
  <2>1. n \in Call /\ n \in 1..n /\ n \in Nat /\ stdin \in Seq(1..n)
    BY <1>1, Typed DEF IInv, Requests, Active
  <2>2. /\ stdin' \in Seq(1..n) /\ Len(stdin') = Len(stdin) + 1 /\ Len(stdin) \in Nat
        /\ stdin'[Len(stdin) + 1] = n
        /\ \A a \in 1..Len(stdin) : stdin'[a] = stdin[a]
    BY <2>1, <1>3, Appended
  <2>3. /\ \A i : InStdin(i)' => InStdin(i) \/ i = n
        /\ \A i : InStdout(i)' <=> InStdout(i)
        /\ \A x : Unread(x)' <=> Unread(x)
    BY <2>2, <1>1 DEF InStdin, InStdout, Unread
  <2>4. /\ ~InStdin(n) /\ serving # n /\ ~InStdout(n)
        /\ n \in Turn => sent[n] = {}
    BY <1>1, <2>1 DEF IInv, Untouched, Unsent, Early
  <2>5. \A t : IsText(t)' <=> IsText(t)
    BY <1>3 DEF IsText
  <2>6. TypeOK'
    BY <1>1, <1>3, <2>2, <2>5 DEF IInv, TypeOK
  <2>7. Requests'
    BY <1>1, <1>3, <2>5 DEF IInv, Requests, Active
  <2>8. Untouched'
    <3>. SUFFICES ASSUME NEW i \in Call, i > n
                  PROVE  /\ ~InStdin(i)' /\ serving' # i /\ ~InStdout(i)'
                         /\ i \in Turn => sent'[i] = {}
      BY <1>1, <1>3 DEF Untouched, Unsent, Early
    <3>1. i # n /\ Unsent(i)
      BY <2>1 DEF Unsent
    <3>. QED
      BY <3>1, <1>1, <2>3 DEF IInv, Untouched
  <2>9. Pipes'
    <3>1. \A a \in 1..Len(stdin) : stdin[a] # n
      BY <2>4 DEF InStdin
    <3>2. \A a, b \in 1..Len(stdin') : stdin'[a] = stdin'[b] => a = b
      <4>. SUFFICES ASSUME NEW a \in 1..Len(stdin'), NEW b \in 1..Len(stdin'),
                           stdin'[a] = stdin'[b]
                    PROVE  a = b
        OBVIOUS
      <4>1. /\ a \in 1..Len(stdin) \/ a = Len(stdin) + 1
            /\ b \in 1..Len(stdin) \/ b = Len(stdin) + 1
        BY <2>2
      <4>. QED
        BY <4>1, <2>2, <3>1 DEF IInv, Pipes
    <3>3. \A i \in Call : InStdin(i)' =>
            /\ serving' # i /\ ~InStdout(i)'
            /\ i \in Turn => sent'[i] = {}
      BY <1>1, <2>3, <2>4 DEF IInv, Pipes
    <3>. QED
      BY <1>1, <3>2, <3>3 DEF IInv, Pipes
  <2>10. Told'
    BY <1>1, <1>3, <2>3, <2>5 DEF IInv, Told, Reset
  <2>11. Alone'
    <3>. SUFFICES ASSUME n \in clean
                  PROVE  Alone'
      BY <1>1 DEF Alone
    <3>1. /\ stdin = <<>> /\ stdout = <<>> /\ serving = None
          /\ signal = None /\ finished = "empty"
          /\ output \in {NoText, Answer("final", n)}
          /\ fallback \in {NoText, Answer("bubble", n)}
      BY <1>1 DEF IInv, Alone, Active, Early, Reset
    <3>2. \A a \in 1..Len(stdin') : stdin'[a] = n
      BY <3>1, <2>2
    <3>3. n \in Turn /\ sent[n] = {}
      BY <2>4, Typed DEF IInv
    <3>4. \A a \in 1..Len(stdout) : FALSE
      BY <3>1
    <3>. QED
      BY <1>1, <1>3, <3>1, <3>2, <3>3, <3>4, ValueAssumption DEF Alone, Active, Early, Reset
  <2>12. ToldOnce' /\ CleanTurnIsExact'
    BY <1>1, <1>3, <2>5 DEF IInv, ToldOnce, CleanTurnIsExact, OwnText
  <2>. QED
    BY <2>6, <2>7, <2>8, <2>9, <2>10, <2>11, <2>12 DEF IInv
<1>. QED
  BY <1>1, <1>2, <1>3

\* A new request: the pipes stay, and nothing of it is in them.
LEMMA BeginIInv ==
  ASSUME IInv, pc = "ready", n' = n + 1, n' \in Call,
         (pc' = "arm" /\ n' \in Turn) \/ (pc' = "register" /\ n' \in Setup),
         turnSeen' \in BOOLEAN, turnErr' \in BOOLEAN,
         clean' = clean \/ (clean' = clean \cup {n'} /\ Quiet /\ n' \in Turn),
         UNCHANGED <<pending, chan, turnWait, finished, output, fallback, result, reader,
                     signal, agent, serving, sent, stdin, stdout>>
  PROVE  IInv'
<1>1. /\ n \in Nat /\ n <= MaxCall /\ MaxCall \in Nat /\ n' \in Nat /\ n' <= MaxCall
      /\ \A i \in Call : i \in Nat
      /\ clean \subseteq 3..n /\ stdin \in Seq(1..n) /\ stdout \in Seq(LineType(n))
      /\ \A t \in Turn : t \in Call /\ t > 2
      /\ n' \in Turn => n' > 2
    BY Typed DEF IInv, Call
<1>2. pending = {} /\ turnWait = None /\ finished = "empty"
  BY DEF IInv, Requests
<1>3. \A t : IsText(t)' <=> IsText(t)
  BY DEF IsText
<1>4. TypeOK'
  <2>1. stdin' \in Seq(1..n')
    BY <1>1, SeqWiden
  <2>2. stdout' \in Seq(LineType(n'))
    <3>1. LineType(n) \subseteq LineType(n')
      BY <1>1 DEF LineType
    <3>. QED
      BY <1>1, <3>1, SeqWiden
  <2>3. clean' \subseteq 3..n'
    <3>1. 3..n \subseteq 3..n'
      BY <1>1
    <3>2. n' \in Turn => n' \in 3..n'
      BY <1>1
    <3>. QED
      BY <1>1, <3>1, <3>2
  <2>4. serving' \in (3..n') \cup {None}
    BY <1>1 DEF IInv, TypeOK
  <2>5. n' \in 0..MaxCall /\ pending' \subseteq {n'} /\ turnWait' \in {None, n'}
    BY <1>1, <1>2
  <2>. QED
    BY <2>1, <2>2, <2>3, <2>4, <2>5, <1>3 DEF IInv, TypeOK, LineType
<1>5. \A i \in Call : Unsent(i)' => Unsent(i) /\ i > n
  BY <1>1 DEF Unsent
<1>6. Requests'
  <2>1. \A i \in Call : i > n' \/ (i = n' /\ pc' \in Active) => ~IsText(i)'
    <3>. SUFFICES ASSUME NEW i \in Call, i >= n'
                  PROVE  ~IsText(i)
      BY <1>1, <1>3
    <3>1. i > n
      BY <1>1
    <3>. QED
      BY <3>1 DEF IInv, Requests
  <2>. QED
    BY <1>1, <1>2, <2>1 DEF IInv, Requests
<1>7. Untouched'
  <2>1. \A i : (InStdin(i)' <=> InStdin(i)) /\ (InStdout(i)' <=> InStdout(i))
    BY Still
  <2>. QED
    BY <2>1, <1>5 DEF IInv, Untouched
<1>8. Pipes'
  <2>1. \A i : (InStdin(i)' <=> InStdin(i)) /\ (InStdout(i)' <=> InStdout(i))
    BY Still
  <2>. QED
    BY <2>1 DEF IInv, Pipes
<1>9. Told'
  <2>1. \A x : Unread(x)' <=> Unread(x)
    BY Still
  <2>2. pc' \in Reset => \A t \in Call : ~IsText(t)
    <3>. SUFFICES ASSUME n' \in Setup, NEW t \in Call, IsText(t)
                  PROVE  FALSE
      BY DEF Reset
    <3>1. t \in Turn
      BY DEF IInv, Told
    <3>2. t > n
      BY <3>1, <1>1 DEF Setup
    <3>. QED
      BY <3>2 DEF IInv, Requests
  <2>. QED
    BY <2>1, <2>2, <1>3 DEF IInv, Told
<1>10. Alone'
  <2>. SUFFICES ASSUME n' \in clean'
                PROVE  Alone'
    BY DEF Alone
  <2>1. n' \notin clean
    BY <1>1
  <2>2. Quiet /\ n' \in Turn /\ pc' = "arm"
    <3>1. Quiet /\ n' \in Turn
      BY <2>1
    <3>. QED
      BY <3>1, Typed DEF IInv
  <2>3. \A a \in 1..Len(stdin') : FALSE
    BY <2>2 DEF Quiet
  <2>4. \A a \in 1..Len(stdout') : FALSE
    BY <2>2 DEF Quiet
  <2>. QED
    BY <2>2, <2>3, <2>4, <1>2, ValueAssumption DEF Quiet, Alone, Early, Reset
<1>11. ToldOnce'
  BY <1>3 DEF IInv, ToldOnce
<1>12. CleanTurnIsExact'
  <2>1. n' \in Call /\ ~IsText(n')
    BY <1>1 DEF IInv, Requests
  <2>. QED
    BY <2>1, <1>3 DEF IInv, CleanTurnIsExact, OwnText
<1>. QED
  BY <1>4, <1>6, <1>7, <1>8, <1>9, <1>10, <1>11, <1>12 DEF IInv

LEMMA BeginSetupIInv == ASSUME IInv, BeginSetup PROVE IInv'
<1>1. /\ pc = "ready" /\ n + 1 \in Setup /\ n' = n + 1 /\ pc' = "register"
      /\ UNCHANGED <<pending, chan, turnSeen, turnErr, turnWait, finished, output, fallback,
                     result, reader, signal, agent, serving, sent, stdin, stdout, clean>>
  BY DEF BeginSetup, callVars, turnVars, textVars, readerVars, agentVars
<1>2. n' \in Call
  BY <1>1, Typed DEF IInv, Call, Setup
<1>3. turnSeen' \in BOOLEAN /\ turnErr' \in BOOLEAN
  BY <1>1 DEF IInv, TypeOK
<1>. QED
  BY <1>1, <1>2, <1>3, BeginIInv

LEMMA BeginTurnIInv == ASSUME IInv, BeginTurn PROVE IInv'
<1>1. /\ pc = "ready" /\ n + 1 \in Turn /\ n' = n + 1 /\ pc' = "arm"
      /\ turnSeen' = FALSE /\ turnErr' = FALSE
      /\ clean' = clean \/ (clean' = clean \cup {n + 1} /\ Quiet)
      /\ UNCHANGED <<pending, chan, turnWait, finished, output, fallback, result, reader,
                     signal, agent, serving, sent, stdin, stdout>>
  BY DEF BeginTurn, callVars, textVars, readerVars, agentVars
<1>2. n' \in Call
  BY <1>1, Typed DEF IInv
<1>. QED
  BY <1>1, <1>2, BeginIInv

\* The text of the turn: the worker tells what is recorded, or a failure.
LEMMA TakeTextIInv == ASSUME IInv, TakeText PROVE IInv'
<1>1. /\ pc = "check" /\ pc' = "ready"
      /\ result' = [result EXCEPT ![n] = IF turnErr THEN Failed ELSE SlackFacingText]
      /\ UNCHANGED <<n, pending, chan, turnSeen, turnErr, turnWait, finished, output, fallback,
                     reader, signal, agent, serving, sent, stdin, stdout, clean>>
  BY DEF TakeText, callVars, turnVars, textVars, readerVars, agentVars
<1>2. /\ n \in Call /\ n \in Turn /\ n \in Nat
      /\ result \in [Call -> Text \cup {NoText, None, Failed}]
  BY <1>1, Typed DEF IInv, Requests, Active
<1>0. PICK m \in Turn : m = n
  BY <1>2
<1>3. /\ SlackFacingText \in {output, fallback}
      /\ SlackFacingText \in Text \cup {NoText}
  BY DEF SlackFacingText, IInv, TypeOK
<1>4. /\ result' \in [Call -> Text \cup {NoText, None, Failed}]
      /\ \A t \in Call : t # m => result'[t] = result[t]
      /\ result'[m] = IF turnErr THEN Failed ELSE SlackFacingText
  BY <1>0, <1>1, <1>2, <1>3
<1>5. /\ \A t \in Call : t # m => (IsText(t)' <=> IsText(t))
      /\ IsText(m)' => ~turnErr /\ result'[m] = SlackFacingText
  <2>1. CASE turnErr
    BY <1>4, <2>1 DEF IsText
  <2>2. CASE ~turnErr
    BY <1>4, <2>2 DEF IsText
  <2>. QED
    BY <2>1, <2>2
<1>6. TypeOK'
  <2>1. \A t \in Turn : IsText(t)' => result'[t] \in Text \cup {NoText}
    <3>. SUFFICES ASSUME NEW t \in Turn, IsText(t)'
                  PROVE  result'[t] \in Text \cup {NoText}
      OBVIOUS
    <3>1. t \in Call
      BY Typed DEF IInv
    <3>2. CASE t = m
      BY <3>2, <1>3, <1>5
    <3>3. CASE t # m
      BY <3>1, <3>3, <1>4, <1>5 DEF IInv, TypeOK
    <3>. QED
      BY <3>2, <3>3
  <2>. QED
    BY <1>1, <2>1 DEF IInv, TypeOK
<1>7. Requests'
  <2>1. \A i \in Call : i > n \/ (i = n /\ pc' \in Active) => ~IsText(i)'
    <3>. SUFFICES ASSUME NEW i \in Call, i > n
                  PROVE  ~IsText(i)'
      BY <1>1 DEF Active
    <3>. QED
      <4>1. i # m
        BY <1>0, <1>2
      <4>2. ~IsText(i)
        BY DEF IInv, Requests
      <4>. QED
        BY <4>1, <4>2, <1>5
  <2>. QED
    BY <1>1, <1>4, <2>1 DEF IInv, Requests, Active
<1>8. Untouched' /\ Pipes'
  BY <1>1, SamePipes DEF Early
<1>9. \A x : Unread(x)' <=> Unread(x)
  BY <1>1, Still
<1>10. Told'
  <2>1. \A x \in Text :
          x \in {output, fallback}' \/ (\E t \in Call : IsText(t)' /\ result'[t] = x) =>
            x \in {output, fallback} \/ \E t \in Call : IsText(t) /\ result[t] = x
    BY <1>1, <1>3, <1>4, <1>5
  <2>2. \A t \in Call : IsText(t)' => t \in Turn
    BY <1>0, <1>5 DEF IInv, Told
  <2>. QED
    BY <1>1, <1>9, <2>1, <2>2 DEF IInv, Told, Reset
<1>11. Alone'
  BY <1>1 DEF Alone, Active
<1>12. ToldOnce'
  <2>1. ASSUME IsText(m)', result'[m] # NoText
        PROVE  /\ result'[m].turn <= m
               /\ \A u \in Turn : u # m => result'[u] # result'[m]
    <3>1. result'[m] = SlackFacingText /\ SlackFacingText \in Text
      BY <2>1, <1>3, <1>5
    <3>2. SlackFacingText.turn <= m
      BY <1>0, <1>3, <3>1, TextIsSent
    <3>3. ASSUME NEW u \in Turn, u # m
          PROVE  result'[u] # result'[m]
      <4>1. u \in Call /\ result'[u] = result[u]
        BY <3>3, <1>4, Typed DEF IInv
      <4>2. CASE IsText(u)
        <5>1. result[u] # NoText => result[u] \notin {output, fallback}
          BY <1>1, <4>1, <4>2 DEF IInv, Told, Reset
        <5>. QED
          BY <5>1, <4>1, <3>1, <1>3, Answers
      <4>3. CASE ~IsText(u)
        BY <4>1, <4>3, <2>1 DEF IsText
      <4>. QED
        BY <4>2, <4>3
    <3>. QED
      BY <3>1, <3>2, <3>3
  <2>. SUFFICES ASSUME NEW t \in Turn, NEW u \in Turn, IsText(t)', result'[t] # NoText
                PROVE  result'[t].turn <= t /\ (t # u => result'[u] # result'[t])
    BY DEF ToldOnce
  <2>2. t \in Call /\ u \in Call
    BY Typed DEF IInv
  <2>3. CASE t = m
    BY <2>1, <2>3
  <2>4. CASE t # m /\ u # m
    BY <2>2, <2>4, <1>4, <1>5 DEF IInv, ToldOnce
  <2>5. CASE t # m /\ u = m
    <3>1. IsText(t) /\ result'[t] = result[t]
      BY <2>2, <2>5, <1>4, <1>5
    <3>2. result'[t].turn <= t
      BY <3>1 DEF IInv, ToldOnce
    <3>3. CASE IsText(m)'
      BY <2>1, <2>5, <3>2, <3>3
    <3>4. CASE ~IsText(m)'
      BY <2>5, <3>2, <3>4 DEF IsText
    <3>. QED
      BY <3>2, <3>3, <3>4
  <2>. QED
    BY <2>3, <2>4, <2>5
<1>13. CleanTurnIsExact'
  <2>. SUFFICES ASSUME NEW t \in clean, IsText(t)'
                PROVE  /\ result'[t] = OwnText(t)'
                       /\ "final" \in sent'[t] \/ "completed" \in sent'[t]
    BY <1>1 DEF CleanTurnIsExact
  <2>1. t \in Call /\ OwnText(t)' = OwnText(t) /\ sent' = sent
    BY <1>1, Typed DEF IInv, OwnText
  <2>2. CASE t # m
    BY <2>1, <2>2, <1>4, <1>5 DEF IInv, CleanTurnIsExact
  <2>3. CASE t = m
    <3>1. /\ output \in {NoText, Answer("final", n)}
          /\ fallback \in {NoText, Answer("bubble", n)}
          /\ "final" \in sent[n] => output # NoText \/ Unread(Answer("final", n))
          /\ "bubble" \in sent[n] => fallback # NoText \/ Unread(Answer("bubble", n))
          /\ Done
      BY <2>3, <1>0, <1>1 DEF IInv, Alone, Active, Reset
    <3>2. ~turnErr /\ result'[m] = SlackFacingText
      BY <2>3, <1>5
    <3>3. /\ output = Answer("final", n) => "final" \in sent[n]
          /\ fallback = Answer("bubble", n) => "bubble" \in sent[n]
      BY <1>2, Answers, TextIsSent
    <3>4. CASE output = Answer("final", n)
      BY <3>2, <3>3, <3>4, <2>1, <2>3, <1>0, <1>2, Answers DEF SlackFacingText, OwnText, Answer
    <3>5. CASE output = NoText
      <4>1. "completed" \in sent[n] /\ stdout = <<>>
        BY <3>1, <3>2, <3>5, <1>2, Answers DEF Done
      <4>2. \A x : ~Unread(x)
        BY <4>1 DEF Unread
      <4>3. "final" \notin sent[n] /\ ("bubble" \in sent[n] <=> fallback # NoText)
        BY <3>1, <3>3, <3>5, <4>2
      <4>. QED
        BY <3>1, <3>2, <3>5, <4>1, <4>3, <1>0, <2>1, <2>3 DEF SlackFacingText, OwnText, Answer
    <3>. QED
      BY <3>1, <3>4, <3>5
  <2>. QED
    BY <2>2, <2>3
<1>. QED
  BY <1>6, <1>7, <1>8, <1>10, <1>11, <1>12, <1>13 DEF IInv

\* The child dies, by itself or killed: the pipes lose what they lose.
LEMMA DeadIInv ==
  ASSUME IInv, Dead, stdout' \in {stdout, <<>>},
         (pc' = pc /\ stdout' = stdout) \/ (pc = "close" /\ pc' = "join"),
         UNCHANGED <<n, pending, chan, turnSeen, turnErr, turnWait, finished, output, fallback,
                     result, reader, signal, sent, clean>>
  PROVE  IInv'
<1>1. agent' = "dead" /\ serving' = None /\ stdin' = <<>>
  BY DEF Dead
<1>2. /\ \A a \in 1..Len(stdin') : FALSE
      /\ Len(stdin') = 0
      /\ stdout' = stdout \/ Len(stdout') = 0
  BY <1>1
<1>3. \A i : ~InStdin(i)' /\ (InStdout(i)' => InStdout(i))
  BY <1>2 DEF InStdin, InStdout
<1>4. \A x : Unread(x)' => Unread(x)
  BY <1>2 DEF Unread
<1>5. \A t : IsText(t)' <=> IsText(t)
  BY DEF IsText
<1>6. TypeOK'
  <2>1. stdin' \in Seq(1..n)
    BY <1>1
  <2>2. stdout' \in Seq(LineType(n))
    <3>1. stdout \in Seq(LineType(n))
      BY Typed DEF IInv
    <3>2. CASE stdout' = stdout
      BY <3>1, <3>2
    <3>3. CASE stdout' = <<>>
      BY <3>3
    <3>. QED
      BY <3>2, <3>3
  <2>. QED
    BY <1>1, <1>5, <2>1, <2>2, SMTT(60) DEF IInv, TypeOK, LineType
<1>7. Requests'
  BY <1>5 DEF IInv, Requests, Active
<1>8. Untouched'
  <2>1. \A i \in Call : Unsent(i)' => Unsent(i)
    BY DEF Unsent, Early
  <2>2. \A i \in Call : serving' # i
    BY <1>1, Typed DEF IInv
  <2>. QED
    BY <1>3, <2>1, <2>2 DEF IInv, Untouched
<1>9. Pipes'
  <2>1. \A t \in Turn : serving' # t
    BY <1>1, Typed DEF IInv
  <2>. QED
    BY <1>2, <1>3, <2>1 DEF IInv, Pipes
<1>10. Told'
  BY <1>4, <1>5 DEF IInv, Told, Reset
<1>11. Alone'
  <2>. SUFFICES ASSUME pc' = pc, stdout' = stdout
                PROVE  Alone'
    BY DEF Alone, Active
  <2>1. \A x : Unread(x)' <=> Unread(x)
    BY DEF Unread
  <2>. QED
    BY <1>1, <1>2, <2>1 DEF IInv, Alone, Done
<1>12. ToldOnce' /\ CleanTurnIsExact'
  BY <1>5 DEF IInv, ToldOnce, CleanTurnIsExact, OwnText
<1>. QED
  BY <1>6, <1>7, <1>8, <1>9, <1>10, <1>11, <1>12 DEF IInv

LEMMA KillIInv == ASSUME IInv, Kill PROVE IInv'
BY DeadIInv DEF Kill, callVars, turnVars, textVars, readerVars

LEMMA AgentDiesIInv == ASSUME IInv, AgentDies PROVE IInv'
BY DeadIInv DEF AgentDies, callVars, turnVars, textVars, readerVars

-----------------------------------------------------------------------------
(* The reader.                                                               *)

LEMMA LineRead ==
  ASSUME IInv, NEW kind, NEW i, NextLine(kind, i)
  PROVE  /\ i \in 1..n /\ signal = None
         /\ stdout' \in Seq(LineType(n))
         /\ \E a \in 1..Len(stdout) : stdout[a].call = i
         /\ \A a \in 1..Len(stdout') : \E b \in 1..Len(stdout) : stdout'[a] = stdout[b]
         /\ \A x : Unread(x)' => Unread(x)
         /\ \A x : Unread(x) => Unread(x)' \/ (x.phase = kind /\ x.turn = i)
         /\ kind \in Event => i \in Turn /\ kind \in sent[i]
         /\ kind \in {"final", "bubble"} =>
              Unread(Answer(kind, i)) /\ ~Unread(Answer(kind, i))'
         /\ kind \in Status => \A a \in 1..Len(stdout') : stdout'[a].call # i
         /\ UNCHANGED <<stdin, serving, sent>> =>
              /\ Pipes'
              /\ UNCHANGED <<n, pc>> => Untouched'
<1>1. /\ signal = None /\ stdout # <<>> /\ Head(stdout) = Line(kind, i)
      /\ stdout' = Tail(stdout) /\ stdout \in Seq(LineType(n))
  BY Typed DEF IInv, NextLine
<1>2. /\ stdout[1] = Line(kind, i) /\ stdout[1] \in LineType(n)
      /\ stdout' \in Seq(LineType(n))
      /\ Len(stdout') = Len(stdout) - 1 /\ Len(stdout) \in Nat \ {0}
      /\ \A a \in 1..Len(stdout') : stdout'[a] = stdout[a + 1] /\ a + 1 \in 1..Len(stdout)
      /\ \A a \in 2..Len(stdout) : stdout[a] = stdout'[a - 1] /\ a - 1 \in 1..Len(stdout')
  BY <1>1, HeadTail
<1>3. /\ stdout[1].kind = kind /\ stdout[1].call = i
      /\ i \in 1..n /\ 1 \in 1..Len(stdout)
  BY <1>2 DEF LineType, Line
<1>4. \E a \in 1..Len(stdout) : stdout[a].call = i
  BY <1>3
<1>5. \A a \in 1..Len(stdout') : \E b \in 1..Len(stdout) : stdout'[a] = stdout[b]
  BY <1>2
<1>6. \A x : Unread(x)' => Unread(x)
  BY <1>5 DEF Unread
<1>7. \A x : Unread(x) => Unread(x)' \/ (x.phase = kind /\ x.turn = i)
  <2>. SUFFICES ASSUME NEW x, NEW a \in 1..Len(stdout), stdout[a] = Line(x.phase, x.turn)
                PROVE  Unread(x)' \/ (x.phase = kind /\ x.turn = i)
    BY DEF Unread
  <2>1. CASE a = 1
    <3>1. Line(kind, i) = Line(x.phase, x.turn)
      BY <2>1, <1>2
    <3>. QED
      BY <3>1 DEF Line
  <2>2. CASE a \in 2..Len(stdout)
    BY <2>2, <1>2 DEF Unread
  <2>. QED
    BY <2>1, <2>2, <1>2
<1>8. kind \in Event => i \in Turn /\ kind \in sent[i]
  BY <1>3 DEF IInv, Pipes
<1>9. kind \in Event => \A a \in 1..Len(stdout') :
        /\ stdout'[a] # Line(kind, i)
        /\ kind \in Status => stdout'[a].call # i
  <2>. SUFFICES ASSUME kind \in Event, NEW a \in 1..Len(stdout')
                PROVE  /\ stdout'[a] # Line(kind, i)
                       /\ kind \in Status => stdout'[a].call # i
    OBVIOUS
  <2>1. a + 1 \in 1..Len(stdout) /\ 1 < a + 1 /\ stdout'[a] = stdout[a + 1]
    BY <1>2
  <2>. QED
    BY <2>1, <1>2, <1>3, SMTT(60) DEF IInv, Pipes
<1>10. kind \in {"final", "bubble"} =>
         Unread(Answer(kind, i)) /\ ~Unread(Answer(kind, i))'
  <2>. SUFFICES ASSUME kind \in {"final", "bubble"}
                PROVE  Unread(Answer(kind, i)) /\ ~Unread(Answer(kind, i))'
    OBVIOUS
  <2>1. kind \in Event /\ Answer(kind, i).phase = kind /\ Answer(kind, i).turn = i
    BY DEF Event, Answer
  <2>2. Unread(Answer(kind, i))
    BY <2>1, <1>2, <1>3 DEF Unread
  <2>3. ~Unread(Answer(kind, i))'
    BY <2>1, <1>9 DEF Unread
  <2>. QED
    BY <2>2, <2>3
<1>11. kind \in Status => \A a \in 1..Len(stdout') : stdout'[a].call # i
  BY <1>9 DEF Event
<1>12. ASSUME UNCHANGED <<stdin, serving, sent>>
       PROVE  Pipes' /\ (UNCHANGED <<n, pc>> => Untouched')
  <2>1. \A j : (InStdin(j)' <=> InStdin(j)) /\ (InStdout(j)' => InStdout(j))
    BY <1>5, <1>12 DEF InStdin, InStdout
  <2>2. UNCHANGED <<n, pc>> => Untouched'
    BY <2>1, <1>12 DEF IInv, Untouched, Unsent
  <2>3. \A a \in 1..Len(stdout') : stdout'[a].kind \in Event =>
          stdout'[a].call \in Turn /\ stdout'[a].kind \in sent[stdout'[a].call]
    BY <1>5 DEF IInv, Pipes
  <2>4. \A a, b \in 1..Len(stdout') : a < b /\ stdout'[a].kind \in Event =>
          /\ stdout'[a] # stdout'[b]
          /\ stdout'[a].kind \in Status => stdout'[b].call # stdout'[a].call
    <3>. SUFFICES ASSUME NEW a \in 1..Len(stdout'), NEW b \in 1..Len(stdout'),
                         a < b, stdout'[a].kind \in Event
                  PROVE  /\ stdout'[a] # stdout'[b]
                         /\ stdout'[a].kind \in Status => stdout'[b].call # stdout'[a].call
      OBVIOUS
    <3>1. /\ stdout'[a] = stdout[a + 1] /\ a + 1 \in 1..Len(stdout)
          /\ stdout'[b] = stdout[b + 1] /\ b + 1 \in 1..Len(stdout)
          /\ a + 1 < b + 1
      BY <1>2
    <3>. QED
      BY <3>1 DEF IInv, Pipes
  <2>5. Pipes'
    BY <2>1, <2>3, <2>4, <1>12 DEF IInv, Pipes
  <2>. QED
    BY <2>2, <2>5
<1>. QED
  BY <1>1, <1>2, <1>3, <1>4, <1>5, <1>6, <1>7, <1>8, <1>10, <1>11, <1>12

\* A line of a turn is read: its text is recorded, and it says the turn is over
\* only if the turn is.
LEMMA ReadIInv ==
  ASSUME IInv, TypeOK', Requests', NEW kind, NEW i, NextLine(kind, i),
         UNCHANGED <<pc, n, turnWait, finished, result, reader, agent, serving, sent,
                     stdin, clean>>,
         output' = IF kind = "final" THEN Answer("final", i) ELSE output,
         fallback' = IF kind = "bubble" THEN Answer("bubble", i) ELSE fallback,
         turnErr => turnErr',
         signal' = "done" => kind = "final" \/ kind = "completed" \/ turnErr'
  PROVE  IInv'
<1>1. /\ signal = None
      /\ \A x : Unread(x)' => Unread(x)
      /\ \A x : Unread(x) => Unread(x)' \/ (x.phase = kind /\ x.turn = i)
      /\ kind \in Event => i \in Turn /\ kind \in sent[i]
      /\ kind \in {"final", "bubble"} =>
           Unread(Answer(kind, i)) /\ ~Unread(Answer(kind, i))'
      /\ kind \in Status => \A a \in 1..Len(stdout') : stdout'[a].call # i
      /\ Pipes' /\ Untouched'
  BY LineRead
<1>2. \A t : IsText(t)' <=> IsText(t)
  BY DEF IsText
<1>3. Told'
  <2>1. kind \in {"final", "bubble"} =>
          /\ i \in Turn /\ kind \in sent[i] /\ Answer(kind, i) \in Text
          /\ Answer(kind, i).phase = kind /\ Answer(kind, i).turn = i
    BY <1>1, Answers DEF Event
  <2>2. output' = NoText \/ output'.phase = "final"
    BY <2>1 DEF IInv, Told
  <2>3. fallback' = NoText \/ fallback'.phase = "bubble"
    BY <2>1 DEF IInv, Told
  <2>4. ASSUME NEW x \in Text,
               x \in {output', fallback'} \/ \E t \in Call : IsText(t) /\ result[t] = x
        PROVE  x.phase \in sent[x.turn] /\ ~Unread(x)'
    <3>1. CASE x \in {output, fallback} \/ \E t \in Call : IsText(t) /\ result[t] = x
      BY <3>1, <1>1 DEF IInv, Told
    <3>2. CASE kind \in {"final", "bubble"} /\ x = Answer(kind, i)
      BY <3>2, <2>1, <1>1
    <3>. QED
      BY <2>4, <3>1, <3>2
  <2>5. ASSUME pc \in Reset, NEW t \in Call, IsText(t), result[t] # NoText
        PROVE  result[t] \notin {output', fallback'}
    <3>1. result[t] \notin {output, fallback}
      BY <2>5 DEF IInv, Told
    <3>2. ASSUME kind \in {"final", "bubble"}, result[t] = Answer(kind, i)
          PROVE  FALSE
      BY <2>5, <3>2, <2>1, <1>1 DEF IInv, Told
    <3>. QED
      BY <3>1, <3>2
  <2>. QED
    BY <1>2, <2>2, <2>3, <2>4, <2>5 DEF IInv, Told
<1>4. Alone'
  <2>. SUFFICES ASSUME pc \in Active, n \in clean
                PROVE  Alone'
    BY DEF Alone
  <2>1. i = n /\ stdout # <<>>
    <3>1. PICK a \in 1..Len(stdout) : stdout[a].call = i
      BY LineRead
    <3>. QED
      BY <3>1 DEF IInv, Alone
  <2>2. \A a \in 1..Len(stdout') : stdout'[a].call = n
    <3>1. \A a \in 1..Len(stdout') : \E b \in 1..Len(stdout) : stdout'[a] = stdout[b]
      BY LineRead
    <3>. QED
      BY <3>1 DEF IInv, Alone
  <2>3. pc \notin Early
    BY <2>1 DEF IInv, Alone
  <2>4. n \in Turn
    BY Typed DEF IInv
  <2>5. pc \in Reset =>
          /\ output' \in {NoText, Answer("final", n)}
          /\ fallback' \in {NoText, Answer("bubble", n)}
          /\ "final" \in sent[n] => output' # NoText \/ Unread(Answer("final", n))'
          /\ "bubble" \in sent[n] => fallback' # NoText \/ Unread(Answer("bubble", n))'
    <3>. SUFFICES ASSUME pc \in Reset
                  PROVE  /\ output' \in {NoText, Answer("final", n)}
                         /\ fallback' \in {NoText, Answer("bubble", n)}
                         /\ "final" \in sent[n] =>
                              output' # NoText \/ Unread(Answer("final", n))'
                         /\ "bubble" \in sent[n] =>
                              fallback' # NoText \/ Unread(Answer("bubble", n))'
      OBVIOUS
    <3>1. /\ output \in {NoText, Answer("final", n)}
          /\ fallback \in {NoText, Answer("bubble", n)}
          /\ "final" \in sent[n] => output # NoText \/ Unread(Answer("final", n))
          /\ "bubble" \in sent[n] => fallback # NoText \/ Unread(Answer("bubble", n))
      BY DEF IInv, Alone
    <3>2. \A p \in {"final", "bubble"} :
            /\ Answer(p, n) # NoText
            /\ p = kind \/ (Unread(Answer(p, n)) => Unread(Answer(p, n))')
      BY <1>1, <2>4, Answers
    <3>. QED
      BY <3>1, <3>2, <2>1
  <2>6. ASSUME signal' = "done" \/ finished = "done" \/ pc = "check"
        PROVE  Done'
    <3>1. CASE kind = "final"
      BY <3>1, <2>1 DEF Done
    <3>2. CASE kind = "completed"
      <4>1. "completed" \in sent[n] /\ Len(stdout') = 0
        <5>1. kind \in Event /\ kind \in Status
          BY <3>2 DEF Event, Status
        <5>2. \A a \in 1..Len(stdout') : FALSE
          BY <5>1, <2>1, <2>2, <1>1
        <5>3. Len(stdout') \in Nat
          BY LineRead
        <5>4. Len(stdout') = 0
          BY <5>2, <5>3
        <5>. QED
          BY <5>1, <5>4, <3>2, <2>1, <1>1
      <4>2. stdout' = <<>>
        <5>1. stdout' \in Seq(LineType(n))
          BY LineRead
        <5>. QED
          BY <4>1, <5>1
      <4>. QED
        BY <4>1, <4>2 DEF Done
    <3>3. CASE turnErr'
      BY <3>3 DEF Done
    <3>4. CASE kind # "final" /\ (finished = "done" \/ pc = "check")
      <4>1. Done /\ stdout # <<>>
        BY <3>4, <2>1 DEF IInv, Alone
      <4>. QED
        BY <4>1, <3>4 DEF Done
    <3>. QED
      BY <2>6, <3>1, <3>2, <3>3, <3>4
  <2>7. \A a \in 1..Len(stdin) : stdin[a] = n
    BY DEF IInv, Alone
  <2>8. serving \in {None, n}
    BY DEF IInv, Alone
  <2>. QED
    BY <2>2, <2>3, <2>5, <2>6, <2>7, <2>8 DEF Alone
<1>5. ToldOnce'
  BY <1>2 DEF IInv, ToldOnce
<1>6. CleanTurnIsExact'
  BY <1>2 DEF IInv, CleanTurnIsExact, OwnText
<1>. QED
  BY <1>1, <1>3, <1>4, <1>5, <1>6 DEF IInv

\* A line read keeps the types, and only its call's registration changes.
LEMMA ReadTypes ==
  ASSUME IInv, NEW kind, NEW i, NextLine(kind, i),
         UNCHANGED <<pc, n, turnWait, finished, result, reader, agent, serving, sent, stdin, clean>>,
         pending' \subseteq pending, chan' \in {"empty", "reply", "error"},
         chan' # "empty" => pending' = {},
         turnSeen' \in BOOLEAN, turnErr' \in BOOLEAN,
         output' \in Text \cup {NoText}, fallback' \in Text \cup {NoText},
         signal' \in {None, "done", "aborted"}
  PROVE  TypeOK' /\ Requests'
<1>1. \A t : IsText(t)' <=> IsText(t)
  BY DEF IsText
<1>2. stdout' \in Seq(LineType(n))
  BY LineRead
<1>3. TypeOK'
  BY <1>1, <1>2 DEF IInv, TypeOK, LineType
<1>4. Requests'
  BY <1>1 DEF IInv, Requests
<1>. QED
  BY <1>3, <1>4

LEMMA ReadResponseIInv ==
  ASSUME IInv, NEW i \in Call, ReadResponse(i)
  PROVE  IInv'
<1>1. PICK kind \in {"reply", "error"} :
        /\ NextLine(kind, i)
        /\ chan' = IF i \in pending THEN kind ELSE chan
        /\ pending' = pending \ {i}
        /\ UNCHANGED <<pc, n, turnVars, textVars, result, readerVars, agentVars, stdin, clean>>
  BY DEF ReadResponse
<1>2. UNCHANGED <<pc, n, turnSeen, turnErr, turnWait, finished, output, fallback, result,
                  reader, signal, agent, serving, sent, stdin, clean>>
  BY <1>1 DEF turnVars, textVars, readerVars, agentVars
<1>3. chan' \in {"empty", "reply", "error"} /\ (chan' # "empty" => pending' = {})
  BY <1>1 DEF IInv, TypeOK, Requests
<1>4. /\ turnSeen' \in BOOLEAN /\ turnErr' \in BOOLEAN
      /\ output' \in Text \cup {NoText} /\ fallback' \in Text \cup {NoText}
      /\ signal' \in {None, "done", "aborted"}
  BY <1>2 DEF IInv, TypeOK
<1>5. TypeOK' /\ Requests'
  BY <1>1, <1>2, <1>3, <1>4, ReadTypes
<1>6. signal' # "done"
  BY <1>1, <1>2, LineRead, ValueAssumption
<1>. QED
  BY <1>1, <1>2, <1>5, <1>6, ReadIInv

\* The lines that belong to a turn leave the requests alone.
LEMMA ReadTurnIInv ==
  ASSUME IInv, NEW kind, NEW i \in Turn, NextLine(kind, i),
         UNCHANGED <<pc, n, pending, chan, turnWait, finished, result, reader, agent, serving,
                     sent, stdin, clean>>,
         output' = IF kind = "final" THEN Answer("final", i) ELSE output,
         fallback' = IF kind = "bubble" THEN Answer("bubble", i) ELSE fallback,
         turnSeen' \in BOOLEAN, turnErr' \in BOOLEAN, turnErr => turnErr',
         signal' \in {None, "done", "aborted"},
         signal' = "done" => kind = "final" \/ kind = "completed" \/ turnErr'
  PROVE  IInv'
<1>1. output' \in Text \cup {NoText} /\ fallback' \in Text \cup {NoText}
  BY Answers DEF IInv, TypeOK
<1>2. chan' \in {"empty", "reply", "error"} /\ (chan' # "empty" => pending' = {})
  BY DEF IInv, TypeOK, Requests
<1>3. TypeOK' /\ Requests'
  BY <1>1, <1>2, ReadTypes
<1>. QED
  BY <1>3, ReadIInv

LEMMA ReadBubbleIInv ==
  ASSUME IInv, NEW i \in Turn, ReadBubble(i)
  PROVE  IInv'
<1>1. /\ NextLine("bubble", i) /\ fallback' = Answer("bubble", i)
      /\ UNCHANGED <<pc, n, pending, chan, turnSeen, turnErr, turnWait, finished, output,
                     result, reader, signal, agent, serving, sent, stdin, clean>>
  BY DEF ReadBubble, Answer, callVars, turnVars, readerVars, agentVars
<1>2. turnSeen' \in BOOLEAN /\ turnErr' \in BOOLEAN /\ signal' \in {None, "done", "aborted"}
  BY <1>1 DEF IInv, TypeOK
<1>3. signal' # "done"
  BY <1>1, LineRead, ValueAssumption
<1>. QED
  BY <1>1, <1>2, <1>3, ReadTurnIInv

LEMMA ReadFinalIInv ==
  ASSUME IInv, NEW i \in Turn, ReadFinal(i)
  PROVE  IInv'
<1>1. /\ NextLine("final", i) /\ output' = Answer("final", i)
      /\ turnSeen' = TRUE /\ signal' \in {None, "done"}
      /\ UNCHANGED <<pc, n, pending, chan, turnErr, turnWait, finished, fallback, result,
                     reader, agent, serving, sent, stdin, clean>>
  BY DEF ReadFinal, BeginSignal, Answer, callVars, agentVars
<1>2. turnErr' \in BOOLEAN /\ (turnErr => turnErr')
  BY <1>1 DEF IInv, TypeOK
<1>. QED
  BY <1>1, <1>2, ReadTurnIInv

LEMMA ReadTurnErrorIInv ==
  ASSUME IInv, NEW i \in Turn, ReadTurnError(i)
  PROVE  IInv'
<1>1. /\ NextLine("turnerror", i) /\ turnErr' = TRUE
      /\ turnSeen' = TRUE /\ signal' \in {None, "done"}
      /\ UNCHANGED <<pc, n, pending, chan, turnWait, finished, output, fallback, result,
                     reader, agent, serving, sent, stdin, clean>>
  BY DEF ReadTurnError, BeginSignal, callVars, textVars, agentVars
<1>. QED
  BY <1>1, ReadTurnIInv

LEMMA ReadCompletedIInv ==
  ASSUME IInv, NEW i \in Turn, ReadCompleted(i)
  PROVE  IInv'
<1>1. PICK status \in Status :
        /\ NextLine(status, i) /\ turnErr' = (turnErr \/ status = "failed")
        /\ turnSeen' = TRUE
        /\ signal' \in {None, IF status = "aborted" THEN "aborted" ELSE "done"}
        /\ UNCHANGED <<pc, n, pending, chan, turnWait, finished, output, fallback, result,
                       reader, agent, serving, sent, stdin, clean>>
  BY DEF ReadCompleted, BeginSignal, Status, callVars, textVars, agentVars
<1>2. turnErr' \in BOOLEAN /\ (turnErr => turnErr')
  BY <1>1 DEF IInv, TypeOK
<1>3. status \notin {"final", "bubble"}
  BY <1>1 DEF Status
<1>4. signal' = "done" => status = "completed" \/ turnErr'
  BY <1>1, ValueAssumption DEF Status
<1>. QED
  BY <1>1, <1>2, <1>3, <1>4, ReadTurnIInv

LEMMA EndSignalIInv == ASSUME IInv, EndSignal PROVE IInv'
<1>1. /\ signal # None /\ signal' = None
      /\ finished' = IF turnWait # None /\ finished = "empty" THEN signal ELSE finished
      /\ UNCHANGED <<pc, n, pending, chan, turnSeen, turnErr, turnWait, output, fallback,
                     result, reader, agent, serving, sent, stdin, stdout, clean>>
  BY DEF EndSignal, callVars, textVars, agentVars
<1>2. TypeOK'
  BY <1>1 DEF IInv, TypeOK, IsText
<1>3. Requests'
  BY <1>1 DEF IInv, Requests, IsText
<1>4. pc \in Active /\ n \in clean => pc \notin Early
  BY <1>1 DEF IInv, Alone
<1>. QED
  BY <1>1, <1>2, <1>3, <1>4, QuietIInv, ValueAssumption

LEMMA ReadEndIInv == ASSUME IInv, ReadEnd PROVE IInv'
<1>1. /\ signal = None /\ reader' \in {"done", "failed"} /\ pending' = {}
      /\ chan' = IF n \in pending THEN "error" ELSE chan
      /\ UNCHANGED <<pc, n, turnSeen, turnErr, turnWait, finished, output, fallback, result,
                     signal, agent, serving, sent, stdin, stdout, clean>>
  BY DEF ReadEnd, EndOfStdout, turnVars, textVars, agentVars
<1>2. TypeOK'
  BY <1>1 DEF IInv, TypeOK, IsText
<1>3. Requests'
  BY <1>1 DEF IInv, Requests, IsText
<1>4. pc \in Early /\ pc \in Active /\ n \in clean => finished = "empty"
  BY DEF IInv, Alone
<1>. QED
  BY <1>1, <1>2, <1>3, <1>4, QuietIInv

-----------------------------------------------------------------------------
(* The server.                                                               *)

\* It says something new about the turn it works on.
LEMMA SayIInv ==
  ASSUME IInv, serving # None, NEW kind \in Event, kind \notin sent[serving],
         Write(Line(kind, serving)),
         sent' = [sent EXCEPT ![serving] = @ \cup {kind}],
         serving' \in {serving, None}, kind \in Status => serving' = None,
         UNCHANGED <<pc, n, pending, chan, turnSeen, turnErr, turnWait, finished, output,
                     fallback, result, reader, signal, agent, stdin, clean>>
  PROVE  IInv'
<1>1. PICK s \in Turn : s = serving /\ s \in 1..n /\ s \in Call
  <2>1. serving \in 3..n /\ n \in Nat
    BY Typed DEF IInv, TypeOK
  <2>. QED
    BY <2>1, Typed DEF IInv
<1>2. PICK line \in LineType(n) : /\ line = Line(kind, s) /\ line.kind = kind /\ line.call = s
                                  /\ stdout' = Append(stdout, line)
  <2>1. Line(kind, s) \in LineType(n)
    BY <1>1 DEF Line, LineType, Event, Status
  <2>2. Line(kind, s).kind = kind /\ Line(kind, s).call = s
    BY DEF Line
  <2>. QED
    BY <2>1, <2>2, <1>1 DEF Write
<1>3. /\ stdout' \in Seq(LineType(n)) /\ Len(stdout') = Len(stdout) + 1 /\ Len(stdout) \in Nat
      /\ stdout'[Len(stdout) + 1] = line
      /\ \A a \in 1..Len(stdout) : stdout'[a] = stdout[a]
  <2>1. stdout \in Seq(LineType(n))
    BY Typed DEF IInv
  <2>. QED
    BY <2>1, <1>2, Appended
<1>4. /\ sent \in [Turn -> SUBSET Event] /\ sent' \in [Turn -> SUBSET Event]
      /\ \A t \in Turn : t # s => sent'[t] = sent[t]
      /\ sent'[s] = sent[s] \cup {kind} /\ kind \notin sent[s]
      /\ \A t \in Turn : sent[t] \subseteq sent'[t]
  BY <1>1, Typed DEF IInv
<1>5. /\ \A i : (InStdin(i)' <=> InStdin(i))
      /\ \A i : InStdout(i)' => InStdout(i) \/ i = s
  BY <1>2, <1>3 DEF InStdin, InStdout
<1>6. /\ \A x : Unread(x) => Unread(x)'
      /\ \A x : Unread(x)' => Unread(x) \/ (x.phase = kind /\ x.turn = s)
      /\ \A x : x.phase = kind /\ x.turn = s => Unread(x)'
  <2>1. \A x : line = Line(x.phase, x.turn) <=> x.phase = kind /\ x.turn = s
    BY <1>2 DEF Line
  <2>2. \A a \in 1..Len(stdout') : a \in 1..Len(stdout) \/ a = Len(stdout) + 1
    BY <1>3
  <2>3. \A a \in 1..Len(stdout) : a \in 1..Len(stdout')
    BY <1>3
  <2>4. Len(stdout) + 1 \in 1..Len(stdout')
    BY <1>3
  <2>. QED
    BY <2>1, <2>2, <2>3, <2>4, <1>3 DEF Unread
<1>7. \A t : IsText(t)' <=> IsText(t)
  BY DEF IsText
<1>8. TypeOK'
  <2>1. Event = {"bubble", "final", "turnerror", "completed", "failed", "aborted"}
    BY DEF Event, Status
  <2>. QED
    BY <1>3, <1>4, <1>7, <2>1 DEF IInv, TypeOK, LineType
<1>9. Requests'
  BY <1>7 DEF IInv, Requests
<1>10. Untouched'
  <2>. SUFFICES ASSUME NEW i \in Call, Unsent(i)
                PROVE  /\ ~InStdin(i)' /\ serving' # i /\ ~InStdout(i)'
                       /\ i \in Turn => sent'[i] = {}
    BY DEF Untouched, Unsent
  <2>1. /\ ~InStdin(i) /\ serving # i /\ ~InStdout(i)
        /\ i \in Turn => sent[i] = {}
    BY DEF IInv, Untouched
  <2>2. None # i
    BY Typed DEF IInv
  <2>. QED
    BY <2>1, <2>2, <1>1, <1>4, <1>5
<1>11. Pipes'
  <2>1. ASSUME NEW i \in Call, InStdin(i)
        PROVE  /\ serving' # i /\ ~InStdout(i)'
               /\ i \in Turn => sent'[i] = {}
    <3>1. /\ serving # i /\ ~InStdout(i)
          /\ i \in Turn => sent[i] = {}
      BY <2>1 DEF IInv, Pipes
    <3>2. None # i
      BY Typed DEF IInv
    <3>. QED
      BY <3>1, <3>2, <1>1, <1>4, <1>5
  <2>2. ASSUME NEW t \in Turn, sent'[t] \cap Status # {}
        PROVE  serving' # t
    <3>1. None # t
      BY Typed DEF IInv
    <3>2. CASE kind \in Status
      BY <3>1, <3>2, <2>2, <1>1, <1>4 DEF IInv, Pipes
    <3>3. CASE kind \notin Status
      <4>1. sent[t] \cap Status # {}
        BY <3>3, <2>2, <1>4
      <4>. QED
        BY <4>1, <3>1 DEF IInv, Pipes
    <3>. QED
      BY <3>2, <3>3
  <2>3. \A a \in 1..Len(stdout') : a \in 1..Len(stdout) \/ a = Len(stdout) + 1
    BY <1>3
  <2>4. ASSUME NEW a \in 1..Len(stdout'), stdout'[a].kind \in Event
        PROVE  stdout'[a].call \in Turn /\ stdout'[a].kind \in sent'[stdout'[a].call]
    <3>1. CASE a \in 1..Len(stdout)
      BY <3>1, <2>4, <1>3, <1>4 DEF IInv, Pipes
    <3>2. CASE a = Len(stdout) + 1
      BY <3>2, <1>2, <1>3, <1>4
    <3>. QED
      BY <2>3, <3>1, <3>2
  <2>5. ASSUME NEW a \in 1..Len(stdout'), NEW b \in 1..Len(stdout'),
               a < b, stdout'[a].kind \in Event
        PROVE  /\ stdout'[a] # stdout'[b]
               /\ stdout'[a].kind \in Status => stdout'[b].call # stdout'[a].call
    <3>1. a \in 1..Len(stdout) /\ stdout'[a] = stdout[a]
      BY <2>5, <1>3
    <3>2. CASE b \in 1..Len(stdout)
      BY <3>1, <3>2, <2>5, <1>3 DEF IInv, Pipes
    <3>3. CASE b = Len(stdout) + 1
      <4>1. stdout[a].call \in Turn /\ stdout[a].kind \in sent[stdout[a].call]
        BY <3>1, <2>5 DEF IInv, Pipes
      <4>2. stdout[a] # line
        BY <4>1, <1>2, <1>4
      <4>3. stdout[a].kind \in Status => stdout[a].call # s
        BY <4>1, <1>1 DEF IInv, Pipes
      <4>. QED
        BY <4>2, <4>3, <3>1, <3>3, <1>2, <1>3
    <3>. QED
      BY <2>3, <3>2, <3>3
  <2>6. \A a, b \in 1..Len(stdin') : stdin'[a] = stdin'[b] => a = b
    BY DEF IInv, Pipes
  <2>. QED
    BY <1>5, <2>1, <2>2, <2>4, <2>5, <2>6 DEF Pipes
<1>12. Told'
  <2>1. ASSUME NEW x \in Text,
               x \in {output, fallback} \/ \E t \in Call : IsText(t) /\ result[t] = x
        PROVE  x.phase \in sent'[x.turn] /\ ~Unread(x)'
    <3>1. x.turn \in Turn /\ x.phase \in sent[x.turn] /\ ~Unread(x)
      BY <2>1, TextIsSent
    <3>2. ~(x.phase = kind /\ x.turn = s)
      BY <3>1, <1>4
    <3>. QED
      BY <3>1, <3>2, <1>4, <1>6
  <2>. QED
    BY <1>7, <2>1 DEF IInv, Told
<1>13. Alone'
  <2>. SUFFICES ASSUME pc \in Active, n \in clean
                PROVE  Alone'
    BY DEF Alone
  <2>1. s = n
    BY <1>1, Typed DEF IInv, Alone
  <2>2. pc \notin Early
    BY <1>1 DEF IInv, Alone
  <2>3. \A a \in 1..Len(stdout') : stdout'[a].call = n
    <3>1. \A a \in 1..Len(stdout) : stdout[a].call = n
      BY DEF IInv, Alone
    <3>2. \A a \in 1..Len(stdout') : a \in 1..Len(stdout) \/ a = Len(stdout) + 1
      BY <1>3
    <3>. QED
      BY <3>1, <3>2, <2>1, <1>2, <1>3
  <2>4. pc \in Reset =>
          /\ output \in {NoText, Answer("final", n)}
          /\ fallback \in {NoText, Answer("bubble", n)}
          /\ "final" \in sent'[n] => output # NoText \/ Unread(Answer("final", n))'
          /\ "bubble" \in sent'[n] => fallback # NoText \/ Unread(Answer("bubble", n))'
    <3>1. pc \in Reset =>
            /\ output \in {NoText, Answer("final", n)}
            /\ fallback \in {NoText, Answer("bubble", n)}
            /\ "final" \in sent[n] => output # NoText \/ Unread(Answer("final", n))
            /\ "bubble" \in sent[n] => fallback # NoText \/ Unread(Answer("bubble", n))
      BY DEF IInv, Alone
    <3>2. \A p \in {"final", "bubble"} :
            /\ Answer(p, n)' = Answer(p, n)
            /\ p = kind => Unread(Answer(p, n))'
            /\ Unread(Answer(p, n)) => Unread(Answer(p, n))'
            /\ p \in sent'[n] => p \in sent[n] \/ p = kind
      <4>1. \A p \in {"final", "bubble"} :
              /\ Answer(p, n)' = Answer(p, n)
              /\ Answer(p, n).phase = p /\ Answer(p, n).turn = n
        BY <2>1, Answers DEF Answer
      <4>2. sent'[n] = sent[n] \cup {kind}
        BY <2>1, <1>4
      <4>. QED
        BY <4>1, <4>2, <2>1, <1>6
    <3>. QED
      BY <3>1, <3>2
  <2>5. signal = "done" \/ finished = "done" \/ pc = "check" => Done'
    <3>1. signal = "done" \/ finished = "done" \/ pc = "check" => Done
      BY DEF IInv, Alone
    <3>2. "completed" \notin sent[n]
      BY <2>1, <1>1 DEF IInv, Pipes, Status
    <3>. QED
      BY <3>1, <3>2 DEF Done, Answer
  <2>6. \A a \in 1..Len(stdin) : stdin[a] = n
    BY DEF IInv, Alone
  <2>7. serving' \in {None, n}
    BY <2>1, <1>1
  <2>. QED
    BY <2>2, <2>3, <2>4, <2>5, <2>6, <2>7 DEF Alone
<1>14. ToldOnce'
  BY <1>7 DEF IInv, ToldOnce
<1>15. CleanTurnIsExact'
  <2>. SUFFICES ASSUME NEW t \in clean, IsText(t)
                PROVE  /\ result[t] = OwnText(t)'
                       /\ "final" \in sent'[t] \/ "completed" \in sent'[t]
    BY <1>7 DEF CleanTurnIsExact
  <2>1. t \in Turn
    BY Typed DEF IInv
  <2>2. /\ result[t] = OwnText(t)
        /\ "final" \in sent[t] \/ "completed" \in sent[t]
    BY DEF IInv, CleanTurnIsExact
  <2>3. CASE t = s
    <3>1. "final" \in sent[t]
      BY <2>1, <2>2, <2>3, <1>1 DEF IInv, Pipes, Status
    <3>. QED
      BY <2>1, <2>2, <2>3, <3>1, <1>4 DEF OwnText
  <2>4. CASE t # s
    BY <2>1, <2>2, <2>4, <1>4 DEF OwnText
  <2>. QED
    BY <2>3, <2>4
<1>. QED
  BY <1>8, <1>9, <1>10, <1>11, <1>12, <1>13, <1>14, <1>15 DEF IInv

LEMMA AgentSaysIInv ==
  ASSUME IInv, NEW kind \in {"bubble", "final", "turnerror"}, AgentSays(kind)
  PROVE  IInv'
<1>1. kind \in Event /\ kind \notin Status
  BY DEF Event, Status
<1>. QED
  BY <1>1, SayIInv DEF AgentSays, callVars, turnVars, textVars, readerVars

LEMMA AgentCompletesIInv ==
  ASSUME IInv, NEW status \in Status, AgentCompletes(status)
  PROVE  IInv'
<1>1. serving \in Turn
  BY Typed DEF AgentCompletes, IInv, TypeOK
<1>2. status \in Event /\ status \notin sent[serving]
  BY <1>1 DEF IInv, Pipes, Event
<1>. QED
  BY <1>2, SayIInv DEF AgentCompletes, callVars, turnVars, textVars, readerVars

\* It takes the request in front and responds to it; if it is a turn, it works
\* on that from now on.
LEMMA AgentReceiveIInv == ASSUME IInv, AgentReceive PROVE IInv'
<1>1. /\ stdin # <<>> /\ stdin' = Tail(stdin) /\ serving = None
      /\ \E kind \in {"reply", "error"} :
           /\ stdout' = Append(stdout, Line(kind, Head(stdin)))
           /\ serving' = None \/ (serving' = Head(stdin) /\ Head(stdin) \notin Setup)
      /\ UNCHANGED <<pc, n, pending, chan, turnSeen, turnErr, turnWait, finished, output,
                     fallback, result, reader, signal, agent, sent, clean>>
  BY DEF AgentReceive, Write, callVars, turnVars, textVars, readerVars
<1>2. PICK m \in 1..n : m = Head(stdin)
  BY <1>1, HeadTail, Typed DEF IInv
<1>3. /\ stdin' \in Seq(1..n) /\ stdin[1] = m
      /\ Len(stdin') = Len(stdin) - 1 /\ Len(stdin) \in Nat \ {0}
      /\ \A a \in 1..Len(stdin') : stdin'[a] = stdin[a + 1] /\ a + 1 \in 1..Len(stdin)
  <2>1. stdin \in Seq(1..n)
    BY Typed DEF IInv
  <2>. QED
    BY <2>1, <1>1, <1>2, HeadTail
<1>4. PICK line \in LineType(n) : /\ line.kind \notin Event /\ line.call = m
                                  /\ line.kind \notin {"final", "bubble"}
                                  /\ stdout' = Append(stdout, line)
  <2>1. PICK kind \in {"reply", "error"} : stdout' = Append(stdout, Line(kind, m))
    BY <1>1, <1>2
  <2>2. Line(kind, m) \in LineType(n) /\ Line(kind, m).kind = kind /\ Line(kind, m).call = m
    BY DEF Line, LineType
  <2>3. kind \notin Event /\ kind \notin {"final", "bubble"}
    BY DEF Event, Status
  <2>. QED
    BY <2>1, <2>2, <2>3
<1>5. /\ stdout' \in Seq(LineType(n)) /\ Len(stdout') = Len(stdout) + 1 /\ Len(stdout) \in Nat
      /\ stdout'[Len(stdout) + 1] = line
      /\ \A a \in 1..Len(stdout) : stdout'[a] = stdout[a]
      /\ \A a \in 1..Len(stdout') : a \in 1..Len(stdout) \/ a = Len(stdout) + 1
  <2>1. stdout \in Seq(LineType(n))
    BY Typed DEF IInv
  <2>2. /\ stdout' \in Seq(LineType(n)) /\ Len(stdout') = Len(stdout) + 1 /\ Len(stdout) \in Nat
        /\ stdout'[Len(stdout) + 1] = line
        /\ \A a \in 1..Len(stdout) : stdout'[a] = stdout[a]
    BY <2>1, <1>4, Appended
  <2>3. \A a \in 1..Len(stdout') : a \in 1..Len(stdout) \/ a = Len(stdout) + 1
    BY <2>2
  <2>. QED
    BY <2>2, <2>3
<1>6. /\ m \in Call /\ InStdin(m) /\ ~InStdout(m)
      /\ m \in Turn => sent[m] = {}
      /\ serving' = None \/ (serving' = m /\ m \in Turn)
  <2>1. m \in Call /\ InStdin(m) /\ (serving' = None \/ (serving' = m /\ m \in Turn))
    BY <1>1, <1>2, <1>3, Typed DEF IInv, InStdin
  <2>. QED
    BY <2>1 DEF IInv, Pipes
<1>7. /\ \A i : InStdin(i)' => InStdin(i) /\ i # m
      /\ \A i : InStdout(i)' => InStdout(i) \/ i = m
  <2>1. \A a \in 1..Len(stdin') : stdin'[a] # m
    <3>. SUFFICES ASSUME NEW a \in 1..Len(stdin')
                  PROVE  stdin[a + 1] # stdin[1]
      BY <1>3
    <3>1. a + 1 \in 1..Len(stdin) /\ 1 \in 1..Len(stdin) /\ a + 1 # 1
      BY <1>3
    <3>. QED
      BY <3>1 DEF IInv, Pipes
  <2>2. \A i : InStdin(i)' => InStdin(i) /\ i # m
    BY <2>1, <1>3 DEF InStdin
  <2>3. \A i : InStdout(i)' => InStdout(i) \/ i = m
    BY <1>4, <1>5 DEF InStdout
  <2>. QED
    BY <2>2, <2>3
<1>8. \A x : x.phase \in {"final", "bubble"} => (Unread(x)' <=> Unread(x))
  <2>1. \A x : x.phase \in {"final", "bubble"} => line # Line(x.phase, x.turn)
    BY <1>4 DEF Line
  <2>2. \A a \in 1..Len(stdout) : a \in 1..Len(stdout')
    BY <1>5
  <2>. QED
    BY <2>1, <2>2, <1>5 DEF Unread
<1>9. \A t : IsText(t)' <=> IsText(t)
  BY <1>1 DEF IsText
<1>10. TypeOK'
  <2>1. serving' \in (3..n) \cup {None}
    BY <1>2, <1>6, Typed DEF IInv
  <2>. QED
    BY <1>1, <1>3, <1>5, <1>9, <2>1 DEF IInv, TypeOK, LineType
<1>11. Requests'
  BY <1>1, <1>9 DEF IInv, Requests
<1>12. Untouched'
  <2>. SUFFICES ASSUME NEW i \in Call, Unsent(i)
                PROVE  /\ ~InStdin(i)' /\ serving' # i /\ ~InStdout(i)'
                       /\ i \in Turn => sent'[i] = {}
    BY <1>1 DEF Untouched, Unsent
  <2>1. /\ ~InStdin(i) /\ ~InStdout(i)
        /\ i \in Turn => sent[i] = {}
    BY DEF IInv, Untouched
  <2>2. i # m /\ None # i
    BY <2>1, <1>6, Typed DEF IInv
  <2>. QED
    BY <2>1, <2>2, <1>1, <1>6, <1>7
<1>13. Pipes'
  <2>1. \A a, b \in 1..Len(stdin') : stdin'[a] = stdin'[b] => a = b
    <3>. SUFFICES ASSUME NEW a \in 1..Len(stdin'), NEW b \in 1..Len(stdin'),
                         stdin'[a] = stdin'[b]
                  PROVE  a = b
      OBVIOUS
    <3>1. a + 1 = b + 1
      BY <1>3 DEF IInv, Pipes
    <3>. QED
      BY <3>1, <1>3
  <2>2. ASSUME NEW i \in Call, InStdin(i)'
        PROVE  /\ serving' # i /\ ~InStdout(i)'
               /\ i \in Turn => sent'[i] = {}
    <3>1. InStdin(i) /\ i # m /\ None # i
      BY <2>2, <1>7, Typed DEF IInv
    <3>. QED
      BY <3>1, <1>1, <1>6, <1>7 DEF IInv, Pipes
  <2>3. \A t \in Turn : sent'[t] \cap Status # {} => serving' # t
    <3>1. \A t \in Turn : None # t
      BY Typed DEF IInv
    <3>. QED
      BY <3>1, <1>1, <1>6
  <2>4. \A a \in 1..Len(stdout') : stdout'[a].kind \in Event =>
          stdout'[a].call \in Turn /\ stdout'[a].kind \in sent'[stdout'[a].call]
    BY <1>1, <1>4, <1>5 DEF IInv, Pipes
  <2>5. ASSUME NEW a \in 1..Len(stdout'), NEW b \in 1..Len(stdout'),
               a < b, stdout'[a].kind \in Event
        PROVE  /\ stdout'[a] # stdout'[b]
               /\ stdout'[a].kind \in Status => stdout'[b].call # stdout'[a].call
    <3>1. a \in 1..Len(stdout) /\ stdout'[a] = stdout[a]
      BY <2>5, <1>5
    <3>2. CASE b \in 1..Len(stdout)
      BY <3>1, <3>2, <2>5, <1>5 DEF IInv, Pipes
    <3>3. CASE b = Len(stdout) + 1
      <4>1. stdout[a] # line
        BY <3>1, <2>5, <1>4
      <4>2. stdout[a].call # m
        BY <3>1, <1>6 DEF InStdout
      <4>. QED
        BY <4>1, <4>2, <3>1, <3>3, <1>4, <1>5
    <3>. QED
      BY <1>5, <3>2, <3>3
  <2>. QED
    BY <2>1, <2>2, <2>3, <2>4, <2>5 DEF Pipes
<1>14. Told'
  <2>1. ASSUME NEW x \in Text,
               x \in {output, fallback} \/ \E t \in Call : IsText(t) /\ result[t] = x
        PROVE  x.phase \in sent[x.turn] /\ ~Unread(x)'
    BY <2>1, <1>8, TextIsSent
  <2>. QED
    BY <1>1, <1>9, <2>1 DEF IInv, Told
<1>15. Alone'
  <2>. SUFFICES ASSUME pc \in Active, n \in clean
                PROVE  Alone'
    BY <1>1 DEF Alone
  <2>1. m = n
    BY <1>2, <1>3 DEF IInv, Alone
  <2>2. pc \notin Early
    BY <1>1 DEF IInv, Alone
  <2>3. \A a \in 1..Len(stdout') : stdout'[a].call = n
    BY <2>1, <1>4, <1>5 DEF IInv, Alone
  <2>4. \A a \in 1..Len(stdin') : stdin'[a] = n
    BY <1>3 DEF IInv, Alone
  <2>5. n \in Turn /\ sent[n] = {}
    BY <2>1, <1>6, Typed DEF IInv
  <2>6. pc \in Reset =>
          /\ output \in {NoText, Answer("final", n)}
          /\ fallback \in {NoText, Answer("bubble", n)}
    BY DEF IInv, Alone
  <2>7. signal = "done" \/ finished = "done" \/ pc = "check" => Done'
    <3>1. signal = "done" \/ finished = "done" \/ pc = "check" => Done
      BY DEF IInv, Alone
    <3>. QED
      BY <3>1, <2>5, <1>1 DEF Done, Answer
  <2>8. serving' \in {None, n}
    BY <2>1, <1>6
  <2>. QED
    BY <1>1, <2>2, <2>3, <2>4, <2>5, <2>6, <2>7, <2>8 DEF Alone, Answer
<1>16. ToldOnce' /\ CleanTurnIsExact'
  BY <1>1, <1>9 DEF IInv, ToldOnce, CleanTurnIsExact, OwnText
<1>. QED
  BY <1>10, <1>11, <1>12, <1>13, <1>14, <1>15, <1>16 DEF IInv

-----------------------------------------------------------------------------
(* The theorems.                                                             *)

LEMMA InitIInv == ASSUME Init PROVE IInv
<1>1. MaxCall \in Nat /\ Call = 1..MaxCall /\ Turn \subseteq Call
  BY BoundAssumption DEF Call, Turn
<1>2. /\ pc = "ready" /\ n = 0 /\ pending = {} /\ chan = "empty"
      /\ turnSeen = FALSE /\ turnErr = FALSE /\ turnWait = None /\ finished = "empty"
      /\ output = NoText /\ fallback = NoText /\ reader = "run" /\ signal = None
      /\ agent = "up" /\ stdin = <<>> /\ stdout = <<>> /\ serving = None /\ clean = {}
  BY DEF Init
<1>3. /\ result \in [Call -> Text \cup {NoText, None, Failed}]
      /\ \A i \in Call : ~IsText(i)
  BY DEF Init, IsText
<1>4. sent \in [Turn -> SUBSET Event] /\ \A t \in Turn : sent[t] = {}
  BY DEF Init
<1>5. /\ \A i : ~InStdin(i) /\ ~InStdout(i)
      /\ \A a \in 1..Len(stdin) : FALSE
      /\ \A a \in 1..Len(stdout) : FALSE
  BY <1>2 DEF InStdin, InStdout
<1>6. \A i \in Call : serving # i
  BY <1>1, <1>2, ValueAssumption
<1>7. TypeOK
  <2>1. Event = {"bubble", "final", "turnerror", "completed", "failed", "aborted"}
    BY DEF Event, Status
  <2>2. n \in 0..MaxCall /\ stdin \in Seq(1..n) /\ stdout \in Seq(LineType(n))
    BY <1>1, <1>2
  <2>3. \A t \in Turn : IsText(t) => result[t] \in Text \cup {NoText}
    BY <1>1, <1>3
  <2>. QED
    BY <1>2, <1>4, <2>1, <2>2, <2>3 DEF TypeOK, LineType
<1>8. Requests
  BY <1>2, <1>3 DEF Requests, Active
<1>9. Untouched
  BY <1>4, <1>5, <1>6 DEF Untouched
<1>10. Pipes
  BY <1>1, <1>4, <1>5, <1>6 DEF Pipes
<1>11. Told
  BY <1>2, <1>3, Answers DEF Told, Reset
<1>12. Alone
  BY <1>2 DEF Alone
<1>13. ToldOnce /\ CleanTurnIsExact
  BY <1>1, <1>2, <1>3 DEF ToldOnce, CleanTurnIsExact
<1>. QED
  BY <1>7, <1>8, <1>9, <1>10, <1>11, <1>12, <1>13 DEF IInv

LEMMA NextIInv == ASSUME IInv, [Next]_vars PROVE IInv'
<1>1. CASE BeginSetup \/ BeginTurn \/ BeginClose \/ Timeout
  BY <1>1, BeginSetupIInv, BeginTurnIInv, BeginCloseIInv, TimeoutIInv
<1>2. CASE Working
  BY <1>2, ArmIInv, ResetTextIInv, RegisterIInv, SendRequestIInv, ResponseOKIInv,
     ResponseFailIInv, FinishIInv, TakeTextIInv, KillIInv, JoinIInv DEF Working
<1>3. CASE Reading
  BY <1>3, ReadResponseIInv, ReadBubbleIInv, ReadFinalIInv, ReadTurnErrorIInv,
     ReadCompletedIInv, EndSignalIInv, ReadEndIInv DEF Reading
<1>4. CASE Agent
  BY <1>4, AgentReceiveIInv, AgentDiesIInv, AgentSaysIInv, AgentCompletesIInv
     DEF Agent, Status
<1>5. CASE UNCHANGED vars
  <2>1. UNCHANGED <<pc, n, pending, chan, turnSeen, turnErr, turnWait, finished, output,
                    fallback, result, reader, signal, agent, serving, sent, stdin, stdout, clean>>
    BY <1>5 DEF vars, callVars, turnVars, textVars, readerVars, agentVars
  <2>2. TypeOK' /\ Requests'
    BY <2>1 DEF IInv, TypeOK, Requests, IsText
  <2>. QED
    BY <2>1, <2>2, QuietIInv DEF IInv, Alone
<1>. QED
  BY <1>1, <1>2, <1>3, <1>4, <1>5 DEF Next

\* Everything below follows from this.
THEOREM Invariance == Spec => []IInv
<1>1. Init => IInv
  BY InitIInv
<1>2. IInv /\ [Next]_vars => IInv'
  BY NextIInv
<1>. QED
  BY <1>1, <1>2, PTL DEF Spec

\* Every variable has its type; no channel of an earlier request is still
\* registered, and no channel of an earlier turn still signalled.
THEOREM TypeCorrect == Spec => []TypeOK
<1>1. IInv => TypeOK
  BY DEF IInv
<1>. QED
  BY <1>1, Invariance, PTL

\* However turns overlap, what the server says is told at most once, and not
\* before the turn that caused it has begun.
THEOREM TextIsToldOnce == Spec => []ToldOnce
<1>1. IInv => ToldOnce
  BY DEF IInv
<1>. QED
  BY <1>1, Invariance, PTL

\* A turn begun when the server was done with all earlier ones returns its own
\* final answer, or its own last bubble if it had none.
THEOREM CleanTurnsAreExact == Spec => []CleanTurnIsExact
<1>1. IInv => CleanTurnIsExact
  BY DEF IInv
<1>. QED
  BY <1>1, Invariance, PTL
=============================================================================
