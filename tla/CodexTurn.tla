----------------------------- MODULE CodexTurn -----------------------------
(***************************************************************************)
(* internal/provider's codex_app_server transport: how runTurn, on the     *)
(* scheduler's worker, and the goroutine that reads the server's stdout    *)
(* agree on when a turn is over and what it said. The server signs its     *)
(* notifications with the turn they belong to; runTurn does not look.      *)
(*                                                                         *)
(* The server speaks the raw protocol, works on one turn at a time and     *)
(* completes it once, so completedTurns never suppresses anything here.    *)
(***************************************************************************)
EXTENDS Naturals, Sequences

CONSTANTS
  MaxCall,      \* requests made: initialize, thread/start, then turns
  None, Failed

ASSUME BoundAssumption == MaxCall \in Nat /\ MaxCall > 2
ASSUME ValueAssumption ==
  /\ None \notin Nat /\ Failed \notin Nat /\ None # Failed
  /\ None \notin {"done", "aborted"}

Call == 1..MaxCall    \* request ids
Setup == {1, 2}       \* initialize and thread/start
Turn == Call \ Setup

\* Texts: the final answer of a turn, a bubble of another phase, and none.
Text == [phase : {"final", "bubble"}, turn : Turn]
NoText == [phase |-> "none", turn |-> 0]

VARIABLES
  pc,        \* where the worker is
  n,         \* its current request (nextID)
  pending,   \* the requests with a registered channel
  chan,      \* what the channel of the current request holds
  turnSeen,  \* the turn has been signalled
  turnErr,   \* turnErr # ""
  turnWait,  \* the turn whose channel signalTurn sends to
  finished,  \* what that channel holds
  output,    \* the final answer recorded (sawCodexFinalAnswer: not NoText)
  fallback,  \* the last other bubble recorded
  result,    \* how each request returned: failed, or the text of the turn
  reader,    \* "run", "done" at the end of stdout, "failed" at an overlong line
  signal,    \* what signalTurn, past its compare-and-swap, has to send
  agent,     \* the child process: "up" or "dead"
  stdin, stdout,  \* the pipes
  serving,   \* the request the server works on
  sent,      \* what it has sent for each turn
  clean      \* the turns begun with nothing left over from an earlier one

turnVars == <<turnSeen, turnErr, turnWait, finished>>
textVars == <<output, fallback>>
callVars == <<pending, chan>>
readerVars == <<reader, signal>>
agentVars == <<agent, serving, sent>>
vars == <<pc, n, callVars, turnVars, textVars, result, readerVars, agentVars,
          stdin, stdout, clean>>

Init ==
  /\ pc = "ready" /\ n = 0
  /\ pending = {} /\ chan = "empty"
  /\ turnSeen = FALSE /\ turnErr = FALSE /\ turnWait = None /\ finished = "empty"
  /\ output = NoText /\ fallback = NoText
  /\ result = [i \in Call |-> None]
  /\ reader = "run" /\ signal = None
  /\ agent = "up" /\ stdin = <<>> /\ stdout = <<>>
  /\ serving = None /\ sent = [t \in Turn |-> {}]
  /\ clean = {}

-----------------------------------------------------------------------------
(* The worker: startCodexAppServer's two requests, then runTurn, any number *)
(* of times, or closeCodexApp.                                              *)

BeginSetup ==
  /\ pc = "ready" /\ n + 1 \in Setup
  /\ n' = n + 1
  /\ pc' = "register"
  /\ UNCHANGED <<callVars, turnVars, textVars, result, readerVars, agentVars,
                 stdin, stdout, clean>>

Quiet == serving = None /\ stdin = <<>> /\ stdout = <<>> /\ signal = None

\* Faulty: the flag of the previous turn stays.
BeginTurn_KeepsSeen ==
  /\ pc = "ready" /\ n + 1 \in Turn
  /\ n' = n + 1
  /\ clean' = IF Quiet THEN clean \cup {n + 1} ELSE clean
  /\ turnErr' = FALSE
  /\ pc' = "arm"
  /\ UNCHANGED <<callVars, turnSeen, turnWait, finished, textVars, result, readerVars,
                 agentVars, stdin, stdout>>

BeginTurn ==
  /\ pc = "ready" /\ n + 1 \in Turn
  /\ n' = n + 1
  /\ clean' = IF Quiet THEN clean \cup {n + 1} ELSE clean
  /\ turnSeen' = FALSE
  /\ turnErr' = FALSE
  /\ pc' = "arm"
  /\ UNCHANGED <<callVars, turnWait, finished, textVars, result, readerVars,
                 agentVars, stdin, stdout>>

Arm ==
  /\ pc = "arm"
  /\ turnWait' = n
  /\ finished' = "empty"
  /\ pc' = "reset"
  /\ UNCHANGED <<n, callVars, turnSeen, turnErr, textVars, result, readerVars,
                 agentVars, stdin, stdout, clean>>

\* Faulty: the answer of the previous turn stays.
ResetText_KeepsOutput ==
  /\ pc = "reset"
  /\ fallback' = NoText
  /\ pc' = "register"
  /\ UNCHANGED <<n, callVars, turnVars, output, result, readerVars, agentVars,
                 stdin, stdout, clean>>

ResetText ==
  /\ pc = "reset"
  /\ output' = NoText
  /\ fallback' = NoText
  /\ pc' = "register"
  /\ UNCHANGED <<n, callVars, turnVars, result, readerVars, agentVars, stdin, stdout, clean>>

Register ==
  /\ pc = "register"
  /\ pending' = pending \cup {n}
  /\ chan' = "empty"
  /\ pc' = "send"
  /\ UNCHANGED <<n, turnVars, textVars, result, readerVars, agentVars,
                 stdin, stdout, clean>>

\* The request or the turn has failed. A failed setup shuts the process down.
Fail ==
  /\ result' = [result EXCEPT ![n] = Failed]
  /\ turnWait' = None /\ finished' = "empty"
  /\ pc' = IF n \in Setup THEN "close" ELSE "ready"

\* Writing to a dead child fails.
SendRequest ==
  /\ pc = "send"
  /\ IF agent = "up"
     THEN /\ stdin' = Append(stdin, n)
          /\ pc' = "response"
          /\ UNCHANGED <<pending, turnWait, finished, result>>
     ELSE /\ pending' = pending \ {n}
          /\ Fail
          /\ UNCHANGED stdin
  /\ UNCHANGED <<n, chan, turnSeen, turnErr, textVars, readerVars, agentVars,
                 stdout, clean>>

ResponseOK ==
  /\ pc = "response" /\ chan = "reply"
  /\ chan' = "empty"
  /\ pc' = IF n \in Setup THEN "ready" ELSE "wait"
  /\ UNCHANGED <<n, pending, turnVars, textVars, result, readerVars, agentVars,
                 stdin, stdout, clean>>

\* An error response, an empty thread id, or stdout closed.
ResponseFail ==
  /\ pc = "response"
  /\ \/ chan = "error"
     \/ n = 2 /\ chan = "reply"
  /\ chan' = "empty"
  /\ Fail
  /\ UNCHANGED <<n, pending, turnSeen, turnErr, textVars, readerVars,
                 agentVars, stdin, stdout, clean>>

\* Faulty: the abandoned channel stays registered.
Timeout_KeepsPending ==
  /\ pc \in {"response", "wait"}
  /\ Fail
  /\ UNCHANGED <<n, callVars, turnSeen, turnErr, textVars, readerVars, agentVars,
                 stdin, stdout, clean>>

\* ctx.Done() in request or in runTurn: nothing tells the server to stop.
Timeout ==
  /\ pc \in {"response", "wait"}
  /\ pending' = pending \ {n}
  /\ Fail
  /\ UNCHANGED <<n, chan, turnSeen, turnErr, textVars, readerVars, agentVars,
                 stdin, stdout, clean>>

\* The turn was signalled as over.
Finish ==
  /\ pc = "wait" /\ finished \in {"done", "aborted"}
  /\ IF finished = "aborted" THEN Fail
     ELSE /\ turnWait' = None /\ finished' = "empty"
          /\ pc' = "check"
          /\ UNCHANGED result
  /\ UNCHANGED <<n, callVars, turnSeen, turnErr, textVars, readerVars,
                 agentVars, stdin, stdout, clean>>

\* codexSlackFacingText: the final answer, else the last other bubble, else
\* "(no assistant text captured)", which NoText stands for.
SlackFacingText == IF output # NoText THEN output ELSE fallback

TakeText ==
  /\ pc = "check"
  /\ result' = [result EXCEPT ![n] = IF turnErr THEN Failed ELSE SlackFacingText]
  /\ pc' = "ready"
  /\ UNCHANGED <<n, callVars, turnVars, textVars, readerVars, agentVars,
                 stdin, stdout, clean>>

BeginClose ==
  /\ pc = "ready" /\ n >= 2
  /\ pc' = "close"
  /\ UNCHANGED <<n, callVars, turnVars, textVars, result, readerVars, agentVars,
                 stdin, stdout, clean>>

\* A dead server: what it had not read or was working on is gone, what it has
\* written can still be read.
Dead == agent' = "dead" /\ serving' = None /\ stdin' = <<>>

\* shutdownProcess: kill, then Wait, which closes the pipe the reader reads.
Kill ==
  /\ pc = "close"
  /\ Dead
  /\ stdout' = <<>>
  /\ pc' = "join"
  /\ UNCHANGED <<n, callVars, turnVars, textVars, result, readerVars, sent, clean>>

Join ==
  /\ pc = "join" /\ reader # "run"
  /\ pc' = "closed"
  /\ UNCHANGED <<n, callVars, turnVars, textVars, result, readerVars, agentVars,
                 stdin, stdout, clean>>

-----------------------------------------------------------------------------
(* The reader.                                                              *)

Line(kind, i) == [kind |-> kind, call |-> i]

\* The reader has a line of this kind in front; it belongs to request i.
NextLine(kind, i) ==
  /\ reader = "run" /\ signal = None
  /\ stdout # <<>> /\ Head(stdout) = Line(kind, i)
  /\ stdout' = Tail(stdout)

\* handleResponse: a response nobody waits for is dropped.
ReadResponse(i) ==
  \E kind \in {"reply", "error"} :
    /\ NextLine(kind, i)
    /\ chan' = IF i \in pending THEN kind ELSE chan
    /\ pending' = pending \ {i}
    /\ UNCHANGED <<pc, n, turnVars, textVars, result, readerVars, agentVars, stdin, clean>>

ReadBubble(i) ==
  /\ NextLine("bubble", i)
  /\ fallback' = [phase |-> "bubble", turn |-> i]
  /\ UNCHANGED <<pc, n, callVars, turnVars, output, result, readerVars, agentVars,
                 stdin, clean>>

\* The first half of signalTurn, its compare-and-swap.
BeginSignal(outcome) ==
  /\ turnSeen' = TRUE
  /\ signal' = IF turnSeen THEN None ELSE outcome

\* A final answer ends the turn before the server completes it.
ReadFinal(i) ==
  /\ NextLine("final", i)
  /\ output' = [phase |-> "final", turn |-> i]
  /\ BeginSignal("done")
  /\ UNCHANGED <<pc, n, callVars, turnErr, turnWait, finished, fallback, result, reader,
                 agentVars, stdin, clean>>

\* An error that is not retried.
ReadTurnError(i) ==
  /\ NextLine("turnerror", i)
  /\ turnErr' = TRUE
  /\ BeginSignal("done")
  /\ UNCHANGED <<pc, n, callVars, turnWait, finished, textVars, result, reader,
                 agentVars, stdin, clean>>

\* Faulty: a failed turn counts as a successful one.
ReadCompleted_FailedIsOK(i) ==
  \E status \in {"completed", "failed", "aborted"} :
    /\ NextLine(status, i)
    /\ UNCHANGED turnErr
    /\ BeginSignal(IF status = "aborted" THEN "aborted" ELSE "done")
    /\ UNCHANGED <<pc, n, callVars, turnWait, finished, textVars, result, reader,
                   agentVars, stdin, clean>>

\* turn/completed.
ReadCompleted(i) ==
  \E status \in {"completed", "failed", "aborted"} :
    /\ NextLine(status, i)
    /\ turnErr' = (turnErr \/ status = "failed")
    /\ BeginSignal(IF status = "aborted" THEN "aborted" ELSE "done")
    /\ UNCHANGED <<pc, n, callVars, turnWait, finished, textVars, result, reader,
                   agentVars, stdin, clean>>

\* The second half of signalTurn: the signal goes to whatever turn is waiting
\* by now, or nowhere.
EndSignal ==
  /\ signal # None
  /\ finished' = IF turnWait # None /\ finished = "empty" THEN signal ELSE finished
  /\ signal' = None
  /\ UNCHANGED <<pc, n, callVars, turnSeen, turnErr, turnWait, textVars, result, reader,
                 agentVars, stdin, stdout, clean>>

\* stdout is at its end, once what a dead server has written is read; or the
\* line in front is longer than the scanner takes: then neither that line nor
\* what the server goes on to write is read.
EndOfStdout ==
  /\ reader = "run" /\ signal = None
  /\ stdout # <<>> \/ agent = "dead"
  /\ reader' = IF stdout = <<>> THEN "done" ELSE "failed"

\* Faulty: nobody is told.
ReadEnd_KeepsPending ==
  /\ EndOfStdout
  /\ UNCHANGED <<pc, n, callVars, turnVars, textVars, result, signal, agentVars,
                 stdin, stdout, clean>>

\* closeAllPending releases the requests registered by now; a turn that waits
\* to be signalled is not told, nor is any later request.
ReadEnd ==
  /\ EndOfStdout
  /\ chan' = IF n \in pending THEN "error" ELSE chan
  /\ pending' = {}
  /\ UNCHANGED <<pc, n, turnVars, textVars, result, signal, agentVars, stdin, stdout, clean>>

-----------------------------------------------------------------------------
(* The server, as the app-server protocol has it.                           *)

Write(line) == stdout' = Append(stdout, line)

AgentReceive ==
  /\ agent = "up" /\ serving = None /\ stdin # <<>>
  /\ LET i == Head(stdin) IN
       \/ Write(Line("error", i)) /\ UNCHANGED serving
       \/ Write(Line("reply", i)) /\ serving' = IF i \in Setup THEN None ELSE i
  /\ stdin' = Tail(stdin)
  /\ UNCHANGED <<pc, n, callVars, turnVars, textVars, result, readerVars, agent, sent, clean>>

\* A bubble and a final answer at most, then an error or not, then the end.
AgentSays(kind) ==
  /\ agent = "up" /\ serving # None
  /\ kind \notin sent[serving] /\ "turnerror" \notin sent[serving]
  /\ Write(Line(kind, serving))
  /\ sent' = [sent EXCEPT ![serving] = @ \cup {kind}]
  /\ UNCHANGED <<pc, n, callVars, turnVars, textVars, result, readerVars, agent, serving,
                 stdin, clean>>

AgentCompletes(status) ==
  /\ agent = "up" /\ serving # None
  /\ "turnerror" \in sent[serving] => status = "failed"
  /\ Write(Line(status, serving))
  /\ sent' = [sent EXCEPT ![serving] = @ \cup {status}]
  /\ serving' = None
  /\ UNCHANGED <<pc, n, callVars, turnVars, textVars, result, readerVars, agent, stdin, clean>>

AgentDies ==
  /\ agent = "up"
  /\ Dead
  /\ UNCHANGED <<pc, n, callVars, turnVars, textVars, result, readerVars, sent, stdout, clean>>

-----------------------------------------------------------------------------
Working ==
  \/ Arm \/ ResetText \/ Register \/ SendRequest \/ ResponseOK \/ ResponseFail
  \/ Finish \/ TakeText \/ Kill \/ Join

Reading ==
  \/ \E i \in Call : ReadResponse(i)
  \/ \E i \in Turn : ReadBubble(i) \/ ReadFinal(i) \/ ReadTurnError(i) \/ ReadCompleted(i)
  \/ EndSignal \/ ReadEnd

Agent ==
  \/ AgentReceive \/ AgentDies
  \/ \E kind \in {"bubble", "final", "turnerror"} : AgentSays(kind)
  \/ \E status \in {"completed", "failed", "aborted"} : AgentCompletes(status)

Next == BeginSetup \/ BeginTurn \/ BeginClose \/ Timeout \/ Working \/ Reading \/ Agent

Spec == Init /\ [][Next]_vars

\* Both goroutines run; nothing is expected of the server, and no timeout
\* has to come.
FairSpec == Spec /\ WF_vars(Working) /\ WF_vars(Reading)

-----------------------------------------------------------------------------
(* Properties.                                                              *)

Ended(t) == sent[t] \cap {"completed", "failed", "aborted"} # {}

\* What turn t said, as far as Slack is concerned.
OwnText(t) ==
  IF "final" \in sent[t] THEN [phase |-> "final", turn |-> t]
  ELSE IF "bubble" \in sent[t] THEN [phase |-> "bubble", turn |-> t]
  ELSE NoText

IsText(t) == result[t] \notin {None, Failed}

\* Every variable has its type; no channel of an earlier request is still
\* registered, and no channel of an earlier turn still signalled.
TypeOK ==
  /\ pc \in {"ready", "arm", "reset", "register", "send", "response", "wait", "check",
             "close", "join", "closed"}
  /\ n \in 0..MaxCall
  /\ pending \subseteq {n}
  /\ chan \in {"empty", "reply", "error"}
  /\ {turnSeen, turnErr} \subseteq BOOLEAN
  /\ turnWait \in {None, n}
  /\ finished \in {"empty", "done", "aborted"}
  /\ output \in Text \cup {NoText} /\ fallback \in Text \cup {NoText}
  /\ \A t \in Turn : IsText(t) => result[t] \in Text \cup {NoText}
  /\ reader \in {"run", "done", "failed"}
  /\ signal \in {None, "done", "aborted"}
  /\ agent \in {"up", "dead"}
  /\ stdin \in Seq(1..n)
  /\ stdout \in Seq([kind : {"reply", "error", "bubble", "final", "turnerror",
                             "completed", "failed", "aborted"}, call : 1..n])
  /\ serving \in (3..n) \cup {None}
  /\ sent \in [Turn -> SUBSET {"bubble", "final", "turnerror",
                              "completed", "failed", "aborted"}]
  /\ clean \subseteq 3..n

\* A turn begun when the server was done with all earlier ones returns its
\* own final answer, or its own last bubble if it had none; and no text at
\* all if the server aborted it, or failed it, before a final answer.
CleanTurnIsExact ==
  \A t \in clean : IsText(t) =>
    /\ result[t] = OwnText(t)
    /\ "final" \in sent[t] \/ "completed" \in sent[t]

\* However turns overlap, what the server says is told at most once, and not
\* before the turn that caused it has begun.
ToldOnce ==
  \A t, u \in Turn : IsText(t) /\ result[t] # NoText =>
    /\ result[t].turn <= t
    /\ t # u => result[u] # result[t]

\* A turn begun that way, and ended by the server, returns without a timeout,
\* unless an overlong line has ended the reader: it is not told of that.
CleanTurnReturns ==
  \A t \in Turn :
    t \in clean /\ Ended(t) ~> result[t] # None \/ reader = "failed"

\* A turn's request registered while the reader runs does not wait for its
\* timeout when the reader ends, at the end of stdout or at an overlong line.
\* One registered later does, if the server lives on.
ReaderEndReleases ==
  \A t \in Turn :
    <>(reader = "run" /\ t \in pending)
      => []<>(reader = "run" \/ n # t \/ pc \notin {"send", "response"})

\* "Only phase "final_answer" is sent to Slack; earlier phases are ignored
\* unless no final_answer arrives in the turn".
FinalAnswerIsSent ==
  \A t \in Turn : IsText(t) /\ "final" \in sent[t] =>
    result[t] = [phase |-> "final", turn |-> t]
=============================================================================
