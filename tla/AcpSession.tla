----------------------------- MODULE AcpSession -----------------------------
(***************************************************************************)
(* A provider session over ACP: internal/acp.Client and the turn protocol  *)
(* that internal/provider.Handle runs on it. Two goroutines of the         *)
(* scheduler share the client: the worker, which makes one call at a time, *)
(* and readLoop. The agent is a child process at the other end of a pipe   *)
(* each way; it serves one request at a time and may die, stop answering,  *)
(* or write a line longer than the scanner's buffer.                       *)
(***************************************************************************)
EXTENDS Naturals, Sequences

CONSTANTS
  MaxCall,      \* calls made: initialize, session/new, then prompts
  MaxChunk,     \* message chunks and requests an agent sends per turn
  None, Failed

ASSUME BoundAssumption == MaxCall \in Nat /\ MaxCall > 2 /\ MaxChunk \in Nat \ {0}
ASSUME ValueAssumption == None \notin Nat /\ Failed \notin Nat /\ None # Failed

Call == 1..MaxCall               \* request ids
Setup == {1, 2}                  \* initialize and session/new
Text == [Call -> 0..(MaxCall * MaxChunk)]  \* chunks of each turn in a text
NoText == [i \in Call |-> 0]
\* A request of the agent's has an id that is an int64, or any other: JSON-RPC
\* allows strings, and numbers of any size.
Request == {"intRequest", "otherRequest"}

VARIABLES
  pc,        \* where the worker is
  n,         \* its current call (Client.nextID)
  pending,   \* Client.pending: the calls with a registered channel
  chan,      \* the channel of each call: what it holds
  readErr,   \* Client.readErr # nil
  reader,    \* readLoop: "run" or "stopped"
  held,      \* the response readLoop took out of pending and has to deliver
  collected, \* Collector.assistant
  result,    \* how each call returned: failed, or the text of the turn
  agent,     \* the child process: "up" or "dead"
  stdin, stdout,  \* the pipes
  serving,   \* the request the agent works on
  asked,     \* the request of its own the agent waits for: "no", or its id's kind
  sent,      \* the chunks it has sent for each turn
  timedOut   \* the calls whose context expired

workerVars == <<pc, n, result, timedOut>>
clientVars == <<pending, chan, readErr, collected>>
readerVars == <<reader, held>>
agentVars  == <<agent, serving, sent>>
vars == <<workerVars, clientVars, readerVars, agentVars, stdin, stdout, asked>>

Init ==
  /\ pc = "ready" /\ n = 0
  /\ pending = {} /\ chan = [i \in Call |-> "empty"] /\ readErr = FALSE
  /\ reader = "run" /\ held = None
  /\ collected = NoText
  /\ result = [i \in Call |-> None] /\ timedOut = {}
  /\ agent = "up" /\ stdin = <<>> /\ stdout = <<>>
  /\ serving = None /\ asked = "no" /\ sent = NoText

-----------------------------------------------------------------------------
(* The worker: Start's two calls, then Prompt, any number of times, or Close. *)

\* Faulty: the id is read before it is advanced; the collector is not reset.
BeginCall_OldId ==
  /\ pc = "ready" /\ n < MaxCall
  /\ pc' = "register"
  /\ UNCHANGED <<n, result, timedOut, clientVars, readerVars, agentVars, stdin, stdout, asked>>

BeginCall_NoReset ==
  /\ pc = "ready" /\ n < MaxCall
  /\ n' = n + 1
  /\ pc' = "register"
  /\ UNCHANGED <<result, timedOut, clientVars, readerVars, agentVars, stdin, stdout, asked>>

\* Prompt resets the collector before Call takes the next id.
BeginCall ==
  /\ pc = "ready" /\ n < MaxCall
  /\ n' = n + 1
  /\ collected' = IF n + 1 \in Setup THEN collected ELSE NoText
  /\ pc' = "register"
  /\ UNCHANGED <<result, timedOut, pending, chan, readErr, readerVars, agentVars,
                 stdin, stdout, asked>>

\* A failed call of Start closes the handle.
Fail ==
  /\ result' = [result EXCEPT ![n] = Failed]
  /\ pc' = IF n \in Setup THEN "close" ELSE "ready"

\* Faulty: readErr is not looked at.
Register_Unchecked ==
  /\ pc = "register"
  /\ pending' = pending \cup {n}
  /\ pc' = "send"
  /\ UNCHANGED <<n, result, timedOut, chan, readErr, collected, readerVars, agentVars,
                 stdin, stdout, asked>>

\* Under mu: fail when the reader has stored an error, else add the channel.
Register ==
  /\ pc = "register"
  /\ IF readErr THEN Fail /\ UNCHANGED pending
     ELSE pending' = pending \cup {n} /\ pc' = "send" /\ UNCHANGED result
  /\ UNCHANGED <<n, timedOut, chan, readErr, collected, readerVars, agentVars,
                 stdin, stdout, asked>>

\* Faulty: the collector is reset after the request is on its way.
SendRequest_LateReset ==
  \/ /\ pc = "send" /\ agent = "up"
     /\ stdin' = Append(stdin, n)
     /\ pc' = "reset"
     /\ UNCHANGED <<n, result, timedOut, clientVars, readerVars, agentVars, stdout, asked>>
  \/ /\ pc = "reset"
     /\ collected' = NoText
     /\ pc' = "wait"
     /\ UNCHANGED <<n, result, timedOut, pending, chan, readErr, readerVars, agentVars,
                    stdin, stdout, asked>>

\* Writing to a dead child fails, and the channel is taken back.
SendRequest ==
  /\ pc = "send"
  /\ IF agent = "up"
     THEN /\ stdin' = Append(stdin, n)
          /\ pc' = "wait"
          /\ UNCHANGED <<pending, result>>
     ELSE /\ pending' = pending \ {n}
          /\ Fail
          /\ UNCHANGED stdin
  /\ UNCHANGED <<n, timedOut, chan, readErr, collected, readerVars, agentVars, stdout, asked>>

\* Faulty: the abandoned channel stays registered.
Timeout_KeepsPending ==
  /\ pc = "wait"
  /\ timedOut' = timedOut \cup {n}
  /\ Fail
  /\ UNCHANGED <<n, clientVars, readerVars, agentVars, stdin, stdout, asked>>

\* ctx.Done(): the channel is abandoned; nothing tells the agent to stop.
Timeout ==
  /\ pc = "wait"
  /\ pending' = pending \ {n}
  /\ timedOut' = timedOut \cup {n}
  /\ Fail
  /\ UNCHANGED <<n, chan, readErr, collected, readerVars, agentVars, stdin, stdout, asked>>

\* An error response, or a channel closed by readLoop.
ReceiveFailure ==
  /\ pc = "wait"
  /\ chan[n] \in {"error", "closed"}
  /\ pending' = IF chan[n] = "error" THEN pending \ {n} ELSE pending
  /\ Fail
  /\ UNCHANGED <<n, timedOut, chan, readErr, collected, readerVars, agentVars,
                 stdin, stdout, asked>>

ReceiveReply ==
  /\ pc = "wait"
  /\ chan[n] = "reply"
  /\ pending' = pending \ {n}
  /\ pc' = IF n \in Setup THEN "ready" ELSE "text"
  /\ UNCHANGED <<n, result, timedOut, chan, readErr, collected, readerVars, agentVars,
                 stdin, stdout, asked>>

TakeText ==
  /\ pc = "text"
  /\ result' = [result EXCEPT ![n] = collected]
  /\ pc' = "ready"
  /\ UNCHANGED <<n, timedOut, clientVars, readerVars, agentVars, stdin, stdout, asked>>

\* The scheduler closes an idle session.
BeginClose ==
  /\ pc = "ready" /\ n >= 2
  /\ pc' = "close"
  /\ UNCHANGED <<n, result, timedOut, clientVars, readerVars, agentVars, stdin, stdout, asked>>

\* Faulty: the child is asked to end by closing its input, and left to it.
CloseAndKill_NoKill ==
  /\ pc = "close"
  /\ pending' = {}
  /\ pc' = "join"
  /\ UNCHANGED <<n, result, timedOut, chan, readErr, collected, readerVars, agentVars,
                 stdin, stdout, asked>>

\* ClosePending, then Kill.
CloseAndKill ==
  /\ pc = "close"
  /\ chan' = [i \in Call |-> IF i \in pending THEN "closed" ELSE chan[i]]
  /\ pending' = {}
  /\ agent' = "dead"
  /\ pc' = "join"
  /\ UNCHANGED <<n, result, timedOut, readErr, collected, readerVars, serving, sent,
                 stdin, stdout, asked>>

\* Faulty: Close does not wait for readLoop.
Join_NoWait ==
  /\ pc = "join"
  /\ pc' = "closed"
  /\ UNCHANGED <<n, result, timedOut, clientVars, readerVars, agentVars, stdin, stdout, asked>>

\* WaitReadLoop.
Join ==
  /\ pc = "join"
  /\ reader = "stopped"
  /\ pc' = "closed"
  /\ UNCHANGED <<n, result, timedOut, clientVars, readerVars, agentVars, stdin, stdout, asked>>

-----------------------------------------------------------------------------
(* readLoop.                                                                *)

Line(kind, i) == [kind |-> kind, call |-> i]

\* readLoop is back at Scan with a line of this kind in front.
NextLine(kind) ==
  /\ reader = "run" /\ held = None
  /\ stdout # <<>> /\ Head(stdout).kind = kind
  /\ stdout' = Tail(stdout)

\* A session/update notification.
ReadChunk ==
  /\ NextLine("chunk")
  /\ collected' = [collected EXCEPT ![Head(stdout).call] = @ + 1]
  /\ UNCHANGED <<workerVars, pending, chan, readErr, readerVars, agentVars, stdin, asked>>

\* Faulty: a failing handler sends no response.
ReadRequest_Silent ==
  /\ \/ NextLine("intRequest") /\ asked' \in {asked, "no"}
     \/ NextLine("otherRequest") /\ UNCHANGED asked
  /\ UNCHANGED <<workerVars, clientVars, readerVars, agentVars, stdin>>

\* A request of the agent is answered, with a result or an error, before the
\* next line is read. The answer bears the id as an int64, and 0 for an id
\* that is none: then the agent's request stays open.
ReadRequest ==
  /\ \/ NextLine("intRequest") /\ asked' = "no"
     \/ NextLine("otherRequest") /\ UNCHANGED asked
  /\ UNCHANGED <<workerVars, clientVars, readerVars, agentVars, stdin>>

\* A response: its channel is taken out of pending under mu; without one the
\* response is dropped.
ReadResponse ==
  \E kind \in {"reply", "error"} :
    /\ NextLine(kind)
    /\ held' = IF Head(stdout).call \in pending THEN Head(stdout) ELSE None
    /\ pending' = pending \ {Head(stdout).call}
    /\ UNCHANGED <<workerVars, chan, readErr, collected, reader, agentVars, stdin, asked>>

\* The send, after mu is released, to a channel with room for one value.
Deliver ==
  /\ held # None
  /\ chan' = [chan EXCEPT ![held.call] = IF @ = "empty" THEN held.kind ELSE @]
  /\ held' = None
  /\ UNCHANGED <<workerVars, pending, readErr, collected, reader, agentVars,
                 stdin, stdout, asked>>

\* Scan fails: the line is too long, or Wait has closed the pipe of the
\* killed child. The error is stored and every waiter released.
ReadError ==
  /\ \/ NextLine("huge")
     \/ /\ reader = "run" /\ held = None
        /\ pc = "join" /\ agent = "dead"
        /\ UNCHANGED stdout
  /\ reader' = "stopped"
  /\ readErr' = TRUE
  /\ chan' = [i \in Call |-> IF i \in pending THEN "closed" ELSE chan[i]]
  /\ pending' = {}
  /\ UNCHANGED <<workerVars, collected, held, agentVars, stdin, asked>>

\* End of file is no error: nothing is stored and nobody released.
ReadEOF ==
  /\ reader = "run" /\ held = None
  /\ stdout = <<>> /\ agent = "dead"
  /\ reader' = "stopped"
  /\ UNCHANGED <<workerVars, clientVars, held, agentVars, stdin, stdout, asked>>

-----------------------------------------------------------------------------
(* The agent: as the ACP turn protocol has it, one request after another.   *)

AgentReceive ==
  /\ agent = "up" /\ serving = None
  /\ stdin # <<>>
  /\ serving' = Head(stdin)
  /\ stdin' = Tail(stdin)
  /\ UNCHANGED <<workerVars, clientVars, readerVars, agent, sent, stdout, asked>>

AgentChunk ==
  /\ agent = "up" /\ asked = "no"
  /\ serving # None /\ serving \notin Setup
  /\ sent[serving] < MaxChunk
  /\ sent' = [sent EXCEPT ![serving] = @ + 1]
  /\ stdout' = Append(stdout, Line("chunk", serving))
  /\ UNCHANGED <<workerVars, clientVars, readerVars, agent, serving, stdin, asked>>

AgentAsk ==
  /\ agent = "up" /\ asked = "no"
  /\ serving # None /\ serving \notin Setup
  /\ sent[serving] = MaxChunk
  /\ asked' \in Request
  /\ stdout' = Append(stdout, Line(asked', serving))
  /\ UNCHANGED <<workerVars, clientVars, readerVars, agentVars, stdin>>

AgentRespond ==
  /\ agent = "up" /\ asked = "no"
  /\ serving # None
  /\ \E kind \in {"reply", "error"} : stdout' = Append(stdout, Line(kind, serving))
  /\ serving' = None
  /\ UNCHANGED <<workerVars, clientVars, readerVars, agent, sent, stdin, asked>>

AgentHugeLine ==
  /\ agent = "up" /\ serving # None /\ asked = "no"
  /\ \A i \in 1..Len(stdout) : stdout[i].kind # "huge"
  /\ stdout' = Append(stdout, Line("huge", serving))
  /\ UNCHANGED <<workerVars, clientVars, readerVars, agentVars, stdin, asked>>

AgentDies ==
  /\ agent = "up"
  /\ agent' = "dead"
  /\ UNCHANGED <<workerVars, clientVars, readerVars, serving, sent, stdin, stdout, asked>>

-----------------------------------------------------------------------------
Working ==
  \/ Register \/ SendRequest \/ ReceiveFailure \/ ReceiveReply \/ TakeText
  \/ CloseAndKill \/ Join

Reading == ReadChunk \/ ReadRequest \/ ReadResponse \/ Deliver \/ ReadError \/ ReadEOF

Agent ==
  \/ AgentReceive \/ AgentChunk \/ AgentAsk \/ AgentRespond \/ AgentHugeLine \/ AgentDies

Next == BeginCall \/ BeginClose \/ Timeout \/ Working \/ Reading \/ Agent

Spec == Init /\ [][Next]_vars

\* Both goroutines run. Nothing is expected of the agent, and no timeout has
\* to come: what is promised holds without waiting for one.
FairSpec == Spec /\ WF_vars(Working) /\ WF_vars(Reading)

-----------------------------------------------------------------------------
(* Properties.                                                              *)

IsText(i) == result[i] # None /\ result[i] # Failed

\* Every variable has its type; nothing in the pipes, registered or being
\* served is a call that has not been made.
TypeOK ==
  /\ pc \in {"ready", "register", "send", "wait", "text", "close", "join", "closed"}
  /\ n \in 0..MaxCall
  /\ pending \subseteq 1..n
  /\ chan \in [Call -> {"empty", "reply", "error", "closed"}]
  /\ readErr \in BOOLEAN
  /\ reader \in {"run", "stopped"}
  /\ held = None \/ held \in [kind : {"reply", "error"}, call : 1..n]
  /\ collected \in Text
  /\ \A i \in Call : IsText(i) => result[i] \in Text
  /\ timedOut \subseteq 1..n
  /\ agent \in {"up", "dead"}
  /\ stdin \in Seq(1..n)
  /\ stdout \in Seq([kind : {"chunk", "intRequest", "otherRequest", "reply", "error", "huge"}, call : 1..n])
  /\ serving \in 1..n \cup {None}
  /\ asked \in Request \cup {"no"}
  /\ sent \in Text

\* A turn that succeeds returns everything the agent said in it: no chunk is
\* dropped by the reset, or still unread when the text is taken.
WholeText == \A i \in Call : IsText(i) => result[i][i] = sent[i]

\* What another turn said gets into a text only if that turn was given up at
\* its timeout: failures of any other kind leave nothing behind.
ForeignTextOnlyAfterTimeout ==
  \A i, j \in Call : IsText(i) /\ i # j /\ result[i][j] > 0 => j < i /\ j \in timedOut

\* Between calls no channel is registered: every way out of Call, raced by
\* readLoop or not, takes it back. Once Close has returned, readLoop is over,
\* with no response in its hands, and touches the session no more.
NothingLeftBehind ==
  /\ pc \in {"ready", "text", "close", "join", "closed"} => pending = {}
  /\ pc = "closed" => reader = "stopped" /\ held = None

\* A call that waits when reading fails, or that begins later, does not wait
\* for its timeout.
ReadErrorReleasesCalls == readErr /\ pc = "wait" ~> pc # "wait"

\* Close completes, whatever the agent has left in the pipes.
CloseCompletes == pc = "close" ~> pc = "closed"

\* The agent is not left waiting for a request it made under an int64 id
\* while readLoop runs. Under any other id its request is never answered.
AgentRequestsAnswered == asked = "intRequest" ~> asked = "no" \/ reader = "stopped"

\* "Prompt runs one user turn; returns visible assistant text."
TextIsOwn == \A i, j \in Call : IsText(i) /\ i # j => result[i][j] = 0
=============================================================================
