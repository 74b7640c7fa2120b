----------------------------- MODULE CursorRun -----------------------------
(***************************************************************************)
(* internal/provider's cursor_cli transport: one cursor-agent process per  *)
(* prompt, whose stdout is read to its end, whose stderr is read by a      *)
(* goroutine of its own, and which is waited for at last. What the agent   *)
(* starts in the background inherits both pipes and may outlive it.        *)
(*                                                                         *)
(* A text is the bubble it came from. The agent is external: it names its  *)
(* tool calls, completes only what it started, and writes what it likes.   *)
(***************************************************************************)
EXTENDS Naturals, SequencesExt

CONSTANTS
  MaxPrompt,  \* bound: prompts of the session
  MaxLine,    \* bound: lines per prompt
  PipeCap,    \* lines a full stdout pipe holds
  Tool,       \* tool calls of a prompt
  None, Failed,
  Blank,      \* a bubble of white space
  Whole       \* the text of a result event, which joins the bubbles

ASSUME CursorBounds == {MaxPrompt, MaxLine, PipeCap} \subseteq Nat \ {0}
ASSUME CursorTools == Tool \cap {"none", "idle", "thinking"} = {}  \* a phase is none of them

VARIABLES
  pc,       \* promptCursorCLI: "ready", "read", "stderr" or "wait"
  prompt,   \* the prompt it is on
  chat,     \* Handle.sessionID: the prompt whose session_id is resumed
  stream,   \* readCursorStreamJSON and its phase tracker: see Fresh
  agent,    \* the process: "none", "up", "exited" or "failed"
  helper,   \* a process the agent left in the background holds the pipes
  stdout,   \* the pipe
  written,  \* how many lines the agent has written
  tools,    \* its tool calls: "new", "running" or "done"
  running,  \* history: the tool calls started and not completed, as read
  said,     \* history: the last bubble the agent wrote
  expired,  \* prompt_timeout is over
  result    \* what the last prompt returned

vars == <<pc, prompt, chat, stream, agent, helper, stdout, written, tools, running,
          said, expired, result>>

\* The locals of a read: the tracker's tools and flag, the phase last reported,
\* lastAssistant, whether a result was seen with a session id, and the error.
Fresh == [active |-> <<>>, thinking |-> FALSE, shown |-> "none", last |-> None,
          result |-> FALSE, id |-> FALSE, error |-> FALSE]

Init ==
  /\ pc = "ready" /\ prompt = 0 /\ chat = None /\ stream = Fresh
  /\ agent = "none" /\ helper = FALSE /\ stdout = <<>> /\ written = 0
  /\ tools = [t \in Tool |-> "new"] /\ running = {} /\ said = None /\ expired = FALSE /\ result = None

-----------------------------------------------------------------------------
(* The tracker: which phase a line makes it report.                         *)

TopTool(active) == active[Len(active)]

\* Faulty: the most recent tool is taken to be the one that completed.
Removed_Latest(active, t) == IF active = <<>> THEN active ELSE SubSeq(active, 1, Len(active) - 1)
\* removeActiveTool: the first of that id.
Removed(active, t) == RemoveFirst(active, t)

\* A tool that completes gives way to the latest one that runs; thinking that
\* is over reports nothing while tools run.
Track(s, l) ==
  LET left == Removed(s.active, l.tool) IN
  CASE l.kind = "started" ->
         [s EXCEPT !.active = Append(@, l.tool), !.shown = l.tool]
    [] l.kind = "completed" ->
         [s EXCEPT !.active = left,
                   !.shown = IF left # <<>> THEN TopTool(left)
                             ELSE IF s.thinking THEN @ ELSE "idle"]
    [] l.kind = "delta" ->
         [s EXCEPT !.thinking = TRUE, !.shown = IF s.thinking THEN @ ELSE "thinking"]
    [] l.kind = "thought" ->
         [s EXCEPT !.thinking = FALSE, !.shown = IF s.active = <<>> THEN "idle" ELSE @]
    [] OTHER -> s

\* parseCursorAssistantLine: a bubble takes the place of the one before it.
Say(s, l) == IF l.kind = "bubble" THEN [s EXCEPT !.last = l.text] ELSE s

\* parseCursorResultLine: an error result ends the read, as does a line that
\* does not fit the scanner's buffer.
Conclude(s, l) ==
  CASE l.kind = "success" -> [s EXCEPT !.result = TRUE, !.id = l.id \/ @]
    [] l.kind \in {"error", "huge"} -> [s EXCEPT !.error = TRUE]
    [] OTHER -> s

\* Faulty: nothing counts after the result event.
Parse_ResultIsLast(s, l) == IF s.result THEN s ELSE Conclude(Say(s, l), l)
Parse(s, l) == Conclude(Say(s, l), l)

-----------------------------------------------------------------------------
(* The worker: promptCursorCLI.                                             *)

Start ==
  /\ pc = "ready" /\ prompt < MaxPrompt
  /\ prompt' = prompt + 1
  /\ pc' = "read" /\ stream' = Fresh /\ result' = None
  /\ agent' = "up" /\ helper' = FALSE /\ stdout' = <<>> /\ written' = 0
  /\ tools' = [t \in Tool |-> "new"] /\ running' = {} /\ said' = None
  /\ expired' = FALSE
  /\ UNCHANGED chat

StartFails ==
  /\ pc = "ready" /\ prompt < MaxPrompt
  /\ prompt' = prompt + 1
  /\ result' = Failed
  /\ UNCHANGED <<pc, chat, stream, agent, helper, stdout, written, tools, running, said, expired>>

\* What the tool calls read so far leave running.
Running(l) ==
  CASE l.kind = "started"   -> running \cup {l.tool}
    [] l.kind = "completed" -> running \ {l.tool}
    [] OTHER                -> running

\* The scanner hands out a line; the read ends early on an error.
\* Faulty: the prompt returns at once then.
ReadLine_ErrorReturns ==
  LET s == Parse(Track(stream, Head(stdout)), Head(stdout)) IN
  /\ pc = "read" /\ stdout # <<>>
  /\ stdout' = Tail(stdout)
  /\ stream' = s
  /\ running' = Running(Head(stdout))
  /\ pc' = IF s.error THEN "ready" ELSE "read"
  /\ UNCHANGED <<prompt, chat, agent, helper, written, tools, said, expired, result>>

ReadLine ==
  LET s == Parse(Track(stream, Head(stdout)), Head(stdout)) IN
  /\ pc = "read" /\ stdout # <<>>
  /\ stdout' = Tail(stdout)
  /\ stream' = s
  /\ running' = Running(Head(stdout))
  /\ pc' = IF s.error THEN "stderr" ELSE "read"
  /\ UNCHANGED <<prompt, chat, agent, helper, written, tools, said, expired, result>>

\* A pipe ends when nobody holds its other end any more.
PipesClosed == agent # "up" /\ ~helper

StdoutEnds ==
  /\ pc = "read" /\ stdout = <<>> /\ PipesClosed
  /\ stream' = [stream EXCEPT !.error = ~stream.result]
  /\ pc' = "stderr"
  /\ UNCHANGED <<prompt, chat, agent, helper, stdout, written, tools, running, said,
                 expired, result>>

\* stderrWg.Wait
StderrEnds ==
  /\ pc = "stderr" /\ PipesClosed
  /\ pc' = "wait"
  /\ UNCHANGED <<prompt, chat, stream, agent, helper, stdout, written, tools, running,
                 said, expired, result>>

\* Faulty: a bubble of white space counts.
Text_BlankCounts == IF stream.last = None THEN Whole ELSE stream.last
Text == IF stream.last \in {None, Blank} THEN Whole ELSE stream.last

\* cmd.Wait; a session id is only kept by a prompt that succeeds.
Return ==
  LET ok == ~stream.error /\ agent = "exited" IN
  /\ pc = "wait" /\ agent # "up"
  /\ pc' = "ready"
  /\ result' = IF ok THEN Text ELSE Failed
  /\ chat' = IF ok /\ stream.id THEN prompt ELSE chat
  /\ UNCHANGED <<prompt, stream, agent, helper, stdout, written, tools, running, said, expired>>

-----------------------------------------------------------------------------
(* prompt_timeout: the context's end kills the agent, not its helpers.      *)

\* Faulty: the command is not bound to the context.
Expire_Alone ==
  /\ pc # "ready" /\ ~expired
  /\ expired' = TRUE
  /\ UNCHANGED <<pc, prompt, chat, stream, agent, helper, stdout, written, tools, running,
                 said, result>>

Expire ==
  /\ pc # "ready" /\ ~expired
  /\ expired' = TRUE
  /\ agent' = IF agent = "up" THEN "failed" ELSE agent
  /\ UNCHANGED <<pc, prompt, chat, stream, helper, stdout, written, tools, running, said,
                 result>>

-----------------------------------------------------------------------------
(* The agent. It blocks while the pipe is full.                             *)

Line ==
  [kind : {"started", "completed"}, tool : Tool] \cup
  [kind : {"delta", "thought", "error", "huge"}] \cup
  [kind : {"bubble"}, text : {written + 1, Blank}] \cup
  [kind : {"success"}, id : BOOLEAN]

Turned(l) ==
  CASE l.kind = "started"   -> tools[l.tool] = "new" /\ tools' = [tools EXCEPT ![l.tool] = "running"]
    [] l.kind = "completed" -> tools[l.tool] = "running" /\ tools' = [tools EXCEPT ![l.tool] = "done"]
    [] OTHER                -> UNCHANGED tools

Write(l) ==
  /\ agent = "up" /\ written < MaxLine /\ Len(stdout) < PipeCap
  /\ Turned(l)
  /\ stdout' = Append(stdout, l)
  /\ written' = written + 1
  /\ said' = IF l.kind = "bubble" THEN l.text ELSE said
  /\ UNCHANGED <<pc, prompt, chat, stream, agent, helper, running, expired, result>>

Exit ==
  /\ agent = "up"
  /\ agent' \in {"exited", "failed"}
  /\ UNCHANGED <<pc, prompt, chat, stream, helper, stdout, written, tools, running, said,
                 expired, result>>

\* A background process: it begins with the agent and ends when it likes.
Background ==
  /\ \/ agent = "up" /\ ~helper
     \/ helper
  /\ helper' = ~helper
  /\ UNCHANGED <<pc, prompt, chat, stream, agent, stdout, written, tools, running, said,
                 expired, result>>

-----------------------------------------------------------------------------
Worker == ReadLine \/ StdoutEnds \/ StderrEnds \/ Return

Next ==
  \/ Start \/ StartFails \/ Worker \/ Expire
  \/ \E l \in Line : Write(l)
  \/ Exit \/ Background

Spec == Init /\ [][Next]_vars

\* The worker's goroutines run and the timeout comes; nothing is assumed of
\* the agent or of what it starts.
Fairness == WF_vars(Worker) /\ WF_vars(Expire)

FairSpec == Spec /\ Fairness

-----------------------------------------------------------------------------
(* Properties.                                                              *)

\* Every variable has its type, and the tracker knows no tool of another prompt.
TypeOK ==
  /\ pc \in {"ready", "read", "stderr", "wait"}
  /\ prompt \in 0..MaxPrompt /\ chat \in (1..prompt) \cup {None}
  /\ stream \in [active : Seq(Tool), thinking : BOOLEAN,
                  shown : Tool \cup {"none", "idle", "thinking"},
                  last : (1..MaxLine) \cup {None, Blank},
                  result : BOOLEAN, id : BOOLEAN, error : BOOLEAN]
  /\ agent \in {"none", "up", "exited", "failed"} /\ helper \in BOOLEAN
  /\ Len(stdout) <= PipeCap /\ written \in 0..MaxLine
  /\ tools \in [Tool -> {"new", "running", "done"}]
  /\ running \subseteq {t \in Tool : tools[t] # "new"}
  /\ said \in (1..MaxLine) \cup {None, Blank}
  /\ expired \in BOOLEAN
  /\ result \in (1..MaxLine) \cup {None, Failed, Whole}

\* A prompt that succeeds returns the last thing the agent said, whatever came
\* before or after its result event and however late the process ended; the
\* joined text only if the last bubble was blank or there was none.
AnswerIsLastBubble ==
  result \notin {None, Failed} =>
    result = IF said \in {None, Blank} THEN Whole ELSE said

\* While lines are read, the phase shown follows the work: idle exactly when
\* no tool runs and no thinking is open; a tool that is shown runs, unless it
\* was the last one and thinking is still open.
PhaseTracksWork ==
  pc = "read" =>
    LET quiet == running = {} /\ ~stream.thinking IN
    /\ stream.shown \in {"none", "idle"} <=> quiet
    /\ stream.shown \in Tool =>
         stream.shown \in running \/ (running = {} /\ stream.thinking)

\* Between prompts no agent runs: a prompt that failed early, or timed out,
\* has waited for its process before the next one begins in the same
\* directory, or the directory is removed.
NoRunawayAgent == pc = "ready" => agent # "up"

\* prompt_timeout ends every prompt, except that a background process which
\* holds the pipes may hold the worker for ever.
PromptReturns == pc # "ready" ~> (pc = "ready" \/ helper)
=============================================================================
