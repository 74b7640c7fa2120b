# slacksched, specified

TLA+ models, TLC runs and TLAPS proofs for slacksched, the daemon that binds
every Slack thread to one session of a coding agent. The definitions are
translated from the Go source; `PROJECT.json` maps each of them to its lines.

## 1. The system

```
Slack --events--> slackapp (one goroutine) --ShouldProcess--> messagefilter
                     |                                            |
                     | Enqueue                                    | IsThreadBound
                     v                                            v
                 scheduler: one worker goroutine per thread <-----+
                     |  workspace directory, bearer token, provider session
                     v
                 provider: acp | codex_app_server | cursor_cli  (child process)
                     |  HTTP + token
                     v
                 contextapi ---> Slack Web API
```

| Component | State | Operations | Hard behaviour | What makes it correct |
|---|---|---|---|---|
| scheduler | `workers` map; per worker a channel, provider, directory, token, opening prompt, idle timer | `Enqueue`, the worker loop, the deferred calls | map lookup and channel send are two steps; idle exit against new messages; seven points of failure | one session per thread; resources paired with sessions; every message answered once, in order |
| workspace, agent document | directories below `workspaces_root`, `AGENTS.md` | create, replace the context block, delete or archive | partial creation, failed clean-up | no directory without a session, none removed under a running provider; the file keeps its sections and the latest context |
| contextapi registry | token to thread | register, unregister, lookup | life of a token against life of a session | a token opens its own thread, while its session lives |
| contextapi server, proxy | none | admit, forward | parameter rules; parameters with several values | what is judged of a request names the thread of its token |
| messagefilter | deduper: key to time | `ShouldProcess` | one message as two kinds of event, repeated, reordered; window boundary | accepted once per window, nothing swallowed, policy kept |
| slackapp | none besides the filter | event loop, `dispatch`, `Done` | acknowledges before it processes; one goroutine for all threads, blocked for longer than the filter remembers; Slack calls without timeouts; restarts | a message Slack has is settled, in the order of its thread, and once as long as the filter remembers it |
| assistant status | in Slack; last phase of a message, phase stack of a codex connection | set on arrival, set on phases, cleared on answer | three goroutines, failing calls, late phases, a stack that changes hands | a status while there is work, none the code could still clear |
| acp client | pending calls, read error, collector | `Call`, `readLoop`, `ClosePending` | timeout against late answer; reader against caller; death of the agent | answers go to their call, text to its turn, nobody waits for nothing |
| codex session | pending requests, turn signal, recorded texts | requests, `runTurn`, `signalTurn`, notifications | two goroutines agree on when a turn ends; leftovers of earlier turns | a turn returns its own final answer |
| cursor session | session id | one process per prompt: read, join, wait | overlapping tools, early ends, timeouts, processes left in the background | the last bubble is the answer, phases follow the work, no agent between prompts |
| slackthread | none | page and format a transcript | short and empty pages, a thread that grows, character budget | the first messages without gap or repetition, up to the budget |
| slackmrkdwn | none | convert HTML and Markdown | tags, fences, backticks and tokens inside each other | code, Slack tokens and table rows come back |
| config, main, text helpers | read once | - | - | - |

The hazards, each at its line, are in `PROJECT.json`.

## 2. Modules and plan

| Module | Models | Status |
|---|---|---|
| `Scheduler` | internal/scheduler with the directory and token life cycles | done |
| `ThreadContract` | what a thread is promised (abstract); `Scheduler` refines it | done |
| `MCScheduler` | workloads for TLC | done |
| `SchedulerProofs` | types, one provider per thread; tokens and directories follow their sessions; messages are conserved and `Scheduler` implements `ThreadContract` | done |
| `MessageFilterProofs`, `AcpSessionProofs`, `CodexTurnProofs`, `CursorRunProofs`, `SlackAppProofs` | the safety properties of these modules | done |
| `MessageFilter`, `MCMessageFilter` | messagefilter behind the event loop | done |
| `AcpSession` | internal/acp and the acp transport | done |
| `CodexTurn` | the codex_app_server transport, raw protocol | core done |
| `SlackApp`, `MCSlackApp` | event loop, deduper, queues, workers, phases and assistant status together; lost acknowledgements, failing Slack calls, restart | done |
| `CursorRun` | the cursor_cli transport and its stream reader | done |
| `SlackThread` | internal/slackthread and the parameters of thread/messages (pure) | done |
| `ContextApi` | admission and the rules of the proxy (pure) | done |
| `AgentDoc` | the agent file and its context block (pure) | done |
| `Mrkdwn` | internal/slackmrkdwn but for the one-line substitutions of Markdown (pure) | done |
| `MCDataPath` | `CursorRun` and the inputs of the four pure modules | done |
| `MrkdwnProofs`, `DataPathProofs` | the four pure modules for inputs of any size; the folds and inductions these take | done |

The scheduler came first: every message goes through it and it owns every
resource. The two long-lived transports came next because there a wrong
interleaving shows the user a wrong answer. `SlackApp` composes what `Scheduler`,
`MessageFilter` and `CodexTurn` have in detail, each reduced to the steps the
others can see, because its questions are about all of them at once.

No module uses a RECURSIVE operator, so each of them can be proved about.

## 3. How the models correspond to the code

**Scheduler.** `workers` is `Scheduler.workers`. `worker[w]` is the goroutine
made for job `w`: `pc` is its place in `run`, the other fields are the struct's
and `run`'s variables. A worker, a directory, a token and an opening prompt
each come to be on behalf of one job and are named by it, which needs no
counters and loses nothing: a job creates at most one of each. `Enqueue` is the
locked lookup, `Send` the channel send after it; a send into a full channel is
not enabled, as it blocks. One action stands for each step of the loop that
another goroutine can come between, with every failing branch an action:
`CreateFail`, `HookFail`, `StartFail`, `ContextFail`, `PromptFail`. The idle
branch is five actions (`TakeIdle`, `CloseProvider`, `Cleanup`, `Unregister`,
`Remove`), the order being what the properties are about. The provider is an
outcome; a successful prompt answers with the message whose text was prompted.
The idle timer may fire whenever it is armed. `contextBearerToken` and the local
`bearer` are one field: the token is registered before `Start`, and either taken
back or stored, with nothing observable between. A launched session keeps its
provider until the idle branch, as in the code.

**MessageFilter.** A message has a channel, ts, root, author and whether it
mentions the bot. Any message may be delivered at any time as `message`, and as
`app_mention` if it mentions the bot, any number of times: that covers retries,
reordering and the pair of events Slack sends for a mention. `noise` stands for
the rejections before deduplication. The event loop is one goroutine:
nothing is delivered while it dispatches a message (`dispatching`), which asks
Slack several things before `Enqueue` binds the thread. `SessionEnds` is the
worker's removal, which can come in between, as can the clock. A blank message
is accepted and not enqueued.

**AcpSession.** The worker makes one call at a time: `initialize`, `session/new`,
then prompts, then `Close`. Its steps are cut where it takes or releases the
mutex, writes, or waits; `readLoop` is cut between taking a channel out of
`pending` and sending to it. A text is a count of chunks per turn. The agent
works through its requests one after another and may die, stay silent, send an
error, ask something, or send a line longer than the scanner's buffer. A request
of the agent has an id that is a number or another one: the code reads either
into an int64 and ignores the error, so a request of the second kind is answered
under id 0 and stays open for the agent, which then is as good as silent.
`AgentRequestsAnswered` is about the first kind. End of file and read error are
different, as in the code: only the second releases anybody.

**CodexTurn.** The worker is cut where `runTurn` changes something the reader
looks at: `turnSeen` and `turnErr`, then `turnWait`, then the texts, then the
request. The reader handles a line up to the compare-and-swap of `signalTurn`
in one step and sends the signal in a second. `clean` is a history variable:
the turns that began when no request, line or signal of an earlier one was
outstanding. The reader ends at the end of stdout (`done`), or at a line longer
than its buffer (`failed`), any line being possibly such a one; then the server
lives on and what it writes is not read. Either way `ReadEnd` releases the
requests registered at that moment and nobody else (`ReaderEndReleases` has it for
the requests of turns): a turn that waits, and a request made later, wait for `prompt_timeout`, unless a dead server's pipe fails
the write. The server is external; it works on one turn at a time, answers
`turn/start` when it takes it up, sends at most one early bubble, one final
answer and one error per turn, and completes a turn once.

**SlackApp.** `loop` is the event goroutine: an event is acknowledged and judged
in one step (nobody else looks at the deduper), then the status call, the lookup
and the send are a step each. `Source` is what Slack has; `due` is what it will
still send of each: an acknowledgement that is lost leaves the further tries of
an envelope, and the two kinds of event of a mention are two envelopes of one
source. The deduper may forget a source at any time (`Forget`), which is what its
five minutes come to when the loop may be blocked for any time; what is delivered
after that is another message, so a source has several members of `Msg`, taken
one after the other. The worker has the
steps between which others matter: `Take`, `BeginTurn` and `EndTurn` (where
`runTurn` installs and takes back the callback and the phase stack), `Post`,
`Clear`, and the idle branch as `Expire` and `Return`. A worker that has returned
while the loop was about to send to it leaves that message in a channel nobody
reads (`gone`), or the loop blocked in it (`stranded`). The reader of a codex
server takes the callback, changes the stack, and calls Slack: `ItemStarted`,
`Push`, `Emit`, because `codexPhaseItemStarted` locks twice; `ItemCompleted` locks
once. Notifications may come as late as the server likes, also in a later turn.
`status` is what Slack shows: `live`, or `stray` once nobody can be expected to
clear it, because a clearing call failed, the phase was reported for a thread
without work, the message was lost, or the process restarted. Slack takes a
status away when the app posts to the thread, or does not. A restart keeps only
what Slack has. `answered`, `accepted`, `alone` and `fate` are history.

**CursorRun.** `pc` is where `promptCursorCLI` waits: for a line, for the end of
stderr, for the process. `stream` holds the locals of `readCursorStreamJSON` and
its tracker; a line is read, tracked and parsed in one step, as in the loop. The
agent writes any lines into a bounded pipe, exits or is killed by the timeout,
and may leave a process behind that holds both pipes; a pipe ends when nobody
holds it. The fallbacks behind the last bubble (the result text, all bubbles, a
fixed phrase) are one value, `Whole`.

**SlackThread, ContextApi, AgentDoc, Mrkdwn** are pure. Each states the code's
function, as a fold over its loop where it has one, and what the result means in
other terms: the first messages of a thread and the longest prefix within the
budget; the requests whose first values name the session of a token, forwarded
with all their values but without tokens; the file as its sections around the
latest context; the Markdown of the text with its special characters escaped. A
message is its timestamp and the length of its line; a page of replies may be
shorter or longer than asked for. A parameter has any number of values, each with
its comma-separated texts: a form may repeat a parameter, and a list in JSON
becomes one value, so only a form can say more than the rules look at. A file
is a sequence of sections, markers and line ends; a text is a sequence of
backticks, tokens, HTML tags, special characters and words. The seven patterns of
`htmlTagsToMarkdown` never look at each other's tags, so `HtmlToMarkdown` does them
at once. Where a meaning has an exception
the code loses something, and the exception names it: a body that quotes the end
marker leaves stale context in the file (slack_runtime_context.go:83); three or
more fences in an odd number repeat the last part, and a Slack token inside code
stays a placeholder (format.go:123, 46), and HTML tags are rewritten wherever they
stand, in code as well, because that comes before code is protected (format.go:20);
of a form that repeats a parameter the rules see the first value, and all of them
are forwarded (proxy.go:228, 97); a thread longer than the limit misses its
newest messages (server.go:103).

## 4. Runs

| Run | Question | Bounds | Result |
|---|---|---|---|
| scheduler_safety | are resources paired with sessions, messages conserved, the contract kept? | 3 messages in one thread, 1 in another, capacity 2, every fault | holds |
| scheduler_live | is everybody answered and everything released? | 3 messages, capacity 1, no disk faults, no hook, fair | holds |
| scheduler_lost_job | "Enqueue runs work on the dedicated worker for the job key" | 3 messages, capacity 2, fair | violated |
| scheduler_own_reply | is an answer about its own message? | 3 messages | violated |
| filter | once per window, nothing swallowed, policy kept? | 5 messages, 2 channels and 2 direct messages, window 1, clock to 3 | holds |
| filter_follow_up | "further messages in the thread need no new mention" | 3 messages | violated |
| acp_session | whole texts, nothing left behind, releases and close | 3 prompts, 1 chunk per turn, 1 agent request at a time | holds |
| acp_own_text | does a turn return its own text only? | 2 prompts | violated |
| codex_turn | own text on a quiet server, nothing told twice, waiting requests released | 2 turns | holds |
| codex_final_answer | is the final answer what is sent? | 2 turns | violated |
| slack_app | is every message settled once and in order, and does the status follow the work? | five workloads: overlapping tools; two turns with late notifications; a second thread behind a blocked one; three messages behind a full channel with a doubled event that may come too late, and leaving workers; repeated events with a restart; capacity 1 | holds |
| data_path | does a prompt's data arrive as it should? | cursor: 2 prompts of 4 lines, 2 tools, pipe of 2; threads of 4 messages in pages of 2; 2 sessions, parameters of up to 2 values; 3 updates of the file; texts of 6 pieces, of 5 with HTML, tables of 6 lines | holds |

Why the bounds are enough. A worker and its successor, with one message caught
between them, need three messages of a thread; a second thread shows that tokens
and answers do not cross; capacity 1 and 2 reach both the full channel and a
queue behind the job in hand. The filter's clock goes past twice its window,
which is how far a duplicate can be from the acceptance it repeats. One message
that the deduper may forget, of three in its thread, is dispatched again behind a
full channel, behind an answer and behind a worker that has left. In the two
long-lived transports a turn is only ever disturbed by what is left of earlier
ones, so two turns show it, and three show it reaching past one. The cursor reader
starts afresh for every prompt, so two show what is carried over; four lines hold
two overlapping tools, or a bubble, a tool and a result with something behind it,
and a pipe of two is full while the reader has given up. Six pieces of text are
two code blocks with something in and between them, five a pair of tags that begins
or ends inside code. Every bound on a counter is
a guard (`MaxCall`, `MaxChunk`, `MaxTime`, `MaxPrompt`, `MaxLine`, `PipeCap`); the
workload of `Scheduler` is the finite set `Job`, that of `SlackApp` one of the
finite set `Workloads`. The runs stop when the workload is used up, so deadlock is not
checked in them except for the filter's, whose events never run out.

**The disagreements.**
*scheduler_lost_job*: a worker that took the idle case is still in the map; a
message sent to it then is never received. The window is as long as closing
the provider and removing the directory take.
*scheduler_own_reply*: when the opening prompt fails, the next message is
answered with the opening of the first, and its own text is never prompted.
*filter_follow_up*: with `require_mention_in_channels` a message in a bound
thread still needs a mention; the README says it does not (the comment in
config.go agrees with the code).
*acp_own_text*: what an abandoned prompt still produces is collected into the
text of the next.
*codex_final_answer*: no failure is needed. A final answer ends the turn; the
`turn/completed` that follows it, if read after the next turn has begun, ends
that one.

**Fairness.** The Go scheduler runs every goroutine that can run: weak fairness
of each worker, each caller and each reader. `Start` and `Prompt` run under
`context.WithTimeout`, and the idle timer fires, so a worker with something to do
does it; the hook runs under no timeout and gets fairness only in models where it
is not configured. Closing a provider is assumed to return, which `CloseCompletes`
shows for acp. `Done`, which calls Slack without a timeout, is assumed to
return. Nothing is assumed of an agent or server process, and no timeout is
assumed to come in `AcpSession` and `CodexTurn`: what they promise, they promise
without it. In `CursorRun` the timeout comes, being the property's subject. In
`SlackApp` turns end (`prompt_timeout`; a cursor agent that leaves a process behind
is the exception `PromptReturns` names), Slack calls return, and an event Slack has
is delivered when the loop is ready for it; nothing is assumed of the reader, of
idle timers, or of restarts.

## 5. Proofs

Every theorem holds for all values of the constants: any sets of threads,
messages, callers and tools, any number of calls, turns, prompts and lines, any
capacity and window. Those about the pure parts hold for inputs of any size. None
assumes fairness, so faults, hooks and silent agents are included.

| Module | Theorems | Property |
|---|---|---|
| `SchedulerProofs` | `TypeCorrect`, `SingleProvider`, `TokensPaired`, `DirectoriesOutliveProviders`, `NoDirectoryLeft`, `MessagesConserved`, `ContractImplemented` | `TypeOK` (with the capacity of the channels), `OneProviderPerThread`, `TokensFollowSessions`, `WorkspaceOutlivesProvider`, `NoOrphanWorkspace`, `UnansweredIsHeld`, `ContractHolds` |
| `MessageFilterProofs` | `TypeCorrect`, `OncePerWindow`, `NothingSwallowed`, `PolicyNeverWidens` | `TypeOK`, `AcceptedOncePerWindow`, `DuplicatesWereJudged`, `SessionsStayInPolicy` |
| `AcpSessionProofs` | `TypeCorrect`, `TextIsWhole`, `OnlyTimeoutsLeak`, `NothingStaysBehind` | `TypeOK`, `WholeText`, `ForeignTextOnlyAfterTimeout`, `NothingLeftBehind` |
| `CodexTurnProofs` | `TypeCorrect`, `TextIsToldOnce`, `CleanTurnsAreExact` | `TypeOK`, `ToldOnce`, `CleanTurnIsExact` |
| `CursorRunProofs` | `TypeCorrect`, `LastBubbleReturned`, `PhaseFollowsWork`, `AgentIsWaitedFor` | `TypeOK`, `AnswerIsLastBubble`, `PhaseTracksWork`, `NoRunawayAgent` |
| `SlackAppProofs` | `TypeCorrect`, `AnswersInOrder`, `StatusHasAnOwner`, `StatusUntilAnswer`, `PhasesAreCurrent` | `TypeOK` (with the capacity of the channels), `AnsweredOnceInOrder`, `StatusIsOwed`, `AloneShowsStatus`, `PhaseIsCurrent` |
| `MrkdwnProofs` | `CodeComesBack`, `TablesComeBack` | for texts of any length |
| `DataPathProofs` | `RepliesAreRead`, `WindowIsAnswered`, `BudgetIsFilled`, `ProxyIsKept`, `ContextIsKept` | for threads, registries and files of any size |
| | `ThreadReadInOrder`, `ProxyInSession`, `DocumentKept`, `ReplyContentKept` | `ThreadIsReadInOrder`, `ProxyStaysInSession`, `DocumentSurvives`, `ReplyKeepsItsContent` |

Each module with a state has one inductive invariant, proved with a lemma per action; TLC
checked it on the run's instance before it was proved. What the invariants add to
the properties is the reason why these hold.

**Scheduler.** `IInv` has four parts. `Binding`: the map holds exactly the workers
whose goroutine has not returned, each under its own thread; two workers with a
provider are both alive, so both are the entry of their thread. `Fresh`: a job not
enqueued has made no worker. `Addressed`: a job being sent has a target. `Sane`: a
provider exists only at some places of `run`, never once `CloseProvider` is past.

`SInv` adds that what a worker holds was made for a job handed to it (`OwnedBy`),
where along `run` it holds a directory and a token (`Paired`), that registered
tokens and held ones are the same (`Tokens`), and that directories in use exist and,
while the disk works, existing ones are in use (`Directories`). Ownership is what
makes the failing branches safe: a worker can only remove a directory of its own.
`NoDirectoryLeft` has the hypothesis `~DiskFaults`, as its run has: with a failing
disk the code does leave directories.

`QInv` adds that a message is in one place (`SingleCopies`), in the hands of a
worker of its own thread (`Reached`), that only messages handed over are answered
(`Spoken`), and that an opening not yet answered is about the job in hand or about
one that failed (`Opening`). The refinement maps the queue of a thread in
`ThreadContract` to the job in hand and the channel of its worker, as long as that
worker has not taken the idle branch. `Send` then is the contract's submission, an
answer its answer, `TakeIdle` the loss of what the channel holds; every other step,
and a send to a worker past its last select, leaves the queue alone.

**MessageFilter.** `Windows`: a message accepted within the window still has its
stamp key, with a time not before that acceptance, so no variant of it passes.
`Trails`: what a remembered key proves about its message. A stamp is recorded by
fresh events only; an event id may be recorded by a duplicate, up to one window
later; a client id is never remembered without its event id. This is where the
bound of two windows in `DuplicatesWereJudged` comes from. `DispatchInPolicy`: the
message on its way to `Enqueue` is of a thread the policy admits, by itself or by
the message that bound the thread when it was judged; so it does no harm that this
session may be gone when it is enqueued.

**AcpSession.** `Pipes`: the agent gets a call once and says nothing about it behind
its response. `Registered`: only the call in hand has a channel. `Counts`: the chunks
of the call in hand are collected or still in the pipe, none is missing; those of
earlier calls may have been let go by the reset. With the response at hand and
nothing behind it the pipe has none left, so the text is whole. `Foreign`: a call
that ended, other than at its timeout, has left nothing that could still arrive.

**CodexTurn.** `Pipes`: the server says each thing once and nothing behind the end of
a turn. `Untouched`: of a request not written there is no trace anywhere. `Told`: a
text recorded or told was sent and is not in the pipe any more, and from the reset of
the texts on what is recorded has not been told; a text read later was still in the
pipe, so it is new, too. This carries `ToldOnce` through all overlaps. `Alone`: a clean
turn has the pipes to itself, everything it was sent is recorded or unread, and it can
only count as over (`Done`) with its final answer, an error, or a completion behind
which nothing is unread. The proof needs `None` to differ from the signals, which is
now part of `ValueAssumption`.

**CursorRun.** `ToolLines`: a tool line in the pipe agrees with what is read of its
tool, and a completion comes behind its start. `Tracked` and `Shown`: the tracker has
the running tools, each once, and the phase is one of them, thinking, or idle.
`Bubbles`: the last bubble written is recorded or is the last in the pipe. `Drained`: a
read that ended without an error has read everything. `CursorTools` says that tools
are not called like phases, which are values of their own in the code. `Removed` is
`RemoveFirst`, as removeActiveTool stops at the first match; that tools are tracked
once is what makes it remove all there is.

**SlackApp.** `Ordered`: what a thread has answered, and then what its worker, channel
and the event goroutine hold for it, is its line; the line has only accepted messages,
each once, in the order of acceptance, and accepted messages are those the deduper
has let pass. `Again`: of two accepted messages of one source the earlier is
forgotten, because a source is dispatched again only when the deduper remembers none
of its messages. Each step keeps the line (a message moves over a seam of it), adds a new
message at its end, or drops some, which `Thinned` shows to be harmless. `Alone`: a
message whose status was set in a thread at rest is the head of that line as long as it
is there; this is why no answer to another message can clear its status. `Stacked`,
`Reporting`, `OnStack`: during a turn the phase stack has each running item of the turn
once and nothing that has completed, but for the item whose push the reader is about to
make. `Unbegun`: nothing is told of a turn the server has not been given, so a turn
begins with an empty stack and no running item. `Without` is `RemoveFirst`, as the
code's search stops at the first match. The history of `AnsweredOnceInOrder` is stated
with positions in the sequences, the form the provers can use.

**The pure modules.** They state the code's loops as folds, so what they compute is
proved by induction over the input. The library's induction theorems take operators
as parameters, which the provers cannot instantiate; `Induction` and `SeqInduction`
state it for sets instead (a set with 0 closed under successor is all of Nat), and are
proved from the finiteness of intervals. `FoldLeft` is defined through the `CHOOSE` of
a recursive function over sets of places: `FoldExists` shows that such a function
exists, `FoldPath` that it goes through one state per element, and from these each
fold has three lemmas (`...Run`, `...Step`, `...Base`) that the rest uses. Their
hypotheses are types only: a thread is any sequence, a page any size (too long ones
included), lag and failure, a parameter any sequence of values, a file any sequence of tokens, a text any sequence of atoms.

*Threads.* `Reading` is the invariant of the loop in `CollectReplies`: what has been
read is the first n messages, n at most max. A disturbed page leaves n behind or ends
the loop; an undisturbed one moves it forward, so as many requests as there are
messages, and one more, end the loop at max or at the end of the thread. The
transcript's invariant is that the budget left is the budget given less the cost of
what is written.

*The file.* `Framed` is kept by every update: the four opening tokens, and behind
everything the end marker and what follows it. So the first start marker is the
frame's, whatever bodies and appendix quote, and the first end marker is at or before
the frame's: an update replaces between the two and keeps both. `Unquoted` is what
makes the first end marker the frame's own.

*The proxy.* The two halves of `ProxyKeepsToItsThread` are kept apart: what is
forwarded depends on first values alone, whatever follows them, and when there is
at most one value the first is all there is. A list in JSON is covered by the second:
its texts become one value, which names the session only if there is one text.

*Code and tokens.* `HtmlToMarkdown` writes one atom for one atom and touches tags
only; the rest is about the Markdown it returns. `Holds(kinds, kind, saved, text, done)` is the invariant of each
pass that takes out: `text`, with each placeholder of the pass replaced at once by
what was saved (`Put`), is `done`, what has been read; the placeholders are
numbered in order and are not among the atoms of the input (`Apart`). Restore replaces
them one by one by their first occurrence; `RestoreIsPut` says that this is the same
as all at once if each placeholder is there at most once and what is saved has none
of its kind. Only with the order of `Convert` is that so for each pass: the mutant
that puts blocks back before inline code breaks it, because inline code may hold
placeholders of blocks. `TokenInCode` is what the argument needs for Slack tokens, which are
put back first, when those inside saved code are not in the text yet; `OddFences` is
the one branch of extractCodeBlocks that writes a part twice.

*Tables.* `Converted`: what was written is outside a fence, without the fences and
with the open table's rows it is what was read without separators, and rows are
written inside fences, everything else outside (`Balanced`).

The invariants of `MCDataPath` follow, because the input is chosen at the start and
every set of inputs is one of those the theorems are about. This takes that the value
of an absent parameter is not a token (`NoValueAssumption`).

**Not proved.** Liveness and fairness are out of the prover's reach:
`AnsweredUnlessStranded`, `ThreadsEventuallyReleased`, `ReadErrorReleasesCalls`,
`CloseCompletes`, `AgentRequestsAnswered`, `CleanTurnReturns`, `ReaderEndReleases`,
`EveryMessageSettled`, `PromptReturns`. They are model-checked only. Every invariant
and every action property that a run checks is proved.

## 6. Not modelled

- The texts themselves: prompts, templates, status lines, the regular
  expressions that turn Markdown links, bold, struck out text and headers into
  mrkdwn between the tables and the putting back (format.go:29-43), logging.
- Configuration parsing and the entry point: read once, the CONSTANTS here.
- The Slack library: Socket Mode reconnects. Acknowledgement, redelivery and
  failing calls are in `SlackApp`.
- Pipes that are full in the two long-lived transports: a write to a child
  process does not block in `AcpSession` and `CodexTurn`, as it may in the code
  (client.go:208).
- The unsynchronised map `completedTurns` and the unsynchronised collector: data
  races, listed as hazards. `completedTurns` only matters if a server completes a
  turn twice.
- Legacy codex notifications and approval requests: `CodexTurn` has a server that
  speaks the raw protocol, and `thread/start` asks for no approvals
  (codex_appserver.go:175).
- A write of the agent file that fails half-way (slack_runtime_context.go:94): it
  would leave a truncated file, whose missing markers fail every later message of
  the session. `Refresh` writes the whole file.
- Tool calls of a cursor agent without a `call_id`: they are tracked and never
  removed (cursor_stream.go:112), so the phase stays theirs. The agent of `CursorRun`
  names its calls.
- JSON parameters that are neither text nor list, the size limit of a body, and what
  Slack makes of a repeated parameter.
- How long a Slack call takes: phases are reported in the goroutine that reads
  the provider (app.go:283), which delays what it reads next.
- `BuildPromptWithThreadContext` and `DisplayText`: nothing calls them.
- The reference guide `CreateSessionWorkspace` copies, path names, file modes.

## 7. Running

```
tlc -config SchedulerSafety.cfg MCScheduler
tlc -config SlackApp.cfg MCSlackApp
tlc -config DataPath.cfg MCDataPath
tlapm SchedulerProofs.tla     # and the other *Proofs modules
```

`PROJECT.json` lists every run with its module and configuration, the mutant
that shows each property can fail, and the map to the source.
