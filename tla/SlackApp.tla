------------------------------ MODULE SlackApp ------------------------------
(***************************************************************************)
(* The daemon as Slack sees it: internal/slackapp's one event goroutine,   *)
(* the workers it feeds, the goroutine that reads a codex server and       *)
(* reports phases, and the assistant status of each thread, which lives in *)
(* Slack and which all three of them set. The process may be restarted.    *)
(*                                                                         *)
(* The filter is reduced to its deduper, which may forget at any time      *)
(* (MessageFilter has its clock and the rest), the worker to the order of  *)
(* its steps (Scheduler has its resources), the turn to its phase callback *)
(* (CodexTurn has the rest).                                               *)
(***************************************************************************)
EXTENDS Naturals, SequencesExt

CONSTANTS
  Source,        \* the messages in Slack that the access policy lets in
  Msg, SourceOf, \* what the daemon takes them for: one it has forgotten is another
  Thread, ThreadOf,  \* the Slack threads, the thread of each message
  Workloads,     \* what may happen from outside: see Workload
  Item,          \* the tracked items of a turn, a tool call each
  QueueCap,      \* capacity of a worker's channel
  None

Variant == {"message", "app_mention"}
Envelope == Source \X Variant

\* Bounds: how often Slack sends each envelope, which items the server works
\* on, and how often the process is restarted.
Workload(w) ==
  /\ w.tries \in [Envelope -> Nat]
  /\ w.items \subseteq Msg \X Item
  /\ w.restarts \in Nat

ASSUME WorkloadAssumption == \A w \in Workloads : Workload(w)
ASSUME MessageAssumption == ThreadOf \in [Msg -> Thread]
ASSUME SourceAssumption ==
  /\ SourceOf \in [Msg -> Source]
  /\ \A s \in Source : \E m \in Msg : SourceOf[m] = s
  /\ \A m, n \in Msg : SourceOf[m] = SourceOf[n] => ThreadOf[m] = ThreadOf[n]
ASSUME QueueAssumption == QueueCap \in Nat \ {0}
ASSUME NoneAssumption == None \notin Msg \cup Item /\ "idle" \notin Item

VARIABLES
  due,       \* how often Slack will still send each envelope
  restarts,  \* restarts still to come
  seen,      \* the messages the deduper has let pass
  forgotten, \* those whose keys have expired since
  loop,      \* the event goroutine: where it is and with which message
  worker,    \* per thread: where its worker is and with which message
  queue,     \* per thread: the worker's channel
  stack,     \* per thread: phaseStack of its codex connection
  report,    \* per thread: the notification its reader is working on
  item,      \* what the reader has been told of each item of each turn
  lastPhase, \* lastPhaseKey of each message's callback
  status,    \* per thread, in Slack: "none", "live", or "stray"
  alone,     \* history: messages whose status was set in a thread at rest
  accepted,  \* history, per thread: the messages dispatched by this process
  answered,  \* history, per thread: the messages this process tried to answer
  fate       \* history: "open", "answered", "dropped" or "forfeited"

slackVars == <<due, restarts, forgotten>>
threadVars == <<worker, queue>>
phaseVars == <<stack, report, item, lastPhase>>
statusVars == <<status, alone>>
historyVars == <<accepted, answered, fate>>
vars == <<slackVars, seen, loop, threadVars, phaseVars, statusVars, historyVars>>

AtRest == [pc |-> "select", msg |-> None]
NoWorker == [pc |-> "none", msg |-> None]
\* A frame is an item of a turn; Idle is reported when there is none.
Idle == <<None, "idle">>
NoReport == [pc |-> "none", msg |-> None, frame |-> None]

Init ==
  /\ \E w \in Workloads :
       /\ due = w.tries /\ restarts = w.restarts
       /\ item = [m \in Msg |-> [i \in Item |-> IF <<m, i>> \in w.items THEN "new" ELSE "none"]]
  /\ seen = {} /\ forgotten = {} /\ loop = AtRest
  /\ worker = [t \in Thread |-> NoWorker]
  /\ queue = [t \in Thread |-> <<>>]
  /\ stack = [t \in Thread |-> <<>>]
  /\ report = [t \in Thread |-> NoReport]
  /\ lastPhase = [m \in Msg |-> None]
  /\ status = [t \in Thread |-> "none"] /\ alone = {}
  /\ accepted = [t \in Thread |-> <<>>]
  /\ answered = [t \in Thread |-> <<>>]
  /\ fate = [m \in Msg |-> "open"]

-----------------------------------------------------------------------------
(* What is where.                                                           *)

\* The messages of thread t still to be answered, the oldest first: the
\* worker's, the channel's, the event goroutine's.
Clearing(t) == worker[t].pc = "clear"
InWorker(t) == IF worker[t].msg = None \/ Clearing(t) THEN <<>> ELSE <<worker[t].msg>>
InLoop(t) == IF loop.msg # None /\ ThreadOf[loop.msg] = t THEN <<loop.msg>> ELSE <<>>
Pipeline(t) == InWorker(t) \o queue[t] \o InLoop(t)

Busy(t) == Pipeline(t) # <<>> \/ Clearing(t)
Elements(s) == {s[i] : i \in 1..Len(s)}
Holds(m) == m \in Elements(Pipeline(ThreadOf[m]))

\* The items of a message once its connection is gone, or before it has one.
After(m, st) == [i \in Item |-> IF item[m][i] = "none" THEN "none" ELSE st]

\* A status nobody is going to clear any more.
Abandoned(st) == IF st = "none" THEN "none" ELSE "stray"

\* A send to a worker that has returned: nobody will receive it.
Stranded == loop.pc = "stranded"

-----------------------------------------------------------------------------
(* The event goroutine. It acknowledges, filters, sets the status, looks    *)
(* the worker up and sends, one event after another for all threads.        *)

\* An acknowledgement that is lost leaves Slack with its further tries.
Acknowledge(e) == due' \in {[due EXCEPT ![e] = 0], [due EXCEPT ![e] = @ - 1]}

Remembered(s) == {m \in seen \ forgotten : SourceOf[m] = s}

\* Faulty: the two kinds of event of a message have no key in common.
Duplicate_PerVariant(e) == Remembered(e[1]) # {} /\ e[2] = "message"
Duplicate(e) == Remembered(e[1]) # {}

\* A key is deleted when it is 5 minutes old. No clock is kept here: it may be
\* at once, or while the loop is blocked. Bound: the next message Msg has for
\* the source.
New(s) == {m \in Msg \ seen : SourceOf[m] = s}

Forget(m) ==
  /\ m \in seen \ forgotten
  /\ New(SourceOf[m]) # {}
  /\ forgotten' = forgotten \cup {m}
  /\ UNCHANGED <<due, restarts, seen, loop, threadVars, phaseVars, statusVars, historyVars>>

\* seen records what it is asked about, so a duplicate changes nothing.
Drop(e) ==
  /\ loop.pc = "select" /\ due[e] > 0
  /\ Duplicate(e)
  /\ Acknowledge(e)
  /\ UNCHANGED <<restarts, seen, forgotten, loop, threadVars, phaseVars, statusVars,
                 historyVars>>

\* The message is taken for the new one m.
TakenFor(e, m) ==
  /\ m \in New(e[1])
  /\ seen' = seen \cup {m}
  /\ loop' = [pc |-> "status", msg |-> m]
  /\ accepted' = [accepted EXCEPT ![ThreadOf[m]] = Append(@, m)]

Dispatch(e) ==
  /\ loop.pc = "select" /\ due[e] > 0
  /\ ~Duplicate(e)
  /\ Acknowledge(e)
  /\ TakenFor(e, CHOOSE m \in New(e[1]) : TRUE)
  /\ UNCHANGED <<restarts, forgotten, threadVars, phaseVars, statusVars, answered, fate>>

\* The bootstrap status, before the message is queued; an error is logged.
SetStatus ==
  LET t == ThreadOf[loop.msg] IN
  /\ loop.pc = "status"
  /\ loop' = [loop EXCEPT !.pc = "lookup"]
  /\ \/ UNCHANGED statusVars
     \/ /\ status' = [status EXCEPT ![t] = "live"]
        /\ alone' = IF Pipeline(t) = <<loop.msg>> /\ ~Clearing(t)
                    THEN alone \cup {loop.msg} ELSE alone
  /\ UNCHANGED <<slackVars, seen, threadVars, phaseVars, historyVars>>

\* Enqueue under Scheduler.mu: a worker whose goroutine has not returned is
\* still in the map.
Lookup ==
  LET t == ThreadOf[loop.msg] IN
  /\ loop.pc = "lookup"
  /\ loop' = [loop EXCEPT !.pc = "send"]
  /\ worker' = IF worker[t].pc = "none"
               THEN [worker EXCEPT ![t].pc = "fresh"] ELSE worker
  /\ UNCHANGED <<slackVars, seen, queue, phaseVars, statusVars, historyVars>>

\* Faulty: a send that never blocks.
Send_Unbounded ==
  /\ loop.pc = "send"
  /\ queue' = [queue EXCEPT ![ThreadOf[loop.msg]] = Append(@, loop.msg)]
  /\ loop' = AtRest
  /\ UNCHANGED <<slackVars, seen, worker, phaseVars, statusVars, historyVars>>

\* The channel send blocks the goroutine while the channel is full.
Send ==
  LET t == ThreadOf[loop.msg] IN
  /\ loop.pc = "send"
  /\ Len(queue[t]) < QueueCap
  /\ queue' = [queue EXCEPT ![t] = Append(@, loop.msg)]
  /\ loop' = AtRest
  /\ UNCHANGED <<slackVars, seen, worker, phaseVars, statusVars, historyVars>>

\* Settle what became of the messages ms; an answer is final.
Settle(ms, f) ==
  fate' = [m \in Msg |-> IF m \in ms /\ fate[m] # "answered" THEN f ELSE fate[m]]

\* The worker looked up has returned meanwhile, and its channel had room.
SendToGone ==
  /\ loop.pc = "gone"
  /\ Settle({loop.msg}, "dropped")
  /\ status' = [status EXCEPT ![ThreadOf[loop.msg]] = Abandoned(@)]
  /\ loop' = AtRest
  /\ UNCHANGED <<slackVars, seen, threadVars, phaseVars, alone, accepted, answered>>

-----------------------------------------------------------------------------
(* The workers. runTurn installs the job's callback and takes it back; Done *)
(* posts the answer and then clears the status.                             *)

Moves(t, pc) == worker' = [worker EXCEPT ![t].pc = pc]

Take(t) ==
  /\ worker[t].pc \in {"fresh", "select"}
  /\ queue[t] # <<>>
  /\ worker' = [worker EXCEPT ![t] = [pc |-> "setup", msg |-> Head(queue[t])]]
  /\ queue' = [queue EXCEPT ![t] = Tail(@)]
  /\ UNCHANGED <<slackVars, seen, loop, phaseVars, statusVars, historyVars>>

FreshStack(t) == [stack EXCEPT ![t] = <<>>]

BeginTurn(t) ==
  /\ worker[t].pc = "setup"
  /\ Moves(t, "turn")
  /\ stack' = FreshStack(t)
  /\ UNCHANGED <<slackVars, seen, loop, queue, report, item, lastPhase, statusVars, historyVars>>

\* A directory, hook, launch or context that fails: Done with the error.
FailSetup(t) ==
  /\ worker[t].pc = "setup"
  /\ Moves(t, "post")
  /\ item' = [item EXCEPT ![worker[t].msg] = After(worker[t].msg, "closed")]
  /\ UNCHANGED <<slackVars, seen, loop, queue, stack, report, lastPhase, statusVars, historyVars>>

EndTurn(t) ==
  /\ worker[t].pc = "turn"
  /\ Moves(t, "post")
  /\ stack' = FreshStack(t)
  /\ UNCHANGED <<slackVars, seen, loop, queue, report, item, lastPhase, statusVars, historyVars>>

\* Faulty: Done returns when the post has failed.
Post_ErrorReturns(t) ==
  /\ worker[t].pc = "post"
  /\ answered' = [answered EXCEPT ![t] = Append(@, worker[t].msg)]
  /\ Settle({worker[t].msg}, "answered")
  /\ \/ /\ worker' = [worker EXCEPT ![t] = AtRest]
        /\ UNCHANGED status
     \/ /\ Moves(t, "clear")
        /\ status' = [status EXCEPT ![t] = "none"]
  /\ UNCHANGED <<slackVars, seen, loop, queue, phaseVars, alone, accepted>>

\* One attempt. Slack clears the status of a thread the app posts to.
Post(t) ==
  /\ worker[t].pc = "post"
  /\ Moves(t, "clear")
  /\ answered' = [answered EXCEPT ![t] = Append(@, worker[t].msg)]
  /\ Settle({worker[t].msg}, "answered")
  /\ \/ UNCHANGED status
     \/ status' = [status EXCEPT ![t] = "none"]
  /\ UNCHANGED <<slackVars, seen, loop, queue, phaseVars, alone, accepted>>

\* The clearing call; an error is logged, and the worker selects again.
Clear(t) ==
  /\ worker[t].pc = "clear"
  /\ worker' = [worker EXCEPT ![t] = AtRest]
  /\ \/ status' = [status EXCEPT ![t] = Abandoned(@)]
     \/ status' = [status EXCEPT ![t] = "none"]
  /\ UNCHANGED <<slackVars, seen, loop, queue, phaseVars, alone, historyVars>>

\* The idle timer, armed once a job is done, fires; then the worker closes
\* its session, and returns with whatever its channel holds. The stack goes
\* with the connection; a reader caught in between still makes its report.
Expire(t) ==
  /\ worker[t].pc = "select"
  /\ Moves(t, "leaving")
  /\ UNCHANGED <<slackVars, seen, loop, queue, phaseVars, statusVars, historyVars>>

Return(t) ==
  LET sending == loop.pc = "send" /\ ThreadOf[loop.msg] = t IN
  /\ worker[t].pc = "leaving"
  /\ Moves(t, "none")
  /\ queue' = [queue EXCEPT ![t] = <<>>]
  /\ Settle(Elements(queue[t]), "dropped")
  /\ status' = IF queue[t] = <<>> THEN status ELSE [status EXCEPT ![t] = Abandoned(@)]
  /\ loop' = IF sending
             THEN [loop EXCEPT !.pc = IF Len(queue[t]) < QueueCap THEN "gone" ELSE "stranded"]
             ELSE loop
  /\ stack' = [stack EXCEPT ![t] = <<>>]
  /\ item' = [m \in Msg |-> IF ThreadOf[m] = t /\ m \in Elements(answered[t])
                            THEN After(m, "closed") ELSE item[m]]
  /\ report' = IF report[t].pc = "push" THEN [report EXCEPT ![t].pc = "emit"] ELSE report
  /\ UNCHANGED <<slackVars, seen, lastPhase, alone, accepted, answered>>

-----------------------------------------------------------------------------
(* The reader of a codex server: item/started and item/completed. It takes  *)
(* the callback of whatever turn is on, changes the stack, and calls Slack  *)
(* when it has released the mutex. Notifications of a turn may be read when *)
(* a later one is on. Bound: one reader per thread at work on a report.     *)

\* streamPhase
Callback(t) == IF worker[t].pc = "turn" THEN worker[t].msg ELSE None

\* The server has been given the turn of message m of thread t.
Begun(t, m) ==
  \/ m \in Elements(answered[t])
  \/ m = worker[t].msg /\ worker[t].pc # "setup"

Notify(m, i, from, to) ==
  /\ report[ThreadOf[m]] = NoReport
  /\ Begun(ThreadOf[m], m)
  /\ item[m][i] = from
  /\ item' = [item EXCEPT ![m][i] = to]

Reports(t, pc, frame) ==
  report' = [report EXCEPT ![t] = [pc |-> pc, msg |-> Callback(t), frame |-> frame]]

Ignores(t) == Callback(t) = None /\ UNCHANGED <<report, stack>>

\* item/started up to the first unlock: only the callback is read.
ItemStarted(m, i) ==
  LET t == ThreadOf[m] IN
  /\ Notify(m, i, "new", "running")
  /\ \/ Ignores(t)
     \/ /\ Callback(t) # None
        /\ Reports(t, "push", <<m, i>>)
        /\ UNCHANGED stack
  /\ UNCHANGED <<slackVars, seen, loop, threadVars, lastPhase, statusVars, historyVars>>

\* By now the stack may be that of another turn, or of none.
Push(t) ==
  /\ report[t].pc = "push"
  /\ stack' = [stack EXCEPT ![t] = Append(@, report[t].frame)]
  /\ report' = [report EXCEPT ![t].pc = "emit"]
  /\ UNCHANGED <<slackVars, seen, loop, threadVars, item, lastPhase, statusVars, historyVars>>

\* Faulty: whatever is on top goes.
Without_Top(s, f) == IF s = <<>> THEN s ELSE SubSeq(s, 1, Len(s) - 1)
\* The first frame of the item, as the search stops there.
Without(s, f) == RemoveFirst(s, f)

\* item/completed, under the mutex: the phase goes back to what is on top.
ItemCompleted(m, i) ==
  LET t == ThreadOf[m]
      left == Without(stack[t], <<m, i>>)
  IN
  /\ Notify(m, i, "running", "done")
  /\ \/ Ignores(t)
     \/ /\ Callback(t) # None
        /\ stack' = [stack EXCEPT ![t] = left]
        /\ Reports(t, "emit", IF left = <<>> THEN Idle ELSE left[Len(left)])
  /\ UNCHANGED <<slackVars, seen, loop, threadVars, lastPhase, statusVars, historyVars>>

\* What a status call of the callback leaves in Slack.
\* Faulty: going idle takes the status away.
Shown_IdleClears(t) == IF report[t].frame = Idle THEN "none" ELSE "live"
Shown(t) == IF Busy(t) THEN "live" ELSE "stray"

\* The callback: a phase like the last one is not sent again.
Emit(t) ==
  LET m == report[t].msg
      key == report[t].frame[2]
  IN
  /\ report[t].pc = "emit"
  /\ report' = [report EXCEPT ![t] = NoReport]
  /\ lastPhase' = [lastPhase EXCEPT ![m] = key]
  /\ \/ UNCHANGED status
     \/ key # lastPhase[m] /\ status' = [status EXCEPT ![t] = Shown(t)]
  /\ UNCHANGED <<slackVars, seen, loop, threadVars, stack, item, alone, historyVars>>

-----------------------------------------------------------------------------
(* A restart. Nothing of the process is kept; Slack keeps what it shows and *)
(* what it has not been told is received.                                   *)

\* Faulty: the deduper outlives the process.
SeenAfterRestart_OnDisk == seen
SeenAfterRestart == {}

Restart ==
  /\ restarts > 0
  /\ restarts' = restarts - 1
  /\ Settle({m \in Msg : Holds(m) /\ \A v \in Variant : due[<<SourceOf[m], v>>] = 0}, "forfeited")
  /\ status' = [t \in Thread |-> Abandoned(status[t])]
  /\ seen' = SeenAfterRestart
  /\ forgotten' = {}
  /\ loop' = AtRest
  /\ worker' = [t \in Thread |-> NoWorker]
  /\ queue' = [t \in Thread |-> <<>>]
  /\ stack' = [t \in Thread |-> <<>>]
  /\ report' = [t \in Thread |-> NoReport]
  /\ item' = [m \in Msg |-> After(m, "new")]
  /\ lastPhase' = [m \in Msg |-> None]
  /\ alone' = {}
  /\ accepted' = [t \in Thread |-> <<>>]
  /\ answered' = [t \in Thread |-> <<>>]
  /\ UNCHANGED due

-----------------------------------------------------------------------------
Loop == SetStatus \/ Lookup \/ Send \/ SendToGone

\* Expire is apart: it needs no message to be useful, and no fairness here.
Work(t) ==
  Take(t) \/ BeginTurn(t) \/ FailSetup(t) \/ EndTurn(t) \/ Post(t) \/ Clear(t) \/ Return(t)

Read(t) == Push(t) \/ Emit(t)

Next ==
  \/ \E e \in Envelope : Drop(e) \/ Dispatch(e)
  \/ \E m \in Msg : Forget(m)
  \/ Loop
  \/ \E t \in Thread : Work(t) \/ Expire(t) \/ Read(t)
  \/ \E m \in Msg, i \in Item : ItemStarted(m, i) \/ ItemCompleted(m, i)
  \/ Restart

Spec == Init /\ [][Next]_vars

\* Slack sends an event the loop is ready for, goroutines that can run do,
\* turns end and Slack calls return. Nothing is assumed of the reader.
Fairness ==
  /\ \A e \in Envelope : WF_vars(Drop(e) \/ Dispatch(e))
  /\ WF_vars(Loop)
  /\ \A t \in Thread : WF_vars(Work(t))

FairSpec == Spec /\ Fairness

-----------------------------------------------------------------------------
(* Properties.                                                              *)

\* Every variable has its type, and no channel holds more than its capacity.
TypeOK ==
  /\ due \in [Envelope -> Nat] /\ restarts \in Nat
  /\ seen \subseteq Msg /\ forgotten \subseteq seen
  /\ loop \in [pc : {"select"}, msg : {None}] \cup
             [pc : {"status", "lookup", "send", "gone", "stranded"}, msg : Msg]
  /\ worker \in [Thread -> [pc : {"none", "fresh", "select", "leaving"}, msg : {None}] \cup
                          [pc : {"setup", "turn", "post", "clear"}, msg : Msg]]
  /\ queue \in [Thread -> Seq(Msg)] /\ \A t \in Thread : Len(queue[t]) <= QueueCap
  /\ stack \in [Thread -> Seq(Msg \X Item)]
  /\ report \in [Thread -> {NoReport} \cup
       [pc : {"push", "emit"}, msg : Msg, frame : (Msg \X Item) \cup {Idle}]]
  /\ item \in [Msg -> [Item -> {"none", "new", "running", "done", "closed"}]]
  /\ lastPhase \in [Msg -> Item \cup {"idle", None}]
  /\ status \in [Thread -> {"none", "live", "stray"}]
  /\ alone \subseteq Msg
  /\ accepted \in [Thread -> Seq(Msg)] /\ answered \in [Thread -> Seq(Msg)]
  /\ fate \in [Msg -> {"open", "answered", "dropped", "forfeited"}]

Before(s, m, n) == \E i, j \in 1..Len(s) : i < j /\ s[i] = m /\ s[j] = n

\* Through the event goroutine, the channel and the worker, and whichever of
\* its events come how often, a message dispatched by this process is in one
\* place, answered at most once, and behind the earlier ones of its thread;
\* the exception are messages sent to a worker that has left its loop. What
\* is dispatched again has been forgotten by the deduper in between.
AnsweredOnceInOrder ==
  \A t \in Thread :
    LET line == answered[t] \o Pipeline(t) IN
    /\ \A i, j \in 1..Len(accepted[t]) :
         i < j /\ SourceOf[accepted[t][i]] = SourceOf[accepted[t][j]]
           => accepted[t][i] # accepted[t][j] /\ accepted[t][i] \in forgotten
    /\ Elements(line) \subseteq Elements(accepted[t])
    /\ \A i, j \in 1..Len(line) : i < j => Before(accepted[t], line[i], line[j])
    /\ \A m \in Elements(accepted[t]) : Holds(m) \/ fate[m] # "open"

\* A status shown for a thread without work is one nobody can be blamed for
\* within Done: a phase reported after its turn, a clearing call that failed,
\* a message lost to a worker that left, or a restart.
StatusIsOwed == \A t \in Thread : status[t] = "live" => Busy(t)

\* A message that found its thread at rest, and whose status Slack accepted,
\* shows a status until its answer, whatever the phases do meanwhile. (One
\* queued behind another loses its status to the other's answer.)
AloneShowsStatus ==
  \A m \in alone :
    LET t == ThreadOf[m] IN
    Holds(m) => status[t] # "none"

\* What the reader is about to report is so: a tool it names has not
\* completed, and it goes idle only when no item of the turn is running, though
\* notifications of earlier turns come late and the stack changes hands.
PhaseIsCurrent ==
  \A t \in Thread : report[t].pc = "emit" =>
    LET f == report[t].frame IN
    IF f = Idle THEN \A i \in Item : item[report[t].msg][i] # "running"
    ELSE item[f[1]][f[2]] # "done"

\* Every message Slack has for the daemon is answered, also if acknowledgements
\* get lost or the process restarts, unless it was acknowledged to a process
\* that stopped before answering, or sent to a worker that has left; so is
\* everything taken for a message, repeats that come too late included. A
\* blocked thread holds up all others, but for ever only behind such a worker.
EveryMessageSettled ==
  /\ \A s \in Source :
       (\E v \in Variant : due[<<s, v>>] > 0)
         ~> (Stranded \/ \E m \in Msg : SourceOf[m] = s /\ fate[m] # "open")
  /\ []<>(Stranded \/ \A m \in seen : fate[m] # "open")
=============================================================================
