----------------------------- MODULE Scheduler -----------------------------
(***************************************************************************)
(* internal/scheduler: one worker goroutine, one workspace and one         *)
(* provider session per Slack thread key.                                  *)
(*                                                                         *)
(* A worker, a workspace directory, a bearer token and an opening prompt   *)
(* are all created on behalf of exactly one job, and are named by it:      *)
(* worker w is the one newWorker made for job w, directory d the one       *)
(* CreateSessionWorkspace made while job d was being served, and so on.    *)
(***************************************************************************)
EXTENDS Sequences, Naturals

CONSTANTS
  Key,          \* Slack threads (session.Key)
  Job,          \* messages handed to Enqueue
  JobKey,       \* the thread of each message
  Caller,       \* goroutines calling Enqueue; slackapp runs a single one
  QueueCap,     \* capacity of worker.jobs (256 in newWorker)
  ContextAPI,   \* TRUE when ctxReg and ctxBaseURL are configured
  HookSet,      \* TRUE when pre_session_command is set; it runs untimed
  DiskFaults,   \* TRUE when mkdir, write or remove may fail half-way
  None, Failed  \* "nothing" and "Done was called with an error"

ASSUME KeyAssumption    == None \notin Key /\ JobKey \in [Job -> Key]
ASSUME JobAssumption    == None \notin Job /\ Failed \notin Job /\ None # Failed
ASSUME CapAssumption    == QueueCap \in Nat \ {0}
ASSUME CallerAssumption == Caller # {}
ASSUME FlagAssumption   == {ContextAPI, HookSet, DiskFaults} \subseteq BOOLEAN

VARIABLES
  workers,     \* Scheduler.workers: the worker bound to each thread
  sending,     \* the job whose Enqueue each caller is executing
  target,      \* the worker Enqueue looked up for each job
  worker,      \* the local state of each worker goroutine
  registered,  \* contextapi.Registry: token -> thread
  disk,        \* directories below workspaces_root
  reply        \* how Done was called: not yet, with an error, or with the
               \* provider's answer to the text of message reply[j]

vars == <<workers, sending, target, worker, registered, disk, reply>>

Maybe(S) == S \cup {None}

\* Where a worker is in run(). The last five are reached from the idle case
\* only, "gone" being a goroutine that has returned.
Closing == {"close", "cleanup", "unregister", "remove", "gone"}
Pc == {"unborn", "select", "create", "hook", "start", "context", "prompt"} \cup Closing

WorkerState ==
  [pc      : Pc,
   jobs    : Seq(Job),        \* the channel's buffer
   cur     : Maybe(Job),      \* the job received from it
   armed   : BOOLEAN,         \* idle # nil
   prov    : BOOLEAN,         \* prov # nil
   ws      : Maybe(Job),      \* the workspace path
   bearer  : Maybe(Job),      \* bearer, then contextBearerToken
   opening : Maybe(Job),      \* sessionBootstrapBody: the message it embeds
   booted  : BOOLEAN]         \* sessionBootstrapDone

Unborn == [pc |-> "unborn", jobs |-> <<>>, cur |-> None, armed |-> FALSE,
           prov |-> FALSE, ws |-> None, bearer |-> None, opening |-> None,
           booted |-> FALSE]

Init ==
  /\ workers    = [k \in Key |-> None]
  /\ sending    = [c \in Caller |-> None]
  /\ target     = [j \in Job |-> None]
  /\ worker     = [w \in Job |-> Unborn]
  /\ registered = [t \in Job |-> None]
  /\ disk       = {}
  /\ reply      = [j \in Job |-> None]

\* Worker w moves on to local state r.
Become(w, r) == worker' = [worker EXCEPT ![w] = r]

-----------------------------------------------------------------------------
(* Enqueue: the lookup is under Scheduler.mu, the channel send is after it. *)

\* The worker a job for thread k goes to; j stands for a new worker.
WorkerFor(k, j) == IF workers[k] = None THEN j ELSE workers[k]

Enqueue(c, j) ==
  LET w == WorkerFor(JobKey[j], j) IN
  /\ sending[c] = None
  /\ target[j] = None
  /\ workers' = [workers EXCEPT ![JobKey[j]] = w]
  /\ Become(w, IF worker[w].pc = "unborn"
                THEN [worker[w] EXCEPT !.pc = "select"] ELSE worker[w])
  /\ target'  = [target EXCEPT ![j] = w]
  /\ sending' = [sending EXCEPT ![c] = j]
  /\ UNCHANGED <<registered, disk, reply>>

\* Faulty: a send that never blocks.
Send_Unbounded(c) ==
  LET w == target[sending[c]] IN
  /\ sending[c] # None
  /\ Become(w, [worker[w] EXCEPT !.jobs = Append(@, sending[c])])
  /\ sending' = [sending EXCEPT ![c] = None]
  /\ UNCHANGED <<workers, target, registered, disk, reply>>

\* The send blocks while the channel is full, whether or not anybody will
\* ever receive from it again.
Send(c) ==
  LET w == target[sending[c]] IN
  /\ sending[c] # None
  /\ Len(worker[w].jobs) < QueueCap
  /\ Become(w, [worker[w] EXCEPT !.jobs = Append(@, sending[c])])
  /\ sending' = [sending EXCEPT ![c] = None]
  /\ UNCHANGED <<workers, target, registered, disk, reply>>

-----------------------------------------------------------------------------
(* The idle case of the select, and the deferred calls after its return.   *)

\* Faulty: the map entry, or the workspace, goes before the provider.
TakeIdle_RemoveFirst(w) ==
  /\ worker[w].pc = "select" /\ worker[w].armed
  /\ Become(w, [worker[w] EXCEPT !.pc = "close"])
  /\ workers' = [workers EXCEPT ![JobKey[w]] = None]
  /\ UNCHANGED <<sending, target, registered, disk, reply>>

TakeIdle_CleanFirst(w) ==
  /\ worker[w].pc = "select" /\ worker[w].armed
  /\ Become(w, [worker[w] EXCEPT !.pc = "close"])
  /\ disk' = disk \ {worker[w].ws}
  /\ UNCHANGED <<workers, sending, target, registered, reply>>

TakeIdle(w) ==
  /\ worker[w].pc = "select"
  /\ worker[w].armed
  /\ Become(w, [worker[w] EXCEPT !.pc = "close"])
  /\ UNCHANGED <<workers, sending, target, registered, disk, reply>>

CloseProvider(w) ==
  /\ worker[w].pc = "close"
  /\ Become(w, [worker[w] EXCEPT !.pc = "cleanup", !.prov = FALSE])
  /\ UNCHANGED <<workers, sending, target, registered, disk, reply>>

\* What CleanupWorkspace leaves below workspaces_root: its error is logged
\* or dropped, and the path is forgotten either way.
AfterCleanup(w) ==
  {disk \ {worker[w].ws}} \cup (IF DiskFaults THEN {disk} ELSE {})

Cleanup(w) ==
  /\ worker[w].pc = "cleanup"
  /\ disk' \in AfterCleanup(w)
  /\ Become(w, [worker[w] EXCEPT !.pc = "unregister", !.ws = None])
  /\ UNCHANGED <<workers, sending, target, registered, reply>>

\* Registry.Unregister of the worker's token, if it has one.
Unregistered(w) == [t \in Job |-> IF t = worker[w].bearer THEN None ELSE registered[t]]

Unregister(w) ==
  /\ worker[w].pc = "unregister"
  /\ registered' = Unregistered(w)
  /\ Become(w, [worker[w] EXCEPT !.pc = "remove", !.bearer = None])
  /\ UNCHANGED <<workers, sending, target, disk, reply>>

Remove(w) ==
  /\ worker[w].pc = "remove"
  /\ workers' = [workers EXCEPT ![JobKey[w]] = None]
  /\ Become(w, [worker[w] EXCEPT !.pc = "gone"])
  /\ UNCHANGED <<sending, target, registered, disk, reply>>

-----------------------------------------------------------------------------
(* The job case of the select.                                             *)

TakeJob(w) ==
  /\ worker[w].pc = "select"
  /\ worker[w].jobs # <<>>
  /\ Become(w, [worker[w] EXCEPT
       !.pc    = IF worker[w].prov THEN "context" ELSE "create",
       !.cur   = Head(worker[w].jobs),
       !.jobs  = Tail(worker[w].jobs),
       !.armed = FALSE])
  /\ UNCHANGED <<workers, sending, target, registered, disk, reply>>

CreateOK(w) ==
  /\ worker[w].pc = "create"
  /\ disk' = disk \cup {worker[w].cur}
  /\ Become(w, [worker[w] EXCEPT !.pc = "hook", !.ws = worker[w].cur])
  /\ UNCHANGED <<workers, sending, target, registered, reply>>

\* job.Done("", err) or job.Done(text, nil)
Done(w, outcome) == reply' = [reply EXCEPT ![worker[w].cur] = outcome]

\* The failing branches before a provider runs: no workspace, resetIdle, continue.
WithoutSession(w) ==
  [worker[w] EXCEPT !.pc = "select", !.cur = None, !.armed = TRUE,
                    !.ws = None, !.bearer = None]

\* An error after MkdirAll leaves the directory behind.
CreateFail(w) ==
  /\ worker[w].pc = "create"
  /\ DiskFaults
  /\ disk' \in {disk, disk \cup {worker[w].cur}}
  /\ Done(w, Failed)
  /\ Become(w, WithoutSession(w))
  /\ UNCHANGED <<workers, sending, target, registered>>

\* The hook succeeded; a token is then registered and the provider launched.
HookOK(w) ==
  /\ worker[w].pc = "hook"
  /\ LET t == IF ContextAPI THEN worker[w].cur ELSE None IN
       /\ Become(w, [worker[w] EXCEPT !.pc = "start", !.bearer = t])
       /\ registered' = [u \in Job |-> IF u = t THEN JobKey[w] ELSE registered[u]]
  /\ UNCHANGED <<workers, sending, target, disk, reply>>

HookFail(w) ==
  /\ worker[w].pc = "hook"
  /\ HookSet
  /\ disk' \in AfterCleanup(w)
  /\ Done(w, Failed)
  /\ Become(w, WithoutSession(w))
  /\ UNCHANGED <<workers, sending, target, registered>>

StartOK(w) ==
  /\ worker[w].pc = "start"
  /\ Become(w, [worker[w] EXCEPT !.pc = "context", !.prov = TRUE,
                                 !.opening = worker[w].cur, !.booted = FALSE])
  /\ UNCHANGED <<workers, sending, target, registered, disk, reply>>

\* Faulty: a failed launch that keeps the token, keeps the directory,
\* does not call Done, or does not rearm the idle timer.
StartFail_Bug(w, tokens, dirs, done, armed) ==
  /\ worker[w].pc = "start"
  /\ registered' = tokens
  /\ disk' \in dirs
  /\ IF done THEN Done(w, Failed) ELSE UNCHANGED reply
  /\ Become(w, [WithoutSession(w) EXCEPT !.armed = armed])
  /\ UNCHANGED <<workers, sending, target>>

StartFail_KeepsToken(w) == StartFail_Bug(w, registered, AfterCleanup(w), TRUE, TRUE)
StartFail_KeepsDir(w)   == StartFail_Bug(w, Unregistered(w), {disk}, TRUE, TRUE)
StartFail_Silent(w)     == StartFail_Bug(w, Unregistered(w), AfterCleanup(w), FALSE, TRUE)
StartFail_NoTimer(w)    == StartFail_Bug(w, Unregistered(w), AfterCleanup(w), TRUE, FALSE)

StartFail(w) ==
  /\ worker[w].pc = "start"
  /\ registered' = Unregistered(w)
  /\ disk' \in AfterCleanup(w)
  /\ Done(w, Failed)
  /\ Become(w, WithoutSession(w))
  /\ UNCHANGED <<workers, sending, target>>

ContextOK(w) ==
  /\ worker[w].pc = "context"
  /\ Become(w, [worker[w] EXCEPT !.pc = "prompt"])
  /\ UNCHANGED <<workers, sending, target, registered, disk, reply>>

\* Back to the select with the session kept: resetIdle.
WithSession(w, booted) ==
  [worker[w] EXCEPT !.pc = "select", !.cur = None, !.armed = TRUE,
                    !.booted = booted]

\* Faulty: the error is reported, and the prompt is sent all the same.
ContextFail_FallsThrough(w) ==
  /\ worker[w].pc = "context"
  /\ Done(w, Failed)
  /\ Become(w, [worker[w] EXCEPT !.pc = "prompt"])
  /\ UNCHANGED <<workers, sending, target, registered, disk>>

ContextFail(w) ==
  /\ worker[w].pc = "context"
  /\ Done(w, Failed)
  /\ Become(w, WithSession(w, worker[w].booted))
  /\ UNCHANGED <<workers, sending, target, registered, disk>>

\* The message whose text is prompted: the opening prompt goes first.
Prompted(w) == IF worker[w].booted THEN worker[w].cur ELSE worker[w].opening

\* Faulty: the bootstrap flag is never set, so the opening goes out again.
PromptOK_StaysUnbooted(w) ==
  /\ worker[w].pc = "prompt"
  /\ Done(w, Prompted(w))
  /\ Become(w, WithSession(w, FALSE))
  /\ UNCHANGED <<workers, sending, target, registered, disk>>

PromptOK(w) ==
  /\ worker[w].pc = "prompt"
  /\ Done(w, Prompted(w))
  /\ Become(w, WithSession(w, TRUE))
  /\ UNCHANGED <<workers, sending, target, registered, disk>>

\* A provider error, or prompt_timeout: the session is kept.
PromptFail(w) ==
  /\ worker[w].pc = "prompt"
  /\ Done(w, Failed)
  /\ Become(w, WithSession(w, worker[w].booted))
  /\ UNCHANGED <<workers, sending, target, registered, disk>>

-----------------------------------------------------------------------------
Idling(w) == TakeIdle(w) \/ CloseProvider(w) \/ Cleanup(w) \/ Unregister(w) \/ Remove(w)

Hooking(w) == HookOK(w) \/ HookFail(w)

Serving(w) ==
  \/ TakeJob(w) \/ CreateOK(w) \/ CreateFail(w) \/ StartOK(w) \/ StartFail(w)
  \/ ContextOK(w) \/ ContextFail(w) \/ PromptOK(w) \/ PromptFail(w)

Next ==
  \/ \E c \in Caller, j \in Job : Enqueue(c, j)
  \/ \E c \in Caller : Send(c)
  \/ \E w \in Job : Idling(w) \/ Hooking(w) \/ Serving(w)

Spec == Init /\ [][Next]_vars

\* A goroutine that can run does. Start and Prompt run under a timeout, the
\* idle timer fires; only the hook may take forever.
Fairness ==
  /\ \A c \in Caller : WF_vars(Send(c))
  /\ \A w \in Job : WF_vars(Idling(w) \/ Serving(w))
  /\ ~HookSet => \A w \in Job : WF_vars(Hooking(w))

FairSpec == Spec /\ Fairness

-----------------------------------------------------------------------------
(* Properties.                                                              *)

Live(w) == worker[w].pc \notin {"unborn", "gone"}

Queued(j) == \E i \in 1..Len(worker[target[j]].jobs) : worker[target[j]].jobs[i] = j

BeingSent(j) == \E c \in Caller : sending[c] = j

\* Every variable has its type, and no channel holds more than its capacity.
TypeOK ==
  /\ workers \in [Key -> Maybe(Job)]
  /\ sending \in [Caller -> Maybe(Job)]
  /\ target \in [Job -> Maybe(Job)]
  /\ worker \in [Job -> WorkerState]
  /\ \A w \in Job : Len(worker[w].jobs) <= QueueCap
  /\ registered \in [Job -> Maybe(Key)]
  /\ disk \subseteq Job
  /\ reply \in [Job -> Maybe(Job) \cup {Failed}]

\* A thread never has two provider sessions, not even while the session of
\* an idle worker is shutting down and a new message asks for a new one.
OneProviderPerThread ==
  \A v, w \in Job :
    worker[v].prov /\ worker[w].prov /\ JobKey[v] = JobKey[w] => v = w

\* The Context API: a token opens the thread it was issued for only, and
\* only while the worker that holds it is the one bound to that thread; the
\* token given to a running provider is valid.
TokensFollowSessions ==
  /\ \A t \in Job : registered[t] # None =>
       \E w \in Job : /\ worker[w].bearer = t
                      /\ JobKey[w] = registered[t]
                      /\ workers[registered[t]] = w
  /\ ContextAPI => \A w \in Job : worker[w].prov =>
       /\ worker[w].bearer # None
       /\ registered[worker[w].bearer] = JobKey[w]

\* The directory of a session stays until its provider has been closed.
WorkspaceOutlivesProvider ==
  \A w \in Job : worker[w].prov \/ worker[w].pc \in {"hook", "start"} =>
                   worker[w].ws \in disk

\* Every directory below workspaces_root belongs to a worker: what has no
\* session any more has been deleted or archived.
NoOrphanWorkspace == \A d \in disk : \E w \in Job : worker[w].ws = d

\* Conservation of messages: one whose Enqueue has begun is unanswered
\* exactly while it is being sent, queued or served, in one of the three.
UnansweredIsHeld ==
  \A j \in Job : target[j] # None =>
    LET served == worker[target[j]].cur = j IN
    /\ reply[j] = None <=> BeingSent(j) \/ Queued(j) \/ served
    /\ ~(BeingSent(j) /\ Queued(j)) /\ ~(BeingSent(j) /\ served) /\ ~(Queued(j) /\ served)

\* The abstract queue of a thread: what its worker, unless it has taken the
\* idle branch, serves and has in its channel.
AbstractQueue ==
  [k \in Key |->
     LET w == workers[k] IN
     IF w = None THEN <<>>
     ELSE IF worker[w].pc \in Closing THEN <<>>
     ELSE IF worker[w].cur = None THEN worker[w].jobs
     ELSE <<worker[w].cur>> \o worker[w].jobs]

\* A message sent to, or left in the channel of, a worker past its last select.
AbstractLost ==
  {j \in Job : /\ target[j] # None
               /\ ~BeingSent(j)
               /\ reply[j] = None
               /\ worker[target[j]].pc \in Closing}

Contract == INSTANCE ThreadContract WITH queue <- AbstractQueue, lost <- AbstractLost

\* Messages of a thread are answered in order, once each, an answer is never
\* about a message of another thread, about one that was answered already
\* or about one that never failed; messages are lost only to a session's end.
ContractHolds == Contract!Spec

\* A message not yet received by a worker that has taken the idle branch.
Stranded(j) ==
  /\ target[j] # None
  /\ worker[target[j]].pc \in Closing
  /\ BeingSent(j) \/ Queued(j)

\* With no hook, every message is answered, unless its worker took the idle
\* branch before it received the message.
AnsweredUnlessStranded ==
  \A j \in Job : target[j] # None ~> reply[j] # None \/ Stranded(j)

\* When messages stop coming, every thread's session ends: provider closed,
\* token revoked, binding removed.
ThreadsEventuallyReleased ==
  \A k \in Key : workers[k] # None ~> workers[k] = None

\* "Enqueue runs work on the dedicated worker for the job key."
EveryJobAnswered == \A j \in Job : target[j] # None ~> reply[j] # None

\* The first prompt of a session is the opening with the first message, the
\* second prompt is the second message: an answer is about its own message.
ReplyAnswersOwnMessage == \A j \in Job : reply[j] \in Job => reply[j] = j
=============================================================================
