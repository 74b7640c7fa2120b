-------------------------- MODULE SchedulerProofs --------------------------
(***************************************************************************)
(* Theorems about Scheduler, for every set of threads, messages and        *)
(* callers and every configuration: its types and one provider per thread  *)
(* (from IInv), its tokens and directories following their sessions (from  *)
(* SInv), no message lost or doubled, and the refinement of ThreadContract *)
(* (from QInv). Each invariant has the one before it as a part.            *)
(***************************************************************************)
EXTENDS Scheduler, TLAPS

USE DEF Maybe


-----------------------------------------------------------------------------
(* The inductive invariant.                                                 *)

\* The map holds exactly the workers whose goroutine has not returned.
Binding ==
  /\ \A w \in Job : Live(w) <=> workers[JobKey[w]] = w
  /\ \A k \in Key : workers[k] # None => JobKey[workers[k]] = k

\* A worker is made by the Enqueue of the job it is named for.
Fresh == \A j \in Job : target[j] = None => worker[j].pc = "unborn"

\* A job being sent has been given a worker.
Addressed == \A c \in Caller : sending[c] # None => target[sending[c]] # None

InHand == {"create", "hook", "start", "context", "prompt"}

\* What the local state of a worker tells about itself: where it may have a
\* provider, where it has a job in hand, and that its channel is not overfull.
Sane(r) ==
  /\ r.prov => r.pc \in {"select", "context", "prompt", "close"}
  /\ r.cur # None <=> r.pc \in InHand
  /\ Len(r.jobs) <= QueueCap

IInv == TypeOK /\ Binding /\ Fresh /\ Addressed /\ \A w \in Job : Sane(worker[w])

-----------------------------------------------------------------------------
LEMMA InitIInv == Init => IInv
BY KeyAssumption, JobAssumption, CapAssumption
   DEF Init, IInv, TypeOK, Binding, Fresh, Addressed, Sane, InHand,
       WorkerState, Unborn, Pc, Closing, Live

\* Replacing the local state of one worker.
LEMMA BecomeLemma ==
  ASSUME TypeOK, NEW w \in Job, NEW r \in WorkerState, Become(w, r)
  PROVE  /\ worker' \in [Job -> WorkerState]
         /\ worker'[w] = r
         /\ \A v \in Job : v # w => worker'[v] = worker[v]
BY DEF TypeOK, Become

\* A step of a worker that leaves the map and the callers alone and that
\* neither starts nor ends a goroutine.
LEMMA LocalStep ==
  ASSUME IInv, NEW w \in Job, NEW r \in WorkerState, Become(w, r),
         UNCHANGED <<workers, sending, target>>,
         registered' \in [Job -> Maybe(Key)],
         disk' \subseteq Job,
         reply' \in [Job -> Maybe(Job) \cup {Failed}],
         Sane(r), Live(w), r.pc \notin {"unborn", "gone"}
  PROVE  IInv'
<1>1. TypeOK BY DEF IInv
<1>2. /\ worker' \in [Job -> WorkerState]
      /\ worker'[w] = r
      /\ \A v \in Job : v # w => worker'[v] = worker[v]
  BY <1>1, BecomeLemma
<1>3. \A v \in Job : Sane(worker'[v])
  BY <1>2 DEF IInv
<1>4. \A v \in Job : /\ Live(v)' <=> Live(v)
                     /\ worker[v].pc = "unborn" => worker'[v].pc = "unborn"
  BY <1>2 DEF Live
<1>5. TypeOK'
  BY <1>1, <1>2, <1>3 DEF TypeOK, Sane
<1>. QED
  BY <1>3, <1>4, <1>5 DEF IInv, Binding, Fresh, Addressed

LEMMA EnqueueIInv ==
  ASSUME IInv, NEW c \in Caller, NEW j \in Job, Enqueue(c, j)
  PROVE  IInv'
<1> USE KeyAssumption, JobAssumption
<1>1. TypeOK /\ Binding /\ Fresh /\ Addressed
  BY DEF IInv
<1>2. PICK w \in Job : w = WorkerFor(JobKey[j], j)
  BY <1>1 DEF WorkerFor, TypeOK
<1>2a. JobKey[w] = JobKey[j] /\ JobKey[j] \in Key
  BY <1>1, <1>2 DEF WorkerFor, Binding
<1> DEFINE r == IF worker[w].pc = "unborn"
                THEN [worker[w] EXCEPT !.pc = "select"] ELSE worker[w]
<1>3. worker[w] \in WorkerState /\ Sane(worker[w])
  BY DEF IInv, TypeOK
<1>4. r \in WorkerState /\ Sane(r) /\ r.pc # "unborn"
  BY <1>3 DEF WorkerState, Sane, InHand, Pc
<1>5. worker[w].pc # "gone"
  <2>1. CASE workers[JobKey[j]] = None
    BY <2>1, <1>1, <1>2 DEF WorkerFor, Enqueue, Fresh
  <2>2. CASE workers[JobKey[j]] # None
    BY <2>2, <1>1, <1>2, <1>2a DEF WorkerFor, Binding, Live
  <2>. QED BY <2>1, <2>2
<1>6. r.pc # "gone"
  BY <1>3, <1>5 DEF WorkerState
<1>7. Become(w, r)
  BY <1>2 DEF Enqueue
<1>8. /\ worker' \in [Job -> WorkerState]
      /\ worker'[w] = r
      /\ \A v \in Job : v # w => worker'[v] = worker[v]
  BY <1>1, <1>4, <1>7, BecomeLemma
<1>9. \A v \in Job : Sane(worker'[v])
  BY <1>4, <1>8 DEF IInv
<1>10. /\ workers' = [workers EXCEPT ![JobKey[j]] = w]
       /\ target' = [target EXCEPT ![j] = w]
       /\ sending' = [sending EXCEPT ![c] = j]
       /\ UNCHANGED <<registered, disk, reply>>
  BY <1>2 DEF Enqueue
<1>11. TypeOK'
  BY <1>1, <1>2, <1>2a, <1>8, <1>9, <1>10 DEF TypeOK, Sane
<1>12. Live(w)' /\ \A v \in Job : v # w => (Live(v)' <=> Live(v))
  <2> HIDE DEF r
  <2>. QED BY <1>4, <1>6, <1>8 DEF Live
<1>13. \A v \in Job : v # w /\ JobKey[v] = JobKey[j] => ~Live(v)
  BY <1>1, <1>2, <1>2a DEF Binding, WorkerFor
<1>14. Binding'
  BY <1>1, <1>2, <1>2a, <1>10, <1>12, <1>13 DEF Binding, TypeOK
<1>15. Fresh'
  <2> SUFFICES ASSUME NEW v \in Job, target'[v] = None PROVE worker'[v].pc = "unborn"
    BY DEF Fresh
  <2>1. target[v] = None /\ v # j
    BY <1>1, <1>2, <1>2a, <1>10 DEF TypeOK
  <2>2. v # w
    BY <2>1, <1>1, <1>2, <1>2a DEF Fresh, WorkerFor, Binding, Live
  <2>. QED BY <2>1, <2>2, <1>1, <1>8 DEF Fresh
<1>16. Addressed'
  BY <1>1, <1>2, <1>2a, <1>10 DEF Addressed, TypeOK
<1>. QED
  BY <1>9, <1>11, <1>14, <1>15, <1>16 DEF IInv

LEMMA SendIInv ==
  ASSUME IInv, NEW c \in Caller, Send(c)
  PROVE  IInv'
<1> USE KeyAssumption, JobAssumption, CapAssumption
<1>1. TypeOK /\ Binding /\ Fresh /\ Addressed
  BY DEF IInv
<1>2. PICK j \in Job, w \in Job : j = sending[c] /\ w = target[j]
  BY <1>1 DEF Send, TypeOK, Addressed
<1>3. worker[w] \in WorkerState /\ Sane(worker[w])
  BY DEF IInv, TypeOK
<1>4. worker[w].jobs \in Seq(Job) /\ Len(worker[w].jobs) < QueueCap
  BY <1>2, <1>3 DEF WorkerState, Send
<1> DEFINE q == Append(worker[w].jobs, j)
           r == [worker[w] EXCEPT !.jobs = q]
<1>5. q \in Seq(Job) /\ Len(q) = Len(worker[w].jobs) + 1
  BY <1>4
<1>6. /\ r \in WorkerState
      /\ r.pc = worker[w].pc /\ r.cur = worker[w].cur /\ r.prov = worker[w].prov
      /\ r.jobs = q
  <2> HIDE DEF q
  <2>. QED BY <1>3, <1>5 DEF WorkerState
<1>7. Len(q) <= QueueCap
  BY <1>4, <1>5
<1>8. Sane(r)
  <2> HIDE DEF q, r
  <2>. QED BY <1>3, <1>6, <1>7 DEF Sane
<1>9. /\ Become(w, r)
      /\ sending' = [sending EXCEPT ![c] = None]
      /\ UNCHANGED <<workers, target, registered, disk, reply>>
  BY <1>2 DEF Send
<1> HIDE DEF r
<1>10. /\ worker' \in [Job -> WorkerState]
       /\ worker'[w] = r
       /\ \A v \in Job : v # w => worker'[v] = worker[v]
  BY <1>1, <1>6, <1>9, BecomeLemma
<1>11. \A v \in Job : Sane(worker'[v])
  BY <1>8, <1>10 DEF IInv
<1>12. \A v \in Job : worker'[v].pc = worker[v].pc
  BY <1>6, <1>10
<1>13. TypeOK'
  BY <1>1, <1>9, <1>10, <1>11 DEF TypeOK, Sane
<1>14. Addressed'
  BY <1>1, <1>9 DEF Addressed, TypeOK
<1>. QED
  BY <1>1, <1>9, <1>11, <1>12, <1>13, <1>14 DEF IInv, Binding, Fresh, Live

LEMMA TakeIdleIInv == ASSUME IInv, NEW w \in Job, TakeIdle(w) PROVE IInv'
<1> DEFINE r == [worker[w] EXCEPT !.pc = "close"]
<1> USE KeyAssumption, JobAssumption
<1>1. TypeOK /\ worker[w] \in WorkerState /\ Sane(worker[w]) /\ worker[w].pc = "select"
  BY DEF IInv, TypeOK, TakeIdle
<1>2. r \in WorkerState /\ Sane(r) /\ r.pc \notin {"unborn", "gone"}
  BY <1>1 DEF WorkerState, Sane, InHand, Pc, Closing
<1>3. Become(w, r) /\ UNCHANGED <<workers, sending, target>> /\ Live(w)
  BY <1>1 DEF TakeIdle, Live
<1>4. /\ registered' \in [Job -> Maybe(Key)]
      /\ disk' \subseteq Job
      /\ reply' \in [Job -> Maybe(Job) \cup {Failed}]
  BY <1>1 DEF TakeIdle, TypeOK, WorkerState, Sane, InHand
<1>. QED
  BY <1>2, <1>3, <1>4, LocalStep

LEMMA CloseProviderIInv == ASSUME IInv, NEW w \in Job, CloseProvider(w) PROVE IInv'
<1> DEFINE r == [worker[w] EXCEPT !.pc = "cleanup", !.prov = FALSE]
<1> USE KeyAssumption, JobAssumption
<1>1. TypeOK /\ worker[w] \in WorkerState /\ Sane(worker[w]) /\ worker[w].pc = "close"
  BY DEF IInv, TypeOK, CloseProvider
<1>2. r \in WorkerState /\ Sane(r) /\ r.pc \notin {"unborn", "gone"}
  BY <1>1 DEF WorkerState, Sane, InHand, Pc, Closing
<1>3. Become(w, r) /\ UNCHANGED <<workers, sending, target>> /\ Live(w)
  BY <1>1 DEF CloseProvider, Live
<1>4. /\ registered' \in [Job -> Maybe(Key)]
      /\ disk' \subseteq Job
      /\ reply' \in [Job -> Maybe(Job) \cup {Failed}]
  BY <1>1 DEF CloseProvider, TypeOK, WorkerState, Sane, InHand
<1>. QED
  BY <1>2, <1>3, <1>4, LocalStep

LEMMA CleanupIInv == ASSUME IInv, NEW w \in Job, Cleanup(w) PROVE IInv'
<1> DEFINE r == [worker[w] EXCEPT !.pc = "unregister", !.ws = None]
<1> USE KeyAssumption, JobAssumption
<1>1. TypeOK /\ worker[w] \in WorkerState /\ Sane(worker[w]) /\ worker[w].pc = "cleanup"
  BY DEF IInv, TypeOK, Cleanup
<1>2. r \in WorkerState /\ Sane(r) /\ r.pc \notin {"unborn", "gone"}
  BY <1>1 DEF WorkerState, Sane, InHand, Pc, Closing
<1>3. Become(w, r) /\ UNCHANGED <<workers, sending, target>> /\ Live(w)
  BY <1>1 DEF Cleanup, Live
<1>4. /\ registered' \in [Job -> Maybe(Key)]
      /\ disk' \subseteq Job
      /\ reply' \in [Job -> Maybe(Job) \cup {Failed}]
  BY <1>1 DEF Cleanup, TypeOK, WorkerState, Sane, InHand, AfterCleanup
<1>. QED
  BY <1>2, <1>3, <1>4, LocalStep

LEMMA UnregisterIInv == ASSUME IInv, NEW w \in Job, Unregister(w) PROVE IInv'
<1> DEFINE r == [worker[w] EXCEPT !.pc = "remove", !.bearer = None]
<1> USE KeyAssumption, JobAssumption
<1>1. TypeOK /\ worker[w] \in WorkerState /\ Sane(worker[w]) /\ worker[w].pc = "unregister"
  BY DEF IInv, TypeOK, Unregister
<1>2. r \in WorkerState /\ Sane(r) /\ r.pc \notin {"unborn", "gone"}
  BY <1>1 DEF WorkerState, Sane, InHand, Pc, Closing
<1>3. Become(w, r) /\ UNCHANGED <<workers, sending, target>> /\ Live(w)
  BY <1>1 DEF Unregister, Live
<1>4. /\ registered' \in [Job -> Maybe(Key)]
      /\ disk' \subseteq Job
      /\ reply' \in [Job -> Maybe(Job) \cup {Failed}]
  BY <1>1 DEF Unregister, TypeOK, WorkerState, Sane, InHand, Unregistered
<1>. QED
  BY <1>2, <1>3, <1>4, LocalStep

LEMMA CreateOKIInv == ASSUME IInv, NEW w \in Job, CreateOK(w) PROVE IInv'
<1> DEFINE r == [worker[w] EXCEPT !.pc = "hook", !.ws = worker[w].cur]
<1> USE KeyAssumption, JobAssumption
<1>1. TypeOK /\ worker[w] \in WorkerState /\ Sane(worker[w]) /\ worker[w].pc = "create"
  BY DEF IInv, TypeOK, CreateOK
<1>2. r \in WorkerState /\ Sane(r) /\ r.pc \notin {"unborn", "gone"}
  BY <1>1 DEF WorkerState, Sane, InHand, Pc, Closing
<1>3. Become(w, r) /\ UNCHANGED <<workers, sending, target>> /\ Live(w)
  BY <1>1 DEF CreateOK, Live
<1>4. /\ registered' \in [Job -> Maybe(Key)]
      /\ disk' \subseteq Job
      /\ reply' \in [Job -> Maybe(Job) \cup {Failed}]
  BY <1>1 DEF CreateOK, TypeOK, WorkerState, Sane, InHand
<1>. QED
  BY <1>2, <1>3, <1>4, LocalStep

LEMMA CreateFailIInv == ASSUME IInv, NEW w \in Job, CreateFail(w) PROVE IInv'
<1> DEFINE r == WithoutSession(w)
<1> USE KeyAssumption, JobAssumption
<1>1. TypeOK /\ worker[w] \in WorkerState /\ Sane(worker[w]) /\ worker[w].pc = "create"
  BY DEF IInv, TypeOK, CreateFail
<1>2. r \in WorkerState /\ Sane(r) /\ r.pc \notin {"unborn", "gone"}
  BY <1>1 DEF WorkerState, Sane, InHand, Pc, Closing, WithoutSession
<1>3. Become(w, r) /\ UNCHANGED <<workers, sending, target>> /\ Live(w)
  BY <1>1 DEF CreateFail, Live
<1>4. /\ registered' \in [Job -> Maybe(Key)]
      /\ disk' \subseteq Job
      /\ reply' \in [Job -> Maybe(Job) \cup {Failed}]
  BY <1>1 DEF CreateFail, TypeOK, WorkerState, Sane, InHand, Done
<1>. QED
  BY <1>2, <1>3, <1>4, LocalStep

LEMMA HookOKIInv == ASSUME IInv, NEW w \in Job, HookOK(w) PROVE IInv'
<1> DEFINE r == [worker[w] EXCEPT !.pc = "start", !.bearer = IF ContextAPI THEN worker[w].cur ELSE None]
<1> USE KeyAssumption, JobAssumption
<1>1. TypeOK /\ worker[w] \in WorkerState /\ Sane(worker[w]) /\ worker[w].pc = "hook"
  BY DEF IInv, TypeOK, HookOK
<1>2. r \in WorkerState /\ Sane(r) /\ r.pc \notin {"unborn", "gone"}
  BY <1>1 DEF WorkerState, Sane, InHand, Pc, Closing
<1>3. Become(w, r) /\ UNCHANGED <<workers, sending, target>> /\ Live(w)
  BY <1>1 DEF HookOK, Live
<1>4. /\ registered' \in [Job -> Maybe(Key)]
      /\ disk' \subseteq Job
      /\ reply' \in [Job -> Maybe(Job) \cup {Failed}]
  BY <1>1 DEF HookOK, TypeOK, WorkerState, Sane, InHand
<1>. QED
  BY <1>2, <1>3, <1>4, LocalStep

LEMMA HookFailIInv == ASSUME IInv, NEW w \in Job, HookFail(w) PROVE IInv'
<1> DEFINE r == WithoutSession(w)
<1> USE KeyAssumption, JobAssumption
<1>1. TypeOK /\ worker[w] \in WorkerState /\ Sane(worker[w]) /\ worker[w].pc = "hook"
  BY DEF IInv, TypeOK, HookFail
<1>2. r \in WorkerState /\ Sane(r) /\ r.pc \notin {"unborn", "gone"}
  BY <1>1 DEF WorkerState, Sane, InHand, Pc, Closing, WithoutSession
<1>3. Become(w, r) /\ UNCHANGED <<workers, sending, target>> /\ Live(w)
  BY <1>1 DEF HookFail, Live
<1>4. /\ registered' \in [Job -> Maybe(Key)]
      /\ disk' \subseteq Job
      /\ reply' \in [Job -> Maybe(Job) \cup {Failed}]
  BY <1>1 DEF HookFail, TypeOK, WorkerState, Sane, InHand, Done, AfterCleanup
<1>. QED
  BY <1>2, <1>3, <1>4, LocalStep

LEMMA StartOKIInv == ASSUME IInv, NEW w \in Job, StartOK(w) PROVE IInv'
<1> DEFINE r == [worker[w] EXCEPT !.pc = "context", !.prov = TRUE, !.opening = worker[w].cur, !.booted = FALSE]
<1> USE KeyAssumption, JobAssumption
<1>1. TypeOK /\ worker[w] \in WorkerState /\ Sane(worker[w]) /\ worker[w].pc = "start"
  BY DEF IInv, TypeOK, StartOK
<1>2. r \in WorkerState /\ Sane(r) /\ r.pc \notin {"unborn", "gone"}
  BY <1>1 DEF WorkerState, Sane, InHand, Pc, Closing
<1>3. Become(w, r) /\ UNCHANGED <<workers, sending, target>> /\ Live(w)
  BY <1>1 DEF StartOK, Live
<1>4. /\ registered' \in [Job -> Maybe(Key)]
      /\ disk' \subseteq Job
      /\ reply' \in [Job -> Maybe(Job) \cup {Failed}]
  BY <1>1 DEF StartOK, TypeOK, WorkerState, Sane, InHand
<1>. QED
  BY <1>2, <1>3, <1>4, LocalStep

LEMMA StartFailIInv == ASSUME IInv, NEW w \in Job, StartFail(w) PROVE IInv'
<1> DEFINE r == WithoutSession(w)
<1> USE KeyAssumption, JobAssumption
<1>1. TypeOK /\ worker[w] \in WorkerState /\ Sane(worker[w]) /\ worker[w].pc = "start"
  BY DEF IInv, TypeOK, StartFail
<1>2. r \in WorkerState /\ Sane(r) /\ r.pc \notin {"unborn", "gone"}
  BY <1>1 DEF WorkerState, Sane, InHand, Pc, Closing, WithoutSession
<1>3. Become(w, r) /\ UNCHANGED <<workers, sending, target>> /\ Live(w)
  BY <1>1 DEF StartFail, Live
<1>4. /\ registered' \in [Job -> Maybe(Key)]
      /\ disk' \subseteq Job
      /\ reply' \in [Job -> Maybe(Job) \cup {Failed}]
  BY <1>1 DEF StartFail, TypeOK, WorkerState, Sane, InHand, Done, AfterCleanup, Unregistered
<1>. QED
  BY <1>2, <1>3, <1>4, LocalStep

LEMMA ContextOKIInv == ASSUME IInv, NEW w \in Job, ContextOK(w) PROVE IInv'
<1> DEFINE r == [worker[w] EXCEPT !.pc = "prompt"]
<1> USE KeyAssumption, JobAssumption
<1>1. TypeOK /\ worker[w] \in WorkerState /\ Sane(worker[w]) /\ worker[w].pc = "context"
  BY DEF IInv, TypeOK, ContextOK
<1>2. r \in WorkerState /\ Sane(r) /\ r.pc \notin {"unborn", "gone"}
  BY <1>1 DEF WorkerState, Sane, InHand, Pc, Closing
<1>3. Become(w, r) /\ UNCHANGED <<workers, sending, target>> /\ Live(w)
  BY <1>1 DEF ContextOK, Live
<1>4. /\ registered' \in [Job -> Maybe(Key)]
      /\ disk' \subseteq Job
      /\ reply' \in [Job -> Maybe(Job) \cup {Failed}]
  BY <1>1 DEF ContextOK, TypeOK, WorkerState, Sane, InHand
<1>. QED
  BY <1>2, <1>3, <1>4, LocalStep

LEMMA ContextFailIInv == ASSUME IInv, NEW w \in Job, ContextFail(w) PROVE IInv'
<1> DEFINE r == WithSession(w, worker[w].booted)
<1> USE KeyAssumption, JobAssumption
<1>1. TypeOK /\ worker[w] \in WorkerState /\ Sane(worker[w]) /\ worker[w].pc = "context"
  BY DEF IInv, TypeOK, ContextFail
<1>2. r \in WorkerState /\ Sane(r) /\ r.pc \notin {"unborn", "gone"}
  BY <1>1 DEF WorkerState, Sane, InHand, Pc, Closing, WithSession
<1>3. Become(w, r) /\ UNCHANGED <<workers, sending, target>> /\ Live(w)
  BY <1>1 DEF ContextFail, Live
<1>4. /\ registered' \in [Job -> Maybe(Key)]
      /\ disk' \subseteq Job
      /\ reply' \in [Job -> Maybe(Job) \cup {Failed}]
  BY <1>1 DEF ContextFail, TypeOK, WorkerState, Sane, InHand, Done
<1>. QED
  BY <1>2, <1>3, <1>4, LocalStep

LEMMA PromptOKIInv == ASSUME IInv, NEW w \in Job, PromptOK(w) PROVE IInv'
<1> DEFINE r == WithSession(w, TRUE)
<1> USE KeyAssumption, JobAssumption
<1>1. TypeOK /\ worker[w] \in WorkerState /\ Sane(worker[w]) /\ worker[w].pc = "prompt"
  BY DEF IInv, TypeOK, PromptOK
<1>2. r \in WorkerState /\ Sane(r) /\ r.pc \notin {"unborn", "gone"}
  BY <1>1 DEF WorkerState, Sane, InHand, Pc, Closing, WithSession
<1>3. Become(w, r) /\ UNCHANGED <<workers, sending, target>> /\ Live(w)
  BY <1>1 DEF PromptOK, Live
<1>4. /\ registered' \in [Job -> Maybe(Key)]
      /\ disk' \subseteq Job
      /\ reply' \in [Job -> Maybe(Job) \cup {Failed}]
  BY <1>1 DEF PromptOK, TypeOK, WorkerState, Sane, InHand, Done, Prompted
<1>. QED
  BY <1>2, <1>3, <1>4, LocalStep

LEMMA PromptFailIInv == ASSUME IInv, NEW w \in Job, PromptFail(w) PROVE IInv'
<1> DEFINE r == WithSession(w, worker[w].booted)
<1> USE KeyAssumption, JobAssumption
<1>1. TypeOK /\ worker[w] \in WorkerState /\ Sane(worker[w]) /\ worker[w].pc = "prompt"
  BY DEF IInv, TypeOK, PromptFail
<1>2. r \in WorkerState /\ Sane(r) /\ r.pc \notin {"unborn", "gone"}
  BY <1>1 DEF WorkerState, Sane, InHand, Pc, Closing, WithSession
<1>3. Become(w, r) /\ UNCHANGED <<workers, sending, target>> /\ Live(w)
  BY <1>1 DEF PromptFail, Live
<1>4. /\ registered' \in [Job -> Maybe(Key)]
      /\ disk' \subseteq Job
      /\ reply' \in [Job -> Maybe(Job) \cup {Failed}]
  BY <1>1 DEF PromptFail, TypeOK, WorkerState, Sane, InHand, Done
<1>. QED
  BY <1>2, <1>3, <1>4, LocalStep

LEMMA TakeJobIInv == ASSUME IInv, NEW w \in Job, TakeJob(w) PROVE IInv'
<1> DEFINE h == Head(worker[w].jobs)
           t == Tail(worker[w].jobs)
           r == [worker[w] EXCEPT
                   !.pc = IF worker[w].prov THEN "context" ELSE "create",
                   !.cur = h, !.jobs = t, !.armed = FALSE]
<1> USE KeyAssumption, JobAssumption, CapAssumption
<1>1. TypeOK /\ worker[w] \in WorkerState /\ Sane(worker[w]) /\ worker[w].pc = "select"
  BY DEF IInv, TypeOK, TakeJob
<1>2. worker[w].jobs \in Seq(Job) /\ worker[w].jobs # <<>> /\ Len(worker[w].jobs) <= QueueCap
  BY <1>1 DEF WorkerState, TakeJob, Sane
<1>3. h \in Job /\ t \in Seq(Job) /\ Len(t) <= QueueCap
  BY <1>2
<1>4. Become(w, r) /\ UNCHANGED <<workers, sending, target, registered, disk, reply>>
  BY DEF TakeJob
<1> HIDE DEF h, t
<1>5. r \in WorkerState /\ Sane(r) /\ r.pc \notin {"unborn", "gone"}
  BY <1>1, <1>3 DEF WorkerState, Sane, InHand, Pc, Closing
<1>6. Live(w)
  BY <1>1 DEF Live
<1>. QED
  BY <1>1, <1>4, <1>5, <1>6, LocalStep DEF TypeOK

LEMMA RemoveIInv == ASSUME IInv, NEW w \in Job, Remove(w) PROVE IInv'
<1> DEFINE r == [worker[w] EXCEPT !.pc = "gone"]
<1> USE KeyAssumption, JobAssumption
<1>1. /\ TypeOK /\ Binding /\ Fresh /\ Addressed
      /\ worker[w] \in WorkerState /\ Sane(worker[w]) /\ worker[w].pc = "remove"
  BY DEF IInv, TypeOK, Remove
<1>2. r \in WorkerState /\ Sane(r) /\ r.pc = "gone"
  BY <1>1 DEF WorkerState, Sane, InHand, Pc, Closing
<1>3. /\ Become(w, r)
      /\ workers' = [workers EXCEPT ![JobKey[w]] = None]
      /\ UNCHANGED <<sending, target, registered, disk, reply>>
  BY DEF Remove
<1> HIDE DEF r
<1>4. /\ worker' \in [Job -> WorkerState]
      /\ worker'[w] = r
      /\ \A v \in Job : v # w => worker'[v] = worker[v]
  BY <1>1, <1>2, <1>3, BecomeLemma
<1>5. \A v \in Job : Sane(worker'[v])
  BY <1>2, <1>4 DEF IInv
<1>6. ~Live(w)' /\ \A v \in Job : v # w => (Live(v)' <=> Live(v))
  BY <1>2, <1>4 DEF Live
<1>7. Live(w) /\ workers[JobKey[w]] = w /\ JobKey[w] \in Key
  BY <1>1 DEF Live, Binding
<1>8. Binding'
  BY <1>1, <1>3, <1>6, <1>7 DEF Binding, TypeOK
<1>9. TypeOK'
  BY <1>1, <1>3, <1>4, <1>5 DEF TypeOK, Sane
<1>10. Fresh'
  BY <1>1, <1>3, <1>4 DEF Fresh
<1>11. Addressed'
  BY <1>1, <1>3 DEF Addressed
<1>. QED
  BY <1>5, <1>8, <1>9, <1>10, <1>11 DEF IInv

LEMMA StutterIInv == ASSUME IInv, UNCHANGED vars PROVE IInv'
BY DEF vars, IInv, TypeOK, Binding, Fresh, Addressed, Live

LEMMA NextIInv == IInv /\ [Next]_vars => IInv'
<1> SUFFICES ASSUME IInv, [Next]_vars PROVE IInv'
  OBVIOUS
<1>1. ASSUME NEW c \in Caller, NEW j \in Job, Enqueue(c, j) PROVE IInv'
  BY <1>1, EnqueueIInv
<1>2. ASSUME NEW c \in Caller, Send(c) PROVE IInv'
  BY <1>2, SendIInv
<1>3. ASSUME NEW w \in Job, Idling(w) PROVE IInv'
  BY <1>3, TakeIdleIInv, CloseProviderIInv, CleanupIInv, UnregisterIInv, RemoveIInv
     DEF Idling
<1>4. ASSUME NEW w \in Job, Hooking(w) PROVE IInv'
  BY <1>4, HookOKIInv, HookFailIInv DEF Hooking
<1>5. ASSUME NEW w \in Job, Serving(w) PROVE IInv'
  BY <1>5, TakeJobIInv, CreateOKIInv, CreateFailIInv, StartOKIInv, StartFailIInv,
     ContextOKIInv, ContextFailIInv, PromptOKIInv, PromptFailIInv DEF Serving
<1>6. CASE UNCHANGED vars
  BY <1>6, StutterIInv
<1>. QED
  BY <1>1, <1>2, <1>3, <1>4, <1>5, <1>6 DEF Next

THEOREM Invariance == Spec => []IInv
BY InitIInv, NextIInv, PTL DEF Spec

-----------------------------------------------------------------------------
(* Results.                                                                 *)

\* Every variable of the scheduler keeps its type and no worker channel ever
\* holds more than its capacity, whatever the threads and the messages.
THEOREM TypeCorrect == Spec => []TypeOK
BY Invariance, PTL DEF IInv

\* newWorker and remove never let two provider sessions of one thread exist
\* at a time: the map entry goes last, after Close, cleanup and Unregister.
THEOREM SingleProvider == Spec => []OneProviderPerThread
<1>1. IInv => OneProviderPerThread
  BY DEF IInv, Sane, Binding, Live, OneProviderPerThread
<1>. QED
  BY <1>1, Invariance, PTL

-----------------------------------------------------------------------------
(* Part two: tokens and directories follow their sessions.                  *)
-----------------------------------------------------------------------------
(* The inductive invariant for sessions: IInv, and what is below.           *)

\* Whatever worker w has in its hands was made for a job handed to w.
OwnedBy(w, r) ==
  /\ \A i \in 1..Len(r.jobs) : target[r.jobs[i]] = w
  /\ r.cur # None => target[r.cur] = w
  /\ r.ws # None => target[r.ws] = w
  /\ r.bearer # None => target[r.bearer] = w
  /\ r.opening # None => target[r.opening] = w

\* Where run() holds a directory and a token: from their creation until the
\* session has ended, or has failed to begin.
Paired(r) ==
  /\ r.pc \in {"context", "prompt"} => r.prov
  /\ r.prov \/ r.pc \in {"hook", "start"} => r.ws # None
  /\ r.pc \in {"unborn", "create"} \/ (r.pc = "select" /\ ~r.prov) => r.ws = None
  /\ r.bearer # None =>
       r.pc \in {"start", "context", "prompt", "select", "close", "cleanup", "unregister"}
  /\ r.pc = "select" /\ ~r.prov => r.bearer = None
  /\ ContextAPI /\ (r.prov \/ r.pc = "start") => r.bearer # None

\* A registered token is the one the worker of its own job holds, for the
\* thread of that worker; and a token that is held is registered.
Tokens ==
  /\ \A t \in Job : registered[t] # None =>
       /\ target[t] # None
       /\ worker[target[t]].bearer = t
       /\ registered[t] = JobKey[target[t]]
  /\ \A w \in Job : worker[w].bearer # None => registered[worker[w].bearer] = JobKey[w]

\* Directories in use exist, and as long as no disk operation fails, those
\* that exist are in use.
InUse(r) == r.prov \/ r.pc \in {"hook", "start"}

Directories ==
  /\ \A w \in Job : InUse(worker[w]) => worker[w].ws \in disk
  /\ ~DiskFaults => \A d \in disk : target[d] # None /\ worker[target[d]].ws = d

SInv ==
  /\ IInv
  /\ \A w \in Job : OwnedBy(w, worker[w]) /\ Paired(worker[w])
  /\ Tokens
  /\ Directories

-----------------------------------------------------------------------------
(* A step of one worker, as far as its token and its directory go.          *)

\* Its token stays, or is revoked and forgotten, or is issued.
TokenMove(w, r) ==
  \/ UNCHANGED registered /\ r.bearer = worker[w].bearer
  \/ registered' = Unregistered(w) /\ r.bearer = None
  \/ /\ worker[w].bearer = None /\ r.bearer # None
     /\ registered' = [u \in Job |-> IF u = r.bearer THEN JobKey[w] ELSE registered[u]]

\* At most its own old directory goes, at most its new one comes.
DirectoryMove(w, r) ==
  /\ disk \ {worker[w].ws} \subseteq disk'
  /\ InUse(r) => r.ws \in disk'
  /\ ~DiskFaults => \A d \in disk' : (d \in disk /\ d # worker[w].ws) \/ d = r.ws

Move(w, r) ==
  /\ r \in WorkerState
  /\ Become(w, r)
  /\ UNCHANGED target
  /\ OwnedBy(w, r)
  /\ Paired(r)
  /\ TokenMove(w, r)
  /\ DirectoryMove(w, r)

\* Tokens are issued and revoked by their own workers only.
LEMMA TokenStep ==
  ASSUME SInv, NEW w \in Job, NEW r, Move(w, r), disk' \subseteq Job
  PROVE  Tokens'
<1> USE KeyAssumption, JobAssumption
<1>1. /\ worker' \in [Job -> WorkerState]
      /\ worker'[w] = r
      /\ \A v \in Job : v # w => worker'[v] = worker[v]
  BY BecomeLemma DEF SInv, IInv, Move
<1>2. TypeOK /\ Tokens /\ target' = target
  BY DEF SInv, IInv, Move
<1>3. \A v \in Job : worker[v].bearer \in Maybe(Job) /\ r.bearer \in Maybe(Job)
  BY <1>2 DEF TypeOK, WorkerState, Move
<1>4. \A v \in Job : worker[v].bearer # None => target[worker[v].bearer] = v
  BY DEF SInv, OwnedBy
<1>5. r.bearer # None => target[r.bearer] = w
  BY DEF Move, OwnedBy
<1>6. TokenMove(w, r)
  BY DEF Move
<1>7. \A t \in Job : target[t] # None => target[t] \in Job
  BY <1>2 DEF TypeOK
<1>8. CASE UNCHANGED registered /\ r.bearer = worker[w].bearer
  BY <1>1, <1>2, <1>3, <1>4, <1>7, <1>8 DEF Tokens
<1>9. CASE registered' = Unregistered(w) /\ r.bearer = None
  BY <1>1, <1>2, <1>3, <1>4, <1>7, <1>9 DEF Tokens, Unregistered
<1>10. CASE /\ worker[w].bearer = None /\ r.bearer # None
            /\ registered' = [u \in Job |-> IF u = r.bearer THEN JobKey[w] ELSE registered[u]]
  BY <1>1, <1>2, <1>3, <1>4, <1>5, <1>7, <1>10 DEF Tokens
<1>. QED
  BY <1>6, <1>8, <1>9, <1>10 DEF TokenMove

\* Directories are created and removed by their own workers only.
LEMMA DirectoryStep ==
  ASSUME SInv, NEW w \in Job, NEW r, Move(w, r), disk' \subseteq Job
  PROVE  Directories'
<1> USE KeyAssumption, JobAssumption
<1>1. /\ worker' \in [Job -> WorkerState]
      /\ worker'[w] = r
      /\ \A v \in Job : v # w => worker'[v] = worker[v]
  BY BecomeLemma DEF SInv, IInv, Move
<1>2. TypeOK /\ Directories /\ target' = target
  BY DEF SInv, IInv, Move
<1>3. \A v \in Job : worker[v].ws # None => target[worker[v].ws] = v
  BY DEF SInv, OwnedBy
<1>4. \A v \in Job : InUse(worker[v]) => worker[v].ws # None
  BY DEF SInv, Paired, InUse
<1>5. DirectoryMove(w, r) /\ (r.ws # None => target[r.ws] = w)
  BY DEF Move, OwnedBy
<1>6. ASSUME NEW v \in Job, InUse(worker'[v]) PROVE worker'[v].ws \in disk'
  <2>1. CASE v = w
    BY <2>1, <1>1, <1>5, <1>6 DEF DirectoryMove
  <2>2. CASE v # w
    <3>1. worker'[v] = worker[v] /\ worker[v].ws \in disk /\ worker[v].ws # None
      BY <2>2, <1>1, <1>2, <1>4, <1>6 DEF Directories
    <3>2. worker[v].ws # worker[w].ws
      BY <2>2, <3>1, <1>3
    <3>. QED
      BY <3>1, <3>2, <1>5 DEF DirectoryMove
  <2>. QED BY <2>1, <2>2
<1>7. ASSUME ~DiskFaults, NEW d \in disk'
      PROVE  target'[d] # None /\ worker'[target'[d]].ws = d
  <2>1. CASE d \in disk /\ d # worker[w].ws
    <3>1. target[d] \in Job /\ worker[target[d]].ws = d /\ d \in Job
      BY <2>1, <1>2, <1>7 DEF Directories, TypeOK
    <3>. QED
      BY <2>1, <3>1, <1>1, <1>2
  <2>2. CASE d = r.ws
    BY <2>2, <1>1, <1>2, <1>5
  <2>. QED BY <2>1, <2>2, <1>5, <1>7 DEF DirectoryMove
<1>. QED
  BY <1>6, <1>7 DEF Directories

LEMMA MoveSInv ==
  ASSUME SInv, IInv', NEW w \in Job, NEW r, Move(w, r)
  PROVE  SInv'
<1>1. /\ worker'[w] = r
      /\ \A v \in Job : v # w => worker'[v] = worker[v]
  BY BecomeLemma DEF SInv, IInv, Move
<1>2. disk' \subseteq Job
  BY DEF IInv, TypeOK
<1>3. ASSUME NEW v \in Job PROVE OwnedBy(v, worker[v])' /\ Paired(worker[v])'
  <2>1. CASE v = w
    BY <2>1, <1>1 DEF Move, OwnedBy, Paired
  <2>2. CASE v # w
    BY <2>2, <1>1 DEF SInv, Move, OwnedBy, Paired
  <2>. QED BY <2>1, <2>2
<1>. QED
  BY <1>2, <1>3, TokenStep, DirectoryStep DEF SInv

-----------------------------------------------------------------------------
(* Every step of a worker is such a move.                                    *)

LEMMA TakeIdleMove == ASSUME SInv, NEW w \in Job, TakeIdle(w) PROVE \E r : Move(w, r)
<1> DEFINE r == [worker[w] EXCEPT !.pc = "close"]
<1> USE KeyAssumption, JobAssumption
<1>1. /\ worker[w] \in WorkerState /\ Sane(worker[w]) /\ worker[w].pc = "select"
      /\ OwnedBy(w, worker[w]) /\ Paired(worker[w])
      /\ InUse(worker[w]) => worker[w].ws \in disk
      /\ disk \subseteq Job
  BY DEF SInv, IInv, TypeOK, Directories, TakeIdle
<1>2. r \in WorkerState /\ Become(w, r) /\ UNCHANGED target
  BY <1>1 DEF TakeIdle, WorkerState, Sane, InHand, Pc, Closing
<1>3. /\ r.pc = "close" /\ r.jobs = worker[w].jobs /\ r.cur = worker[w].cur /\ r.prov = worker[w].prov
      /\ r.ws = worker[w].ws /\ r.bearer = worker[w].bearer /\ r.opening = worker[w].opening
  BY <1>1 DEF WorkerState
<1> HIDE DEF r
<1>4. OwnedBy(w, r) /\ Paired(r)
  BY <1>1, <1>3 DEF OwnedBy, Paired, Sane, InHand
<1>5. TokenMove(w, r)
  BY <1>1, <1>3 DEF TakeIdle, TokenMove, Paired
<1>6. DirectoryMove(w, r)
  BY <1>1, <1>3 DEF TakeIdle, DirectoryMove, InUse, Paired, Sane, InHand
<1>. QED
  BY <1>2, <1>4, <1>5, <1>6 DEF Move

LEMMA CloseProviderMove == ASSUME SInv, NEW w \in Job, CloseProvider(w) PROVE \E r : Move(w, r)
<1> DEFINE r == [worker[w] EXCEPT !.pc = "cleanup", !.prov = FALSE]
<1> USE KeyAssumption, JobAssumption
<1>1. /\ worker[w] \in WorkerState /\ Sane(worker[w]) /\ worker[w].pc = "close"
      /\ OwnedBy(w, worker[w]) /\ Paired(worker[w])
      /\ InUse(worker[w]) => worker[w].ws \in disk
      /\ disk \subseteq Job
  BY DEF SInv, IInv, TypeOK, Directories, CloseProvider
<1>2. r \in WorkerState /\ Become(w, r) /\ UNCHANGED target
  BY <1>1 DEF CloseProvider, WorkerState, Sane, InHand, Pc, Closing
<1>3. /\ r.pc = "cleanup" /\ r.jobs = worker[w].jobs /\ r.cur = worker[w].cur /\ r.prov = FALSE
      /\ r.ws = worker[w].ws /\ r.bearer = worker[w].bearer /\ r.opening = worker[w].opening
  BY <1>1 DEF WorkerState
<1> HIDE DEF r
<1>4. OwnedBy(w, r) /\ Paired(r)
  BY <1>1, <1>3 DEF OwnedBy, Paired, Sane, InHand
<1>5. TokenMove(w, r)
  BY <1>1, <1>3 DEF CloseProvider, TokenMove, Paired
<1>6. DirectoryMove(w, r)
  BY <1>1, <1>3 DEF CloseProvider, DirectoryMove, InUse, Paired, Sane, InHand
<1>. QED
  BY <1>2, <1>4, <1>5, <1>6 DEF Move

LEMMA CleanupMove == ASSUME SInv, NEW w \in Job, Cleanup(w) PROVE \E r : Move(w, r)
<1> DEFINE r == [worker[w] EXCEPT !.pc = "unregister", !.ws = None]
<1> USE KeyAssumption, JobAssumption
<1>1. /\ worker[w] \in WorkerState /\ Sane(worker[w]) /\ worker[w].pc = "cleanup"
      /\ OwnedBy(w, worker[w]) /\ Paired(worker[w])
      /\ InUse(worker[w]) => worker[w].ws \in disk
      /\ disk \subseteq Job
  BY DEF SInv, IInv, TypeOK, Directories, Cleanup
<1>2. r \in WorkerState /\ Become(w, r) /\ UNCHANGED target
  BY <1>1 DEF Cleanup, WorkerState, Sane, InHand, Pc, Closing
<1>3. /\ r.pc = "unregister" /\ r.jobs = worker[w].jobs /\ r.cur = worker[w].cur /\ r.prov = worker[w].prov
      /\ r.ws = None /\ r.bearer = worker[w].bearer /\ r.opening = worker[w].opening
  BY <1>1 DEF WorkerState
<1> HIDE DEF r
<1>4. OwnedBy(w, r) /\ Paired(r)
  BY <1>1, <1>3 DEF OwnedBy, Paired, Sane, InHand
<1>5. TokenMove(w, r)
  BY <1>1, <1>3 DEF Cleanup, TokenMove, Paired
<1>6. DirectoryMove(w, r)
  BY <1>1, <1>3 DEF Cleanup, DirectoryMove, InUse, Paired, Sane, InHand, AfterCleanup
<1>. QED
  BY <1>2, <1>4, <1>5, <1>6 DEF Move

LEMMA UnregisterMove == ASSUME SInv, NEW w \in Job, Unregister(w) PROVE \E r : Move(w, r)
<1> DEFINE r == [worker[w] EXCEPT !.pc = "remove", !.bearer = None]
<1> USE KeyAssumption, JobAssumption
<1>1. /\ worker[w] \in WorkerState /\ Sane(worker[w]) /\ worker[w].pc = "unregister"
      /\ OwnedBy(w, worker[w]) /\ Paired(worker[w])
      /\ InUse(worker[w]) => worker[w].ws \in disk
      /\ disk \subseteq Job
  BY DEF SInv, IInv, TypeOK, Directories, Unregister
<1>2. r \in WorkerState /\ Become(w, r) /\ UNCHANGED target
  BY <1>1 DEF Unregister, WorkerState, Sane, InHand, Pc, Closing
<1>3. /\ r.pc = "remove" /\ r.jobs = worker[w].jobs /\ r.cur = worker[w].cur /\ r.prov = worker[w].prov
      /\ r.ws = worker[w].ws /\ r.bearer = None /\ r.opening = worker[w].opening
  BY <1>1 DEF WorkerState
<1> HIDE DEF r
<1>4. OwnedBy(w, r) /\ Paired(r)
  BY <1>1, <1>3 DEF OwnedBy, Paired, Sane, InHand
<1>5. TokenMove(w, r)
  BY <1>1, <1>3 DEF Unregister, TokenMove, Paired
<1>6. DirectoryMove(w, r)
  BY <1>1, <1>3 DEF Unregister, DirectoryMove, InUse, Paired, Sane, InHand
<1>. QED
  BY <1>2, <1>4, <1>5, <1>6 DEF Move

LEMMA RemoveMove == ASSUME SInv, NEW w \in Job, Remove(w) PROVE \E r : Move(w, r)
<1> DEFINE r == [worker[w] EXCEPT !.pc = "gone"]
<1> USE KeyAssumption, JobAssumption
<1>1. /\ worker[w] \in WorkerState /\ Sane(worker[w]) /\ worker[w].pc = "remove"
      /\ OwnedBy(w, worker[w]) /\ Paired(worker[w])
      /\ InUse(worker[w]) => worker[w].ws \in disk
      /\ disk \subseteq Job
  BY DEF SInv, IInv, TypeOK, Directories, Remove
<1>2. r \in WorkerState /\ Become(w, r) /\ UNCHANGED target
  BY <1>1 DEF Remove, WorkerState, Sane, InHand, Pc, Closing
<1>3. /\ r.pc = "gone" /\ r.jobs = worker[w].jobs /\ r.cur = worker[w].cur /\ r.prov = worker[w].prov
      /\ r.ws = worker[w].ws /\ r.bearer = worker[w].bearer /\ r.opening = worker[w].opening
  BY <1>1 DEF WorkerState
<1> HIDE DEF r
<1>4. OwnedBy(w, r) /\ Paired(r)
  BY <1>1, <1>3 DEF OwnedBy, Paired, Sane, InHand
<1>5. TokenMove(w, r)
  BY <1>1, <1>3 DEF Remove, TokenMove, Paired
<1>6. DirectoryMove(w, r)
  BY <1>1, <1>3 DEF Remove, DirectoryMove, InUse, Paired, Sane, InHand
<1>. QED
  BY <1>2, <1>4, <1>5, <1>6 DEF Move

LEMMA CreateOKMove == ASSUME SInv, NEW w \in Job, CreateOK(w) PROVE \E r : Move(w, r)
<1> DEFINE r == [worker[w] EXCEPT !.pc = "hook", !.ws = worker[w].cur]
<1> USE KeyAssumption, JobAssumption
<1>1. /\ worker[w] \in WorkerState /\ Sane(worker[w]) /\ worker[w].pc = "create"
      /\ OwnedBy(w, worker[w]) /\ Paired(worker[w])
      /\ InUse(worker[w]) => worker[w].ws \in disk
      /\ disk \subseteq Job
  BY DEF SInv, IInv, TypeOK, Directories, CreateOK
<1>2. r \in WorkerState /\ Become(w, r) /\ UNCHANGED target
  BY <1>1 DEF CreateOK, WorkerState, Sane, InHand, Pc, Closing
<1>3. /\ r.pc = "hook" /\ r.jobs = worker[w].jobs /\ r.cur = worker[w].cur /\ r.prov = worker[w].prov
      /\ r.ws = worker[w].cur /\ r.bearer = worker[w].bearer /\ r.opening = worker[w].opening
  BY <1>1 DEF WorkerState
<1> HIDE DEF r
<1>4. OwnedBy(w, r) /\ Paired(r)
  BY <1>1, <1>3 DEF OwnedBy, Paired, Sane, InHand
<1>5. TokenMove(w, r)
  BY <1>1, <1>3 DEF CreateOK, TokenMove, Paired
<1>6. DirectoryMove(w, r)
  BY <1>1, <1>3 DEF CreateOK, DirectoryMove, InUse, Paired, Sane, InHand
<1>. QED
  BY <1>2, <1>4, <1>5, <1>6 DEF Move

LEMMA CreateFailMove == ASSUME SInv, NEW w \in Job, CreateFail(w) PROVE \E r : Move(w, r)
<1> DEFINE r == WithoutSession(w)
<1> USE KeyAssumption, JobAssumption
<1>1. /\ worker[w] \in WorkerState /\ Sane(worker[w]) /\ worker[w].pc = "create"
      /\ OwnedBy(w, worker[w]) /\ Paired(worker[w])
      /\ InUse(worker[w]) => worker[w].ws \in disk
      /\ disk \subseteq Job
  BY DEF SInv, IInv, TypeOK, Directories, CreateFail
<1>2. r \in WorkerState /\ Become(w, r) /\ UNCHANGED target
  BY <1>1 DEF CreateFail, WorkerState, Sane, InHand, Pc, Closing, WithoutSession
<1>3. /\ r.pc = "select" /\ r.jobs = worker[w].jobs /\ r.cur = None /\ r.prov = worker[w].prov
      /\ r.ws = None /\ r.bearer = None /\ r.opening = worker[w].opening
  BY <1>1 DEF WorkerState, WithoutSession
<1> HIDE DEF r
<1>4. OwnedBy(w, r) /\ Paired(r)
  BY <1>1, <1>3 DEF OwnedBy, Paired, Sane, InHand
<1>5. TokenMove(w, r)
  BY <1>1, <1>3 DEF CreateFail, TokenMove, Paired
<1>6. DirectoryMove(w, r)
  BY <1>1, <1>3 DEF CreateFail, DirectoryMove, InUse, Paired, Sane, InHand
<1>. QED
  BY <1>2, <1>4, <1>5, <1>6 DEF Move

LEMMA HookFailMove == ASSUME SInv, NEW w \in Job, HookFail(w) PROVE \E r : Move(w, r)
<1> DEFINE r == WithoutSession(w)
<1> USE KeyAssumption, JobAssumption
<1>1. /\ worker[w] \in WorkerState /\ Sane(worker[w]) /\ worker[w].pc = "hook"
      /\ OwnedBy(w, worker[w]) /\ Paired(worker[w])
      /\ InUse(worker[w]) => worker[w].ws \in disk
      /\ disk \subseteq Job
  BY DEF SInv, IInv, TypeOK, Directories, HookFail
<1>2. r \in WorkerState /\ Become(w, r) /\ UNCHANGED target
  BY <1>1 DEF HookFail, WorkerState, Sane, InHand, Pc, Closing, WithoutSession
<1>3. /\ r.pc = "select" /\ r.jobs = worker[w].jobs /\ r.cur = None /\ r.prov = worker[w].prov
      /\ r.ws = None /\ r.bearer = None /\ r.opening = worker[w].opening
  BY <1>1 DEF WorkerState, WithoutSession
<1> HIDE DEF r
<1>4. OwnedBy(w, r) /\ Paired(r)
  BY <1>1, <1>3 DEF OwnedBy, Paired, Sane, InHand
<1>5. TokenMove(w, r)
  BY <1>1, <1>3 DEF HookFail, TokenMove, Paired
<1>6. DirectoryMove(w, r)
  BY <1>1, <1>3 DEF HookFail, DirectoryMove, InUse, Paired, Sane, InHand, AfterCleanup
<1>. QED
  BY <1>2, <1>4, <1>5, <1>6 DEF Move

LEMMA StartOKMove == ASSUME SInv, NEW w \in Job, StartOK(w) PROVE \E r : Move(w, r)
<1> DEFINE r == [worker[w] EXCEPT !.pc = "context", !.prov = TRUE,
                                 !.opening = worker[w].cur, !.booted = FALSE]
<1> USE KeyAssumption, JobAssumption
<1>1. /\ worker[w] \in WorkerState /\ Sane(worker[w]) /\ worker[w].pc = "start"
      /\ OwnedBy(w, worker[w]) /\ Paired(worker[w])
      /\ InUse(worker[w]) => worker[w].ws \in disk
      /\ disk \subseteq Job
  BY DEF SInv, IInv, TypeOK, Directories, StartOK
<1>2. r \in WorkerState /\ Become(w, r) /\ UNCHANGED target
  BY <1>1 DEF StartOK, WorkerState, Sane, InHand, Pc, Closing
<1>3. /\ r.pc = "context" /\ r.jobs = worker[w].jobs /\ r.cur = worker[w].cur /\ r.prov = TRUE
      /\ r.ws = worker[w].ws /\ r.bearer = worker[w].bearer /\ r.opening = worker[w].cur
  BY <1>1 DEF WorkerState
<1> HIDE DEF r
<1>4. OwnedBy(w, r) /\ Paired(r)
  BY <1>1, <1>3 DEF OwnedBy, Paired, Sane, InHand
<1>5. TokenMove(w, r)
  BY <1>1, <1>3 DEF StartOK, TokenMove, Paired
<1>6. DirectoryMove(w, r)
  BY <1>1, <1>3 DEF StartOK, DirectoryMove, InUse, Paired, Sane, InHand
<1>. QED
  BY <1>2, <1>4, <1>5, <1>6 DEF Move

LEMMA StartFailMove == ASSUME SInv, NEW w \in Job, StartFail(w) PROVE \E r : Move(w, r)
<1> DEFINE r == WithoutSession(w)
<1> USE KeyAssumption, JobAssumption
<1>1. /\ worker[w] \in WorkerState /\ Sane(worker[w]) /\ worker[w].pc = "start"
      /\ OwnedBy(w, worker[w]) /\ Paired(worker[w])
      /\ InUse(worker[w]) => worker[w].ws \in disk
      /\ disk \subseteq Job
  BY DEF SInv, IInv, TypeOK, Directories, StartFail
<1>2. r \in WorkerState /\ Become(w, r) /\ UNCHANGED target
  BY <1>1 DEF StartFail, WorkerState, Sane, InHand, Pc, Closing, WithoutSession
<1>3. /\ r.pc = "select" /\ r.jobs = worker[w].jobs /\ r.cur = None /\ r.prov = worker[w].prov
      /\ r.ws = None /\ r.bearer = None /\ r.opening = worker[w].opening
  BY <1>1 DEF WorkerState, WithoutSession
<1> HIDE DEF r
<1>4. OwnedBy(w, r) /\ Paired(r)
  BY <1>1, <1>3 DEF OwnedBy, Paired, Sane, InHand
<1>5. TokenMove(w, r)
  BY <1>1, <1>3 DEF StartFail, TokenMove, Paired
<1>6. DirectoryMove(w, r)
  BY <1>1, <1>3 DEF StartFail, DirectoryMove, InUse, Paired, Sane, InHand, AfterCleanup
<1>. QED
  BY <1>2, <1>4, <1>5, <1>6 DEF Move

LEMMA ContextOKMove == ASSUME SInv, NEW w \in Job, ContextOK(w) PROVE \E r : Move(w, r)
<1> DEFINE r == [worker[w] EXCEPT !.pc = "prompt"]
<1> USE KeyAssumption, JobAssumption
<1>1. /\ worker[w] \in WorkerState /\ Sane(worker[w]) /\ worker[w].pc = "context"
      /\ OwnedBy(w, worker[w]) /\ Paired(worker[w])
      /\ InUse(worker[w]) => worker[w].ws \in disk
      /\ disk \subseteq Job
  BY DEF SInv, IInv, TypeOK, Directories, ContextOK
<1>2. r \in WorkerState /\ Become(w, r) /\ UNCHANGED target
  BY <1>1 DEF ContextOK, WorkerState, Sane, InHand, Pc, Closing
<1>3. /\ r.pc = "prompt" /\ r.jobs = worker[w].jobs /\ r.cur = worker[w].cur /\ r.prov = worker[w].prov
      /\ r.ws = worker[w].ws /\ r.bearer = worker[w].bearer /\ r.opening = worker[w].opening
  BY <1>1 DEF WorkerState
<1> HIDE DEF r
<1>4. OwnedBy(w, r) /\ Paired(r)
  BY <1>1, <1>3 DEF OwnedBy, Paired, Sane, InHand
<1>5. TokenMove(w, r)
  BY <1>1, <1>3 DEF ContextOK, TokenMove, Paired
<1>6. DirectoryMove(w, r)
  BY <1>1, <1>3 DEF ContextOK, DirectoryMove, InUse, Paired, Sane, InHand
<1>. QED
  BY <1>2, <1>4, <1>5, <1>6 DEF Move

LEMMA ContextFailMove == ASSUME SInv, NEW w \in Job, ContextFail(w) PROVE \E r : Move(w, r)
<1> DEFINE r == WithSession(w, worker[w].booted)
<1> USE KeyAssumption, JobAssumption
<1>1. /\ worker[w] \in WorkerState /\ Sane(worker[w]) /\ worker[w].pc = "context"
      /\ OwnedBy(w, worker[w]) /\ Paired(worker[w])
      /\ InUse(worker[w]) => worker[w].ws \in disk
      /\ disk \subseteq Job
  BY DEF SInv, IInv, TypeOK, Directories, ContextFail
<1>2. r \in WorkerState /\ Become(w, r) /\ UNCHANGED target
  BY <1>1 DEF ContextFail, WorkerState, Sane, InHand, Pc, Closing, WithSession
<1>3. /\ r.pc = "select" /\ r.jobs = worker[w].jobs /\ r.cur = None /\ r.prov = worker[w].prov
      /\ r.ws = worker[w].ws /\ r.bearer = worker[w].bearer /\ r.opening = worker[w].opening
  BY <1>1 DEF WorkerState, WithSession
<1> HIDE DEF r
<1>4. OwnedBy(w, r) /\ Paired(r)
  BY <1>1, <1>3 DEF OwnedBy, Paired, Sane, InHand
<1>5. TokenMove(w, r)
  BY <1>1, <1>3 DEF ContextFail, TokenMove, Paired
<1>6. DirectoryMove(w, r)
  BY <1>1, <1>3 DEF ContextFail, DirectoryMove, InUse, Paired, Sane, InHand
<1>. QED
  BY <1>2, <1>4, <1>5, <1>6 DEF Move

LEMMA PromptOKMove == ASSUME SInv, NEW w \in Job, PromptOK(w) PROVE \E r : Move(w, r)
<1> DEFINE r == WithSession(w, TRUE)
<1> USE KeyAssumption, JobAssumption
<1>1. /\ worker[w] \in WorkerState /\ Sane(worker[w]) /\ worker[w].pc = "prompt"
      /\ OwnedBy(w, worker[w]) /\ Paired(worker[w])
      /\ InUse(worker[w]) => worker[w].ws \in disk
      /\ disk \subseteq Job
  BY DEF SInv, IInv, TypeOK, Directories, PromptOK
<1>2. r \in WorkerState /\ Become(w, r) /\ UNCHANGED target
  BY <1>1 DEF PromptOK, WorkerState, Sane, InHand, Pc, Closing, WithSession
<1>3. /\ r.pc = "select" /\ r.jobs = worker[w].jobs /\ r.cur = None /\ r.prov = worker[w].prov
      /\ r.ws = worker[w].ws /\ r.bearer = worker[w].bearer /\ r.opening = worker[w].opening
  BY <1>1 DEF WorkerState, WithSession
<1> HIDE DEF r
<1>4. OwnedBy(w, r) /\ Paired(r)
  BY <1>1, <1>3 DEF OwnedBy, Paired, Sane, InHand
<1>5. TokenMove(w, r)
  BY <1>1, <1>3 DEF PromptOK, TokenMove, Paired
<1>6. DirectoryMove(w, r)
  BY <1>1, <1>3 DEF PromptOK, DirectoryMove, InUse, Paired, Sane, InHand
<1>. QED
  BY <1>2, <1>4, <1>5, <1>6 DEF Move

LEMMA PromptFailMove == ASSUME SInv, NEW w \in Job, PromptFail(w) PROVE \E r : Move(w, r)
<1> DEFINE r == WithSession(w, worker[w].booted)
<1> USE KeyAssumption, JobAssumption
<1>1. /\ worker[w] \in WorkerState /\ Sane(worker[w]) /\ worker[w].pc = "prompt"
      /\ OwnedBy(w, worker[w]) /\ Paired(worker[w])
      /\ InUse(worker[w]) => worker[w].ws \in disk
      /\ disk \subseteq Job
  BY DEF SInv, IInv, TypeOK, Directories, PromptFail
<1>2. r \in WorkerState /\ Become(w, r) /\ UNCHANGED target
  BY <1>1 DEF PromptFail, WorkerState, Sane, InHand, Pc, Closing, WithSession
<1>3. /\ r.pc = "select" /\ r.jobs = worker[w].jobs /\ r.cur = None /\ r.prov = worker[w].prov
      /\ r.ws = worker[w].ws /\ r.bearer = worker[w].bearer /\ r.opening = worker[w].opening
  BY <1>1 DEF WorkerState, WithSession
<1> HIDE DEF r
<1>4. OwnedBy(w, r) /\ Paired(r)
  BY <1>1, <1>3 DEF OwnedBy, Paired, Sane, InHand
<1>5. TokenMove(w, r)
  BY <1>1, <1>3 DEF PromptFail, TokenMove, Paired
<1>6. DirectoryMove(w, r)
  BY <1>1, <1>3 DEF PromptFail, DirectoryMove, InUse, Paired, Sane, InHand
<1>. QED
  BY <1>2, <1>4, <1>5, <1>6 DEF Move

LEMMA HookOKMove == ASSUME SInv, NEW w \in Job, HookOK(w) PROVE \E r : Move(w, r)
<1> DEFINE t == IF ContextAPI THEN worker[w].cur ELSE None
           r == [worker[w] EXCEPT !.pc = "start", !.bearer = t]
<1> USE KeyAssumption, JobAssumption
<1>1. /\ worker[w] \in WorkerState /\ Sane(worker[w]) /\ worker[w].pc = "hook"
      /\ OwnedBy(w, worker[w]) /\ Paired(worker[w])
      /\ InUse(worker[w]) => worker[w].ws \in disk
      /\ disk \subseteq Job /\ registered \in [Job -> Maybe(Key)]
  BY DEF SInv, IInv, TypeOK, Directories, HookOK
<1>2. r \in WorkerState /\ Become(w, r) /\ UNCHANGED <<target, disk>>
  BY <1>1 DEF HookOK, WorkerState, Pc
<1>3. /\ r.pc = "start" /\ r.jobs = worker[w].jobs /\ r.cur = worker[w].cur /\ r.prov = worker[w].prov
      /\ r.ws = worker[w].ws /\ r.bearer = t /\ r.opening = worker[w].opening
  BY <1>1 DEF WorkerState
<1>4. registered' = [u \in Job |-> IF u = t THEN JobKey[w] ELSE registered[u]]
  BY DEF HookOK
<1>5. worker[w].bearer = None /\ worker[w].cur # None
  BY <1>1 DEF Paired, Sane, InHand
<1> HIDE DEF r
<1>6. OwnedBy(w, r) /\ Paired(r)
  BY <1>1, <1>3, <1>5 DEF OwnedBy, Paired, Sane, InHand
<1>7. TokenMove(w, r)
  <2>1. CASE t = None
    <3>1. registered' = registered
      BY <2>1, <1>1, <1>4
    <3>. QED
      BY <2>1, <3>1, <1>3, <1>5 DEF TokenMove
  <2>2. CASE t # None
    BY <2>2, <1>3, <1>4, <1>5 DEF TokenMove
  <2>. QED BY <2>1, <2>2
<1>8. DirectoryMove(w, r)
  BY <1>1, <1>2, <1>3 DEF DirectoryMove, InUse, Paired
<1>. QED
  BY <1>2, <1>6, <1>7, <1>8 DEF Move

LEMMA TakeJobMove == ASSUME SInv, NEW w \in Job, TakeJob(w) PROVE \E r : Move(w, r)
<1> DEFINE h == Head(worker[w].jobs)
           t == Tail(worker[w].jobs)
           r == [worker[w] EXCEPT
                   !.pc = IF worker[w].prov THEN "context" ELSE "create",
                   !.cur = h, !.jobs = t, !.armed = FALSE]
<1> USE KeyAssumption, JobAssumption
<1>1. /\ worker[w] \in WorkerState /\ Sane(worker[w]) /\ worker[w].pc = "select"
      /\ OwnedBy(w, worker[w]) /\ Paired(worker[w])
      /\ InUse(worker[w]) => worker[w].ws \in disk
      /\ disk \subseteq Job
  BY DEF SInv, IInv, TypeOK, Directories, TakeJob
<1>2. worker[w].jobs \in Seq(Job) /\ worker[w].jobs # <<>>
  BY <1>1 DEF WorkerState, TakeJob
<1>3. /\ h \in Job /\ t \in Seq(Job) /\ target[h] = w
      /\ \A i \in 1..Len(t) : target[t[i]] = w
  <2>1. h = worker[w].jobs[1] /\ 1 \in 1..Len(worker[w].jobs)
    BY <1>2
  <2>2. \A i \in 1..Len(t) : t[i] = worker[w].jobs[i + 1] /\ i + 1 \in 1..Len(worker[w].jobs)
    BY <1>2
  <2>. QED
    BY <1>1, <1>2, <2>1, <2>2 DEF OwnedBy
<1>4. Become(w, r) /\ UNCHANGED <<target, registered, disk>>
  BY DEF TakeJob
<1> HIDE DEF h, t
<1>5. r \in WorkerState
  BY <1>1, <1>3, ZenonT(60) DEF WorkerState, Pc
<1>6. /\ r.pc = (IF worker[w].prov THEN "context" ELSE "create")
      /\ r.jobs = t /\ r.cur = h /\ r.prov = worker[w].prov
      /\ r.ws = worker[w].ws /\ r.bearer = worker[w].bearer /\ r.opening = worker[w].opening
  BY <1>1 DEF WorkerState
<1> HIDE DEF r
<1>7. OwnedBy(w, r) /\ Paired(r)
  BY <1>1, <1>3, <1>6 DEF OwnedBy, Paired
<1>8. TokenMove(w, r) /\ DirectoryMove(w, r)
  BY <1>1, <1>4, <1>6 DEF TokenMove, DirectoryMove, InUse
<1>. QED
  BY <1>4, <1>5, <1>7, <1>8 DEF Move

\* To its worker, a job that arrives in its channel is such a move, too.
LEMMA SendMove == ASSUME SInv, NEW c \in Caller, Send(c) PROVE \E w \in Job : \E r : Move(w, r)
<1> USE KeyAssumption, JobAssumption
<1>1. TypeOK /\ Addressed
  BY DEF SInv, IInv
<1>2. PICK j \in Job, w \in Job : j = sending[c] /\ w = target[j]
  BY <1>1 DEF Send, TypeOK, Addressed
<1>3. /\ worker[w] \in WorkerState
      /\ OwnedBy(w, worker[w]) /\ Paired(worker[w])
      /\ InUse(worker[w]) => worker[w].ws \in disk
      /\ disk \subseteq Job
  BY <1>1 DEF SInv, TypeOK, Directories
<1> DEFINE q == Append(worker[w].jobs, j)
           r == [worker[w] EXCEPT !.jobs = q]
<1>4. q \in Seq(Job) /\ \A i \in 1..Len(q) : target[q[i]] = w
  <2>1. worker[w].jobs \in Seq(Job)
    BY <1>3 DEF WorkerState
  <2>2. /\ Len(q) = Len(worker[w].jobs) + 1 /\ q[Len(q)] = j
        /\ \A i \in 1..Len(worker[w].jobs) : q[i] = worker[w].jobs[i]
    BY <2>1
  <2>3. q \in Seq(Job) /\ Len(worker[w].jobs) \in Nat
    BY <2>1
  <2>4. ASSUME NEW i \in 1..Len(q) PROVE target[q[i]] = w
    <3>1. CASE i = Len(q)
      BY <1>2, <2>2, <3>1
    <3>2. CASE i # Len(q)
      <4>1. i \in 1..Len(worker[w].jobs)
        BY <2>2, <2>3, <3>2
      <4> HIDE DEF q
      <4>. QED
        BY <1>3, <2>2, <4>1 DEF OwnedBy
    <3>. QED
      BY <3>1, <3>2
  <2>. QED
    BY <2>3, <2>4
<1>5. Become(w, r) /\ UNCHANGED <<target, registered, disk>>
  BY <1>2 DEF Send
<1> HIDE DEF q
<1>6. /\ r \in WorkerState
      /\ r.jobs = q /\ r.pc = worker[w].pc /\ r.cur = worker[w].cur /\ r.prov = worker[w].prov
      /\ r.ws = worker[w].ws /\ r.bearer = worker[w].bearer /\ r.opening = worker[w].opening
  BY <1>3, <1>4 DEF WorkerState
<1> HIDE DEF r
<1>7. OwnedBy(w, r) /\ Paired(r)
  BY <1>3, <1>4, <1>6 DEF OwnedBy, Paired
<1>8. TokenMove(w, r) /\ DirectoryMove(w, r)
  BY <1>3, <1>5, <1>6 DEF TokenMove, DirectoryMove, InUse
<1>. QED
  BY <1>5, <1>6, <1>7, <1>8 DEF Move

\* Enqueue hands its job to a worker before anybody has it in hand.
LEMMA EnqueueSInv ==
  ASSUME SInv, IInv', NEW c \in Caller, NEW j \in Job, Enqueue(c, j)
  PROVE  SInv'
<1> USE KeyAssumption, JobAssumption
<1>1. TypeOK /\ Binding /\ Tokens /\ Directories
  BY DEF SInv, IInv
<1>2. PICK w \in Job : w = WorkerFor(JobKey[j], j)
  BY <1>1 DEF WorkerFor, TypeOK
<1> DEFINE r == IF worker[w].pc = "unborn"
                THEN [worker[w] EXCEPT !.pc = "select"] ELSE worker[w]
<1>3. /\ worker[w] \in WorkerState /\ Sane(worker[w])
      /\ OwnedBy(w, worker[w]) /\ Paired(worker[w])
  BY DEF SInv, IInv, TypeOK
<1>4. /\ r \in WorkerState
      /\ r.pc = (IF worker[w].pc = "unborn" THEN "select" ELSE worker[w].pc)
      /\ r.jobs = worker[w].jobs /\ r.cur = worker[w].cur /\ r.prov = worker[w].prov
      /\ r.ws = worker[w].ws /\ r.bearer = worker[w].bearer /\ r.opening = worker[w].opening
  BY <1>3 DEF WorkerState, Pc
<1>5. /\ Become(w, r)
      /\ target[j] = None /\ target' = [target EXCEPT ![j] = w]
      /\ UNCHANGED <<registered, disk>>
  BY <1>2 DEF Enqueue
<1> HIDE DEF r
<1>6. /\ worker'[w] = r
      /\ \A v \in Job : v # w => worker'[v] = worker[v]
  BY <1>1, <1>4, <1>5, BecomeLemma
<1>7. \A i \in Job : target[i] # None => target'[i] = target[i]
  BY <1>1, <1>5 DEF TypeOK
<1>8. \A v \in Job : /\ worker'[v].jobs = worker[v].jobs /\ worker'[v].cur = worker[v].cur
                     /\ worker'[v].ws = worker[v].ws /\ worker'[v].bearer = worker[v].bearer
                     /\ worker'[v].opening = worker[v].opening
                     /\ InUse(worker'[v]) <=> InUse(worker[v])
  BY <1>4, <1>6 DEF InUse
<1>9. ASSUME NEW v \in Job PROVE OwnedBy(v, worker[v])'
  <2>1. worker[v] \in WorkerState /\ OwnedBy(v, worker[v])
    BY <1>1 DEF SInv, TypeOK
  <2>2. \A i \in 1..Len(worker[v].jobs) : worker[v].jobs[i] \in Job
    BY <2>1 DEF WorkerState
  <2>. QED
    BY <2>1, <2>2, <1>7, <1>8 DEF OwnedBy, WorkerState
<1>10. Paired(r)
  BY <1>3, <1>4 DEF Paired, Sane
<1>11. ASSUME NEW v \in Job PROVE Paired(worker[v])'
  BY <1>6, <1>10 DEF SInv, Paired
<1>12. Tokens'
  <2>1. ASSUME NEW t \in Job, registered[t] # None
        PROVE  /\ target'[t] # None
               /\ worker'[target'[t]].bearer = t
               /\ registered[t] = JobKey[target'[t]]
    <3>1. target[t] \in Job /\ target'[t] = target[t]
      BY <1>1, <1>7, <2>1 DEF Tokens, TypeOK
    <3>. QED
      BY <1>1, <1>8, <2>1, <3>1 DEF Tokens
  <2>2. ASSUME NEW v \in Job, worker'[v].bearer # None
        PROVE  registered[worker'[v].bearer] = JobKey[v]
    BY <1>1, <1>8, <2>2 DEF Tokens
  <2>. QED
    BY <1>5, <2>1, <2>2 DEF Tokens
<1>13. Directories'
  BY <1>1, <1>5, <1>7, <1>8 DEF Directories, TypeOK
<1>. QED
  BY <1>9, <1>11, <1>12, <1>13 DEF SInv

LEMMA InitSInv == Init => SInv
<1> SUFFICES ASSUME Init PROVE SInv
  OBVIOUS
<1>1. IInv
  BY InitIInv
<1>2. \A w \in Job : OwnedBy(w, worker[w]) /\ Paired(worker[w])
  BY JobAssumption DEF Init, Unborn, OwnedBy, Paired
<1>. QED
  BY <1>1, <1>2 DEF Init, Unborn, SInv, Tokens, Directories, InUse

LEMMA NextSInv == SInv /\ [Next]_vars => SInv'
<1> SUFFICES ASSUME SInv, [Next]_vars PROVE SInv'
  OBVIOUS
<1>1. IInv'
  BY NextIInv DEF SInv
<1>2. ASSUME NEW c \in Caller, NEW j \in Job, Enqueue(c, j) PROVE SInv'
  BY <1>1, <1>2, EnqueueSInv
<1>3. ASSUME NEW c \in Caller, Send(c) PROVE SInv'
  BY <1>1, <1>3, SendMove, MoveSInv
<1>4. ASSUME NEW w \in Job, Idling(w) PROVE SInv'
  BY <1>1, <1>4, MoveSInv, TakeIdleMove, CloseProviderMove, CleanupMove, UnregisterMove,
     RemoveMove DEF Idling
<1>5. ASSUME NEW w \in Job, Hooking(w) PROVE SInv'
  BY <1>1, <1>5, MoveSInv, HookOKMove, HookFailMove DEF Hooking
<1>6. ASSUME NEW w \in Job, Serving(w) PROVE SInv'
  BY <1>1, <1>6, MoveSInv, TakeJobMove, CreateOKMove, CreateFailMove, StartOKMove,
     StartFailMove, ContextOKMove, ContextFailMove, PromptOKMove, PromptFailMove DEF Serving
<1>7. CASE UNCHANGED vars
  BY <1>1, <1>7 DEF vars, SInv, OwnedBy, Paired, Tokens, Directories
<1>. QED
  BY <1>2, <1>3, <1>4, <1>5, <1>6, <1>7 DEF Next

THEOREM SessionInvariance == Spec => []SInv
BY InitSInv, NextSInv, PTL DEF Spec

-----------------------------------------------------------------------------
(* Results.                                                                  *)

\* A Context API token opens only the thread it was issued for, only while the
\* worker that holds it is the one bound to that thread; and the token of a
\* running provider is valid, through every failing branch of run().
THEOREM TokensPaired == Spec => []TokensFollowSessions
<1>1. SInv => TokensFollowSessions
  <2> SUFFICES ASSUME SInv PROVE TokensFollowSessions
    OBVIOUS
  <2>1. TypeOK /\ Binding /\ Tokens
    BY DEF SInv, IInv
  <2>2. ASSUME NEW t \in Job, registered[t] # None
        PROVE  \E w \in Job : /\ worker[w].bearer = t
                              /\ JobKey[w] = registered[t]
                              /\ workers[registered[t]] = w
    <3>1. /\ target[t] \in Job /\ worker[target[t]].bearer = t
          /\ registered[t] = JobKey[target[t]]
      BY <2>1, <2>2 DEF Tokens, TypeOK
    <3>2. Live(target[t])
      BY <3>1, JobAssumption DEF SInv, Paired, Live
    <3>. QED
      BY <3>1, <3>2, <2>1 DEF Binding
  <2>3. ASSUME ContextAPI, NEW w \in Job, worker[w].prov
        PROVE  worker[w].bearer # None /\ registered[worker[w].bearer] = JobKey[w]
    BY <2>1, <2>3 DEF SInv, Paired, Tokens
  <2>. QED
    BY <2>2, <2>3 DEF TokensFollowSessions
<1>. QED
  BY <1>1, SessionInvariance, PTL

\* The directory a hook, a launch or a provider runs in is never removed under
\* it, by its own worker or by another.
THEOREM DirectoriesOutliveProviders == Spec => []WorkspaceOutlivesProvider
<1>1. SInv => WorkspaceOutlivesProvider
  BY DEF SInv, Directories, InUse, WorkspaceOutlivesProvider
<1>. QED
  BY <1>1, SessionInvariance, PTL

\* As long as creating and removing directories does not fail, every branch of
\* run() that ends a session, or fails to begin one, takes its directory along.
THEOREM NoDirectoryLeft == ~DiskFaults => (Spec => []NoOrphanWorkspace)
<1> SUFFICES ASSUME ~DiskFaults PROVE Spec => []NoOrphanWorkspace
  OBVIOUS
<1>1. SInv => NoOrphanWorkspace
  BY DEF SInv, IInv, TypeOK, Directories, NoOrphanWorkspace
<1>. QED
  BY <1>1, SessionInvariance, PTL

-----------------------------------------------------------------------------
(* Part three: messages are conserved, and ThreadContract is implemented.   *)


-----------------------------------------------------------------------------
(* The inductive invariant for messages: SInv, and what is below.           *)

Distinct(s) == \A a, b \in 1..Len(s) : s[a] = s[b] => a = b

\* No message is twice in a channel, and no two callers send the same one.
SingleCopies ==
  /\ \A w \in Job : Distinct(worker[w].jobs)
  /\ \A c, d \in Caller : sending[c] # None /\ sending[c] = sending[d] => c = d

\* A message is handed to a worker of its own thread that has been started.
Reached ==
  \A j \in Job : target[j] # None =>
    worker[target[j]].pc # "unborn" /\ JobKey[target[j]] = JobKey[j]

\* Only what was handed over is answered, and what an answer is about has
\* been answered itself, or has failed.
Spoken ==
  /\ \A j \in Job : target[j] = None => reply[j] = None
  /\ \A j \in Job : reply[j] \in Job => reply[reply[j]] # None

\* The opening prompt of a session is about the job in hand or one that failed,
\* and until it has been answered no reply is about it.
Opening(r, replies) ==
  r.prov =>
    /\ r.opening # None
    /\ ~r.booted => /\ r.cur = r.opening \/ replies[r.opening] = Failed
                    /\ \A j \in Job : replies[j] # r.opening

QInv ==
  /\ SInv
  /\ SingleCopies
  /\ Reached
  /\ Spoken
  /\ \A w \in Job : Opening(worker[w], reply)
  /\ UnansweredIsHeld

-----------------------------------------------------------------------------
(* A step of one worker, as far as messages go. It may change anything in    *)
(* its state but the job in hand and the channel; or it answers the job in   *)
(* hand; or it takes the next one out of the channel.                        *)

WorkerStep(w, r) ==
  /\ r \in WorkerState
  /\ r.pc # "unborn"
  /\ Become(w, r)
  /\ UNCHANGED <<sending, target>>

Quiet(w, r) ==
  /\ WorkerStep(w, r)
  /\ r.jobs = worker[w].jobs /\ r.cur = worker[w].cur
  /\ UNCHANGED reply
  /\ Opening(r, reply)

\* What the job in hand of worker w may be answered with.
Sayable(w, v) ==
  \/ v = Failed
  \/ /\ v \in Job /\ target[v] = w
     /\ v = worker[w].cur \/ reply[v] = Failed
     /\ \A j \in Job : reply[j] # v

Answering(w, r, v) ==
  /\ WorkerStep(w, r)
  /\ worker[w].cur # None
  /\ r.pc = "select" /\ r.jobs = worker[w].jobs /\ r.cur = None
  /\ Sayable(w, v)
  /\ reply' = [reply EXCEPT ![worker[w].cur] = v]
  /\ Opening(r, reply')

Taking(w, r) ==
  /\ WorkerStep(w, r)
  /\ worker[w].jobs # <<>> /\ worker[w].cur = None
  /\ r.jobs = Tail(worker[w].jobs) /\ r.cur = Head(worker[w].jobs)
  /\ UNCHANGED reply
  /\ Opening(r, reply)

LEMMA StepFacts ==
  ASSUME QInv, NEW w \in Job, NEW r, WorkerStep(w, r)
  PROVE  /\ worker' \in [Job -> WorkerState] /\ worker'[w] = r
         /\ \A v \in Job : v # w => worker'[v] = worker[v]
         /\ \A v \in Job : OwnedBy(v, worker[v])
         /\ TypeOK
         /\ target' = target /\ sending' = sending
         /\ \A j \in Job : BeingSent(j)' <=> BeingSent(j)
         /\ Reached'
<1>1. TypeOK /\ \A v \in Job : OwnedBy(v, worker[v])
  BY DEF QInv, SInv, IInv
<1>2. /\ worker' \in [Job -> WorkerState] /\ worker'[w] = r
      /\ \A v \in Job : v # w => worker'[v] = worker[v]
  BY <1>1, BecomeLemma DEF WorkerStep
<1>3. target' = target /\ sending' = sending /\ r.pc # "unborn"
  BY DEF WorkerStep
<1>4. \A j \in Job : BeingSent(j)' <=> BeingSent(j)
  BY <1>3 DEF BeingSent
<1>5. Reached'
  BY <1>1, <1>2, <1>3 DEF QInv, Reached, TypeOK
<1>. QED
  BY <1>1, <1>2, <1>3, <1>4, <1>5

LEMMA QuietQInv ==
  ASSUME QInv, SInv', NEW w \in Job, NEW r, Quiet(w, r)
  PROVE  QInv'
<1> USE JobAssumption
<1>1. /\ worker' \in [Job -> WorkerState] /\ worker'[w] = r
      /\ \A v \in Job : v # w => worker'[v] = worker[v]
      /\ TypeOK
      /\ target' = target /\ sending' = sending /\ reply' = reply
      /\ \A j \in Job : BeingSent(j)' <=> BeingSent(j)
      /\ Reached'
  BY StepFacts DEF Quiet
<1>2. \A v \in Job : worker'[v].jobs = worker[v].jobs /\ worker'[v].cur = worker[v].cur
  BY <1>1 DEF Quiet
<1>3. SingleCopies'
  BY <1>1, <1>2 DEF QInv, SingleCopies
<1>4. Spoken'
  BY <1>1 DEF QInv, Spoken
<1>5. ASSUME NEW v \in Job PROVE Opening(worker[v], reply)'
  BY <1>1 DEF QInv, Opening, Quiet
<1>6. UnansweredIsHeld'
  BY <1>1, <1>2 DEF QInv, UnansweredIsHeld, Queued, TypeOK
<1>. QED
  BY <1>1, <1>3, <1>4, <1>5, <1>6 DEF QInv

LEMMA AnsweringQInv ==
  ASSUME QInv, SInv', NEW w \in Job, NEW r, NEW v, Answering(w, r, v)
  PROVE  QInv'
<1> USE JobAssumption
<1> DEFINE c == worker[w].cur
<1>1. /\ worker' \in [Job -> WorkerState] /\ worker'[w] = r
      /\ \A u \in Job : u # w => worker'[u] = worker[u]
      /\ TypeOK
      /\ target' = target /\ sending' = sending
      /\ \A j \in Job : BeingSent(j)' <=> BeingSent(j)
      /\ Reached'
  BY StepFacts DEF Answering
<1>2. /\ \A u \in Job : worker'[u].jobs = worker[u].jobs
      /\ \A u \in Job : u # w => worker'[u].cur = worker[u].cur
      /\ worker'[w].cur = None
  BY <1>1 DEF Answering
<1>3. c \in Job /\ target[c] = w
  BY <1>1 DEF QInv, SInv, OwnedBy, Answering, TypeOK, WorkerState
<1>4. /\ reply'[c] = v
      /\ \A j \in Job : j # c => reply'[j] = reply[j]
      /\ v # None
  BY <1>1, <1>3 DEF Answering, TypeOK, Sayable
<1>5. SingleCopies'
  BY <1>1, <1>2 DEF QInv, SingleCopies
<1>6. Spoken'
  <2>1. \A j \in Job : target[j] = None => reply[j] = None
    BY DEF QInv, Spoken
  <2>2. \A j \in Job : target'[j] = None => reply'[j] = None
    BY <1>1, <1>3, <1>4, <2>1
  <2>3. ASSUME NEW j \in Job, reply'[j] \in Job PROVE reply'[reply'[j]] # None
    <3>1. CASE j = c
      BY <2>3, <3>1, <1>3, <1>4 DEF Answering, Sayable
    <3>2. CASE j # c
      BY <2>3, <3>2, <1>4 DEF QInv, Spoken
    <3>. QED BY <3>1, <3>2
  <2>. QED BY <2>2, <2>3 DEF Spoken
<1>7. ASSUME NEW u \in Job PROVE Opening(worker[u], reply)'
  <2>1. CASE u = w
    BY <2>1, <1>1 DEF Answering, Opening
  <2>2. CASE u # w
    <3>1. worker'[u] = worker[u] /\ Opening(worker[u], reply)
      BY <2>2, <1>1 DEF QInv
    <3>2. worker[u].opening # None => worker[u].opening \in Job /\ target[worker[u].opening] = u
      BY <1>1 DEF QInv, SInv, OwnedBy, TypeOK, WorkerState
    <3>3. worker[u].opening # None => worker[u].opening # c /\ v # worker[u].opening
      BY <2>2, <3>2, <1>3 DEF Answering, Sayable
    <3>. QED
      BY <3>1, <3>2, <3>3, <1>4 DEF Opening
  <2>. QED BY <2>1, <2>2
<1>8. UnansweredIsHeld'
  <2> SUFFICES ASSUME NEW j \in Job, target[j] # None
               PROVE  LET served == worker'[target[j]].cur = j IN
                      /\ reply'[j] = None <=> BeingSent(j) \/ Queued(j) \/ served
                      /\ ~(BeingSent(j) /\ Queued(j)) /\ ~(BeingSent(j) /\ served)
                      /\ ~(Queued(j) /\ served)
    <3>1. \A j \in Job : target[j] # None => (Queued(j)' <=> Queued(j))
      BY <1>1, <1>2 DEF Queued, TypeOK
    <3>. QED BY <3>1, <1>1 DEF UnansweredIsHeld
  <2>1. target[j] \in Job
    BY <1>1 DEF TypeOK
  <2>2. LET served == worker[target[j]].cur = j IN
          /\ reply[j] = None <=> BeingSent(j) \/ Queued(j) \/ served
          /\ ~(BeingSent(j) /\ Queued(j)) /\ ~(BeingSent(j) /\ served)
          /\ ~(Queued(j) /\ served)
    BY DEF QInv, UnansweredIsHeld
  <2>3. CASE j = c
    BY <2>2, <2>3, <1>2, <1>3, <1>4
  <2>4. CASE j # c
    <3>1. reply'[j] = reply[j]
      BY <2>4, <1>4
    <3>2. worker'[target[j]].cur = j <=> worker[target[j]].cur = j
      BY <2>1, <2>4, <1>2
    <3>. QED
      BY <2>2, <3>1, <3>2
  <2>. QED BY <2>3, <2>4
<1>. QED
  BY <1>1, <1>5, <1>6, <1>7, <1>8 DEF QInv

\* A sequence without its head.
LEMMA HeadTail ==
  ASSUME NEW S, NEW s \in Seq(S), s # <<>>
  PROVE  /\ Head(s) \in S /\ Tail(s) \in Seq(S) /\ Head(s) = s[1]
         /\ Len(Tail(s)) = Len(s) - 1 /\ Len(s) \in Nat \ {0}
         /\ \A i \in 1..Len(Tail(s)) : Tail(s)[i] = s[i + 1] /\ i + 1 \in 1..Len(s)
         /\ \A i \in 2..Len(s) : s[i] = Tail(s)[i - 1] /\ i - 1 \in 1..Len(Tail(s))
OBVIOUS

LEMMA TakingQInv ==
  ASSUME QInv, SInv', NEW w \in Job, NEW r, Taking(w, r)
  PROVE  QInv'
<1> USE JobAssumption
<1> DEFINE s == worker[w].jobs
<1>1. /\ worker' \in [Job -> WorkerState] /\ worker'[w] = r
      /\ \A u \in Job : u # w => worker'[u] = worker[u]
      /\ TypeOK
      /\ target' = target /\ sending' = sending /\ reply' = reply
      /\ \A j \in Job : BeingSent(j)' <=> BeingSent(j)
      /\ Reached'
  BY StepFacts DEF Taking
<1>2. s \in Seq(Job) /\ s # <<>> /\ Distinct(s) /\ worker[w].cur = None
      /\ r.jobs = Tail(s) /\ r.cur = Head(s)
  BY <1>1 DEF Taking, TypeOK, WorkerState, QInv, SingleCopies
<1>3. /\ Head(s) \in Job /\ Head(s) = s[1] /\ Len(s) \in Nat \ {0}
      /\ Len(Tail(s)) = Len(s) - 1
      /\ \A i \in 1..Len(Tail(s)) : Tail(s)[i] = s[i + 1] /\ i + 1 \in 1..Len(s)
      /\ \A i \in 2..Len(s) : s[i] = Tail(s)[i - 1] /\ i - 1 \in 1..Len(Tail(s))
  BY <1>2, HeadTail
<1> HIDE DEF s
<1>4. Distinct(Tail(s)) /\ \A i \in 1..Len(Tail(s)) : Tail(s)[i] # Head(s)
  BY <1>2, <1>3 DEF Distinct
<1>5. SingleCopies'
  BY <1>1, <1>2, <1>4 DEF QInv, SingleCopies
<1>6. Spoken'
  BY <1>1 DEF QInv, Spoken
<1>7. ASSUME NEW u \in Job PROVE Opening(worker[u], reply)'
  BY <1>1 DEF QInv, Opening, Taking
<1>8. UnansweredIsHeld'
  <2> SUFFICES ASSUME NEW j \in Job, target[j] # None
               PROVE  LET served == worker'[target[j]].cur = j
                          queued == \E i \in 1..Len(worker'[target[j]].jobs) :
                                      worker'[target[j]].jobs[i] = j
                      IN
                      /\ reply[j] = None <=> BeingSent(j) \/ queued \/ served
                      /\ ~(BeingSent(j) /\ queued) /\ ~(BeingSent(j) /\ served)
                      /\ ~(queued /\ served)
    BY <1>1 DEF UnansweredIsHeld, Queued
  <2>1. target[j] \in Job
    BY <1>1 DEF TypeOK
  <2>2. LET served == worker[target[j]].cur = j IN
          /\ reply[j] = None <=> BeingSent(j) \/ Queued(j) \/ served
          /\ ~(BeingSent(j) /\ Queued(j)) /\ ~(BeingSent(j) /\ served)
          /\ ~(Queued(j) /\ served)
    BY DEF QInv, UnansweredIsHeld
  <2>3. CASE target[j] # w
    BY <2>1, <2>2, <2>3, <1>1 DEF Queued
  <2>4. CASE target[j] = w
    <3>1. Queued(j) <=> j = Head(s) \/ \E i \in 1..Len(Tail(s)) : Tail(s)[i] = j
      <4>1. Queued(j) <=> \E i \in 1..Len(s) : s[i] = j
        BY <2>4 DEF Queued, s
      <4>2. \A i \in 1..Len(s) : i = 1 \/ i \in 2..Len(s)
        BY <1>3
      <4>. QED
        BY <4>1, <4>2, <1>3
    <3>. QED
      BY <2>2, <2>4, <3>1, <1>1, <1>2, <1>4
  <2>. QED BY <2>3, <2>4
<1>. QED
  BY <1>1, <1>5, <1>6, <1>7, <1>8 DEF QInv

-----------------------------------------------------------------------------
(* Every step of a worker is of one of these kinds.                          *)

LEMMA TakeIdleQuiet == ASSUME QInv, NEW w \in Job, TakeIdle(w) PROVE \E r : Quiet(w, r)
<1> USE JobAssumption
<1>1. /\ worker[w] \in WorkerState /\ Sane(worker[w]) /\ worker[w].pc = "select"
      /\ Paired(worker[w]) /\ OwnedBy(w, worker[w]) /\ Opening(worker[w], reply)
      /\ reply \in [Job -> Maybe(Job) \cup {Failed}]
  BY DEF QInv, SInv, IInv, TypeOK, TakeIdle
<1>2. PICK r : r = [worker[w] EXCEPT !.pc = "close"]
  OBVIOUS
<1>3. /\ r \in WorkerState
      /\ r.pc = "close" /\ r.jobs = worker[w].jobs /\ r.cur = worker[w].cur
      /\ r.prov = worker[w].prov /\ r.opening = worker[w].opening /\ r.booted = worker[w].booted
  BY <1>1, <1>2 DEF WorkerState, Pc, Closing, Sane, InHand
<1>4. Become(w, r) /\ UNCHANGED <<sending, target>>
  BY <1>2 DEF TakeIdle
<1>5. WorkerStep(w, r)
  BY <1>3, <1>4 DEF WorkerStep
<1>6. Opening(r, reply)
  BY <1>1, <1>3 DEF Opening
<1>. QED
  BY <1>3, <1>5, <1>6 DEF Quiet, TakeIdle

LEMMA CloseProviderQuiet == ASSUME QInv, NEW w \in Job, CloseProvider(w) PROVE \E r : Quiet(w, r)
<1> USE JobAssumption
<1>1. /\ worker[w] \in WorkerState /\ Sane(worker[w]) /\ worker[w].pc = "close"
      /\ Paired(worker[w]) /\ OwnedBy(w, worker[w]) /\ Opening(worker[w], reply)
      /\ reply \in [Job -> Maybe(Job) \cup {Failed}]
  BY DEF QInv, SInv, IInv, TypeOK, CloseProvider
<1>2. PICK r : r = [worker[w] EXCEPT !.pc = "cleanup", !.prov = FALSE]
  OBVIOUS
<1>3. /\ r \in WorkerState
      /\ r.pc = "cleanup" /\ r.jobs = worker[w].jobs /\ r.cur = worker[w].cur
      /\ r.prov = FALSE /\ r.opening = worker[w].opening /\ r.booted = worker[w].booted
  BY <1>1, <1>2 DEF WorkerState, Pc, Closing, Sane, InHand
<1>4. Become(w, r) /\ UNCHANGED <<sending, target>>
  BY <1>2 DEF CloseProvider
<1>5. WorkerStep(w, r)
  BY <1>3, <1>4 DEF WorkerStep
<1>6. Opening(r, reply)
  BY <1>1, <1>3 DEF Opening
<1>. QED
  BY <1>3, <1>5, <1>6 DEF Quiet, CloseProvider

LEMMA CleanupQuiet == ASSUME QInv, NEW w \in Job, Cleanup(w) PROVE \E r : Quiet(w, r)
<1> USE JobAssumption
<1>1. /\ worker[w] \in WorkerState /\ Sane(worker[w]) /\ worker[w].pc = "cleanup"
      /\ Paired(worker[w]) /\ OwnedBy(w, worker[w]) /\ Opening(worker[w], reply)
      /\ reply \in [Job -> Maybe(Job) \cup {Failed}]
  BY DEF QInv, SInv, IInv, TypeOK, Cleanup
<1>2. PICK r : r = [worker[w] EXCEPT !.pc = "unregister", !.ws = None]
  OBVIOUS
<1>3. /\ r \in WorkerState
      /\ r.pc = "unregister" /\ r.jobs = worker[w].jobs /\ r.cur = worker[w].cur
      /\ r.prov = worker[w].prov /\ r.opening = worker[w].opening /\ r.booted = worker[w].booted
  BY <1>1, <1>2 DEF WorkerState, Pc, Closing, Sane, InHand
<1>4. Become(w, r) /\ UNCHANGED <<sending, target>>
  BY <1>2 DEF Cleanup
<1>5. WorkerStep(w, r)
  BY <1>3, <1>4 DEF WorkerStep
<1>6. Opening(r, reply)
  BY <1>1, <1>3 DEF Opening
<1>. QED
  BY <1>3, <1>5, <1>6 DEF Quiet, Cleanup

LEMMA UnregisterQuiet == ASSUME QInv, NEW w \in Job, Unregister(w) PROVE \E r : Quiet(w, r)
<1> USE JobAssumption
<1>1. /\ worker[w] \in WorkerState /\ Sane(worker[w]) /\ worker[w].pc = "unregister"
      /\ Paired(worker[w]) /\ OwnedBy(w, worker[w]) /\ Opening(worker[w], reply)
      /\ reply \in [Job -> Maybe(Job) \cup {Failed}]
  BY DEF QInv, SInv, IInv, TypeOK, Unregister
<1>2. PICK r : r = [worker[w] EXCEPT !.pc = "remove", !.bearer = None]
  OBVIOUS
<1>3. /\ r \in WorkerState
      /\ r.pc = "remove" /\ r.jobs = worker[w].jobs /\ r.cur = worker[w].cur
      /\ r.prov = worker[w].prov /\ r.opening = worker[w].opening /\ r.booted = worker[w].booted
  BY <1>1, <1>2 DEF WorkerState, Pc, Closing, Sane, InHand
<1>4. Become(w, r) /\ UNCHANGED <<sending, target>>
  BY <1>2 DEF Unregister
<1>5. WorkerStep(w, r)
  BY <1>3, <1>4 DEF WorkerStep
<1>6. Opening(r, reply)
  BY <1>1, <1>3 DEF Opening
<1>. QED
  BY <1>3, <1>5, <1>6 DEF Quiet, Unregister

LEMMA RemoveQuiet == ASSUME QInv, NEW w \in Job, Remove(w) PROVE \E r : Quiet(w, r)
<1> USE JobAssumption
<1>1. /\ worker[w] \in WorkerState /\ Sane(worker[w]) /\ worker[w].pc = "remove"
      /\ Paired(worker[w]) /\ OwnedBy(w, worker[w]) /\ Opening(worker[w], reply)
      /\ reply \in [Job -> Maybe(Job) \cup {Failed}]
  BY DEF QInv, SInv, IInv, TypeOK, Remove
<1>2. PICK r : r = [worker[w] EXCEPT !.pc = "gone"]
  OBVIOUS
<1>3. /\ r \in WorkerState
      /\ r.pc = "gone" /\ r.jobs = worker[w].jobs /\ r.cur = worker[w].cur
      /\ r.prov = worker[w].prov /\ r.opening = worker[w].opening /\ r.booted = worker[w].booted
  BY <1>1, <1>2 DEF WorkerState, Pc, Closing, Sane, InHand
<1>4. Become(w, r) /\ UNCHANGED <<sending, target>>
  BY <1>2 DEF Remove
<1>5. WorkerStep(w, r)
  BY <1>3, <1>4 DEF WorkerStep
<1>6. Opening(r, reply)
  BY <1>1, <1>3 DEF Opening
<1>. QED
  BY <1>3, <1>5, <1>6 DEF Quiet, Remove

LEMMA CreateOKQuiet == ASSUME QInv, NEW w \in Job, CreateOK(w) PROVE \E r : Quiet(w, r)
<1> USE JobAssumption
<1>1. /\ worker[w] \in WorkerState /\ Sane(worker[w]) /\ worker[w].pc = "create"
      /\ Paired(worker[w]) /\ OwnedBy(w, worker[w]) /\ Opening(worker[w], reply)
      /\ reply \in [Job -> Maybe(Job) \cup {Failed}]
  BY DEF QInv, SInv, IInv, TypeOK, CreateOK
<1>2. PICK r : r = [worker[w] EXCEPT !.pc = "hook", !.ws = worker[w].cur]
  OBVIOUS
<1>3. /\ r \in WorkerState
      /\ r.pc = "hook" /\ r.jobs = worker[w].jobs /\ r.cur = worker[w].cur
      /\ r.prov = worker[w].prov /\ r.opening = worker[w].opening /\ r.booted = worker[w].booted
  BY <1>1, <1>2 DEF WorkerState, Pc, Closing, Sane, InHand
<1>4. Become(w, r) /\ UNCHANGED <<sending, target>>
  BY <1>2 DEF CreateOK
<1>5. WorkerStep(w, r)
  BY <1>3, <1>4 DEF WorkerStep
<1>6. Opening(r, reply)
  BY <1>1, <1>3 DEF Opening
<1>. QED
  BY <1>3, <1>5, <1>6 DEF Quiet, CreateOK

LEMMA HookOKQuiet == ASSUME QInv, NEW w \in Job, HookOK(w) PROVE \E r : Quiet(w, r)
<1> USE JobAssumption
<1>1. /\ worker[w] \in WorkerState /\ Sane(worker[w]) /\ worker[w].pc = "hook"
      /\ Paired(worker[w]) /\ OwnedBy(w, worker[w]) /\ Opening(worker[w], reply)
      /\ reply \in [Job -> Maybe(Job) \cup {Failed}]
  BY DEF QInv, SInv, IInv, TypeOK, HookOK
<1>2. PICK r : r = [worker[w] EXCEPT !.pc = "start",
                               !.bearer = IF ContextAPI THEN worker[w].cur ELSE None]
  OBVIOUS
<1>3. /\ r \in WorkerState
      /\ r.pc = "start" /\ r.jobs = worker[w].jobs /\ r.cur = worker[w].cur
      /\ r.prov = worker[w].prov /\ r.opening = worker[w].opening /\ r.booted = worker[w].booted
  BY <1>1, <1>2 DEF WorkerState, Pc, Closing, Sane, InHand
<1>4. Become(w, r) /\ UNCHANGED <<sending, target>>
  BY <1>2 DEF HookOK
<1>5. WorkerStep(w, r)
  BY <1>3, <1>4 DEF WorkerStep
<1>6. Opening(r, reply)
  BY <1>1, <1>3 DEF Opening
<1>. QED
  BY <1>3, <1>5, <1>6 DEF Quiet, HookOK

LEMMA StartOKQuiet == ASSUME QInv, NEW w \in Job, StartOK(w) PROVE \E r : Quiet(w, r)
<1> USE JobAssumption
<1>1. /\ worker[w] \in WorkerState /\ Sane(worker[w]) /\ worker[w].pc = "start"
      /\ Paired(worker[w]) /\ OwnedBy(w, worker[w]) /\ Opening(worker[w], reply)
      /\ reply \in [Job -> Maybe(Job) \cup {Failed}]
  BY DEF QInv, SInv, IInv, TypeOK, StartOK
<1>2. PICK r : r = [worker[w] EXCEPT !.pc = "context", !.prov = TRUE,
                               !.opening = worker[w].cur, !.booted = FALSE]
  OBVIOUS
<1>3. /\ r \in WorkerState
      /\ r.pc = "context" /\ r.jobs = worker[w].jobs /\ r.cur = worker[w].cur
      /\ r.opening = worker[w].cur /\ r.booted = FALSE
  BY <1>1, <1>2 DEF WorkerState, Pc, Closing, Sane, InHand
<1>4. Become(w, r) /\ UNCHANGED <<sending, target>>
  BY <1>2 DEF StartOK
<1>5. WorkerStep(w, r)
  BY <1>3, <1>4 DEF WorkerStep
<1>6. /\ worker[w].cur \in Job /\ target[worker[w].cur] = w
      /\ reply[worker[w].cur] = None
  BY <1>1 DEF Sane, InHand, OwnedBy, WorkerState, QInv, UnansweredIsHeld
<1>7. \A j \in Job : reply[j] # worker[w].cur
  BY <1>6 DEF QInv, Spoken
<1>8. Opening(r, reply)
  BY <1>3, <1>6, <1>7 DEF Opening
<1>. QED
  BY <1>3, <1>5, <1>8 DEF Quiet, StartOK

LEMMA ContextOKQuiet == ASSUME QInv, NEW w \in Job, ContextOK(w) PROVE \E r : Quiet(w, r)
<1> USE JobAssumption
<1>1. /\ worker[w] \in WorkerState /\ Sane(worker[w]) /\ worker[w].pc = "context"
      /\ Paired(worker[w]) /\ OwnedBy(w, worker[w]) /\ Opening(worker[w], reply)
      /\ reply \in [Job -> Maybe(Job) \cup {Failed}]
  BY DEF QInv, SInv, IInv, TypeOK, ContextOK
<1>2. PICK r : r = [worker[w] EXCEPT !.pc = "prompt"]
  OBVIOUS
<1>3. /\ r \in WorkerState
      /\ r.pc = "prompt" /\ r.jobs = worker[w].jobs /\ r.cur = worker[w].cur
      /\ r.prov = worker[w].prov /\ r.opening = worker[w].opening /\ r.booted = worker[w].booted
  BY <1>1, <1>2 DEF WorkerState, Pc, Closing, Sane, InHand
<1>4. Become(w, r) /\ UNCHANGED <<sending, target>>
  BY <1>2 DEF ContextOK
<1>5. WorkerStep(w, r)
  BY <1>3, <1>4 DEF WorkerStep
<1>6. Opening(r, reply)
  BY <1>1, <1>3 DEF Opening
<1>. QED
  BY <1>3, <1>5, <1>6 DEF Quiet, ContextOK

LEMMA CreateFailAnswering == ASSUME QInv, NEW w \in Job, CreateFail(w) PROVE \E r, v : Answering(w, r, v)
<1> USE JobAssumption
<1>1. /\ worker[w] \in WorkerState /\ Sane(worker[w]) /\ worker[w].pc = "create"
      /\ Paired(worker[w]) /\ OwnedBy(w, worker[w]) /\ Opening(worker[w], reply)
      /\ reply \in [Job -> Maybe(Job) \cup {Failed}]
  BY DEF QInv, SInv, IInv, TypeOK, CreateFail
<1>2. PICK r : r = WithoutSession(w)
  OBVIOUS
<1>3. /\ r \in WorkerState
      /\ r.pc = "select" /\ r.jobs = worker[w].jobs /\ r.cur = None
      /\ r.prov = worker[w].prov /\ r.opening = worker[w].opening /\ r.booted = worker[w].booted
  BY <1>1, <1>2 DEF WorkerState, Pc, Closing, Sane, InHand, WithoutSession
<1>4. Become(w, r) /\ UNCHANGED <<sending, target>>
  BY <1>2 DEF CreateFail
<1>5. WorkerStep(w, r)
  BY <1>3, <1>4 DEF WorkerStep
<1>6. worker[w].cur \in Job /\ reply' = [reply EXCEPT ![worker[w].cur] = Failed]
  BY <1>1 DEF CreateFail, Done, Sane, InHand, WorkerState
<1>7. Opening(r, reply')
  BY <1>1, <1>3, <1>6 DEF Opening, Sane, OwnedBy, WorkerState
<1>. QED
  BY <1>3, <1>5, <1>6, <1>7 DEF Answering, Sayable

LEMMA HookFailAnswering == ASSUME QInv, NEW w \in Job, HookFail(w) PROVE \E r, v : Answering(w, r, v)
<1> USE JobAssumption
<1>1. /\ worker[w] \in WorkerState /\ Sane(worker[w]) /\ worker[w].pc = "hook"
      /\ Paired(worker[w]) /\ OwnedBy(w, worker[w]) /\ Opening(worker[w], reply)
      /\ reply \in [Job -> Maybe(Job) \cup {Failed}]
  BY DEF QInv, SInv, IInv, TypeOK, HookFail
<1>2. PICK r : r = WithoutSession(w)
  OBVIOUS
<1>3. /\ r \in WorkerState
      /\ r.pc = "select" /\ r.jobs = worker[w].jobs /\ r.cur = None
      /\ r.prov = worker[w].prov /\ r.opening = worker[w].opening /\ r.booted = worker[w].booted
  BY <1>1, <1>2 DEF WorkerState, Pc, Closing, Sane, InHand, WithoutSession
<1>4. Become(w, r) /\ UNCHANGED <<sending, target>>
  BY <1>2 DEF HookFail
<1>5. WorkerStep(w, r)
  BY <1>3, <1>4 DEF WorkerStep
<1>6. worker[w].cur \in Job /\ reply' = [reply EXCEPT ![worker[w].cur] = Failed]
  BY <1>1 DEF HookFail, Done, Sane, InHand, WorkerState
<1>7. Opening(r, reply')
  BY <1>1, <1>3, <1>6 DEF Opening, Sane, OwnedBy, WorkerState
<1>. QED
  BY <1>3, <1>5, <1>6, <1>7 DEF Answering, Sayable

LEMMA StartFailAnswering == ASSUME QInv, NEW w \in Job, StartFail(w) PROVE \E r, v : Answering(w, r, v)
<1> USE JobAssumption
<1>1. /\ worker[w] \in WorkerState /\ Sane(worker[w]) /\ worker[w].pc = "start"
      /\ Paired(worker[w]) /\ OwnedBy(w, worker[w]) /\ Opening(worker[w], reply)
      /\ reply \in [Job -> Maybe(Job) \cup {Failed}]
  BY DEF QInv, SInv, IInv, TypeOK, StartFail
<1>2. PICK r : r = WithoutSession(w)
  OBVIOUS
<1>3. /\ r \in WorkerState
      /\ r.pc = "select" /\ r.jobs = worker[w].jobs /\ r.cur = None
      /\ r.prov = worker[w].prov /\ r.opening = worker[w].opening /\ r.booted = worker[w].booted
  BY <1>1, <1>2 DEF WorkerState, Pc, Closing, Sane, InHand, WithoutSession
<1>4. Become(w, r) /\ UNCHANGED <<sending, target>>
  BY <1>2 DEF StartFail
<1>5. WorkerStep(w, r)
  BY <1>3, <1>4 DEF WorkerStep
<1>6. worker[w].cur \in Job /\ reply' = [reply EXCEPT ![worker[w].cur] = Failed]
  BY <1>1 DEF StartFail, Done, Sane, InHand, WorkerState
<1>7. Opening(r, reply')
  BY <1>1, <1>3, <1>6 DEF Opening, Sane, OwnedBy, WorkerState
<1>. QED
  BY <1>3, <1>5, <1>6, <1>7 DEF Answering, Sayable

LEMMA ContextFailAnswering == ASSUME QInv, NEW w \in Job, ContextFail(w) PROVE \E r, v : Answering(w, r, v)
<1> USE JobAssumption
<1>1. /\ worker[w] \in WorkerState /\ Sane(worker[w]) /\ worker[w].pc = "context"
      /\ Paired(worker[w]) /\ OwnedBy(w, worker[w]) /\ Opening(worker[w], reply)
      /\ reply \in [Job -> Maybe(Job) \cup {Failed}]
  BY DEF QInv, SInv, IInv, TypeOK, ContextFail
<1>2. PICK r : r = WithSession(w, worker[w].booted)
  OBVIOUS
<1>3. /\ r \in WorkerState
      /\ r.pc = "select" /\ r.jobs = worker[w].jobs /\ r.cur = None
      /\ r.prov = worker[w].prov /\ r.opening = worker[w].opening /\ r.booted = worker[w].booted
  BY <1>1, <1>2 DEF WorkerState, Pc, Closing, Sane, InHand, WithSession
<1>4. Become(w, r) /\ UNCHANGED <<sending, target>>
  BY <1>2 DEF ContextFail
<1>5. WorkerStep(w, r)
  BY <1>3, <1>4 DEF WorkerStep
<1>6. worker[w].cur \in Job /\ reply' = [reply EXCEPT ![worker[w].cur] = Failed]
  BY <1>1 DEF ContextFail, Done, Sane, InHand, WorkerState
<1>7. Opening(r, reply')
  BY <1>1, <1>3, <1>6 DEF Opening, Sane, OwnedBy, WorkerState
<1>. QED
  BY <1>3, <1>5, <1>6, <1>7 DEF Answering, Sayable

LEMMA PromptFailAnswering == ASSUME QInv, NEW w \in Job, PromptFail(w) PROVE \E r, v : Answering(w, r, v)
<1> USE JobAssumption
<1>1. /\ worker[w] \in WorkerState /\ Sane(worker[w]) /\ worker[w].pc = "prompt"
      /\ Paired(worker[w]) /\ OwnedBy(w, worker[w]) /\ Opening(worker[w], reply)
      /\ reply \in [Job -> Maybe(Job) \cup {Failed}]
  BY DEF QInv, SInv, IInv, TypeOK, PromptFail
<1>2. PICK r : r = WithSession(w, worker[w].booted)
  OBVIOUS
<1>3. /\ r \in WorkerState
      /\ r.pc = "select" /\ r.jobs = worker[w].jobs /\ r.cur = None
      /\ r.prov = worker[w].prov /\ r.opening = worker[w].opening /\ r.booted = worker[w].booted
  BY <1>1, <1>2 DEF WorkerState, Pc, Closing, Sane, InHand, WithSession
<1>4. Become(w, r) /\ UNCHANGED <<sending, target>>
  BY <1>2 DEF PromptFail
<1>5. WorkerStep(w, r)
  BY <1>3, <1>4 DEF WorkerStep
<1>6. worker[w].cur \in Job /\ reply' = [reply EXCEPT ![worker[w].cur] = Failed]
  BY <1>1 DEF PromptFail, Done, Sane, InHand, WorkerState
<1>7. Opening(r, reply')
  BY <1>1, <1>3, <1>6 DEF Opening, Sane, OwnedBy, WorkerState
<1>. QED
  BY <1>3, <1>5, <1>6, <1>7 DEF Answering, Sayable

LEMMA PromptOKAnswering == ASSUME QInv, NEW w \in Job, PromptOK(w) PROVE \E r, v : Answering(w, r, v)
<1> USE JobAssumption
<1>1. /\ worker[w] \in WorkerState /\ Sane(worker[w]) /\ worker[w].pc = "prompt"
      /\ Paired(worker[w]) /\ OwnedBy(w, worker[w]) /\ Opening(worker[w], reply)
      /\ reply \in [Job -> Maybe(Job) \cup {Failed}]
  BY DEF QInv, SInv, IInv, TypeOK, PromptOK
<1>2. PICK r : r = WithSession(w, TRUE)
  OBVIOUS
<1>3. /\ r \in WorkerState
      /\ r.pc = "select" /\ r.jobs = worker[w].jobs /\ r.cur = None
      /\ r.prov = worker[w].prov /\ r.opening = worker[w].opening /\ r.booted = TRUE
  BY <1>1, <1>2 DEF WorkerState, Pc, Closing, Sane, InHand, WithSession
<1>4. Become(w, r) /\ UNCHANGED <<sending, target>>
  BY <1>2 DEF PromptOK
<1>5. WorkerStep(w, r)
  BY <1>3, <1>4 DEF WorkerStep
<1>6. PICK v : v = Prompted(w)
  OBVIOUS
<1>7. worker[w].cur \in Job /\ reply' = [reply EXCEPT ![worker[w].cur] = v]
  BY <1>1, <1>6 DEF PromptOK, Done, Sane, InHand, WorkerState
<1>8. Sayable(w, v)
  <2>1. target[worker[w].cur] = w /\ reply[worker[w].cur] = None
    BY <1>1, <1>7 DEF OwnedBy, QInv, UnansweredIsHeld
  <2>2. \A j \in Job : reply[j] # worker[w].cur
    BY <2>1, <1>7 DEF QInv, Spoken
  <2>. QED
    BY <2>1, <2>2, <1>1, <1>6, <1>7 DEF Sayable, Prompted, Opening, Paired, OwnedBy, WorkerState
<1>9. Opening(r, reply')
  BY <1>1, <1>3 DEF Opening
<1>. QED
  BY <1>3, <1>5, <1>7, <1>8, <1>9 DEF Answering

LEMMA TakeJobTaking == ASSUME QInv, NEW w \in Job, TakeJob(w) PROVE \E r : Taking(w, r)
<1> USE JobAssumption
<1> DEFINE h == Head(worker[w].jobs)
           t == Tail(worker[w].jobs)
<1>1. /\ worker[w] \in WorkerState /\ Sane(worker[w]) /\ worker[w].pc = "select"
      /\ Opening(worker[w], reply)
  BY DEF QInv, SInv, IInv, TypeOK, TakeJob
<1>2. worker[w].jobs \in Seq(Job) /\ worker[w].jobs # <<>> /\ worker[w].cur = None
  BY <1>1 DEF WorkerState, TakeJob, Sane, InHand
<1>3. h \in Job /\ t \in Seq(Job)
  BY <1>2
<1>4. PICK r : r = [worker[w] EXCEPT
                      !.pc = IF worker[w].prov THEN "context" ELSE "create",
                      !.cur = h, !.jobs = t, !.armed = FALSE]
  OBVIOUS
<1>5. Become(w, r) /\ UNCHANGED <<sending, target, reply>>
  BY <1>4 DEF TakeJob
<1> HIDE DEF h, t
<1>6. /\ r \in WorkerState /\ r.pc \in {"context", "create"}
      /\ r.jobs = t /\ r.cur = h
      /\ r.prov = worker[w].prov /\ r.opening = worker[w].opening /\ r.booted = worker[w].booted
  BY <1>1, <1>3, <1>4 DEF WorkerState, Pc
<1>7. Opening(r, reply)
  BY <1>1, <1>2, <1>6 DEF Opening
<1>. QED
  BY <1>2, <1>5, <1>6, <1>7 DEF Taking, WorkerStep, h, t

-----------------------------------------------------------------------------
(* The steps of Enqueue.                                                     *)

LEMMA EnqueueQInv ==
  ASSUME QInv, SInv', NEW c \in Caller, NEW j \in Job, Enqueue(c, j)
  PROVE  QInv'
<1> USE KeyAssumption, JobAssumption
<1>1. TypeOK /\ Binding /\ Fresh /\ Addressed
  BY DEF QInv, SInv, IInv
<1>2. PICK w \in Job : w = WorkerFor(JobKey[j], j)
  BY <1>1 DEF WorkerFor, TypeOK
<1>3. PICK r : r = IF worker[w].pc = "unborn"
                   THEN [worker[w] EXCEPT !.pc = "select"] ELSE worker[w]
  OBVIOUS
<1>4. worker[w] \in WorkerState
  BY <1>1 DEF TypeOK
<1>5. /\ r \in WorkerState /\ r.pc # "unborn"
      /\ r.jobs = worker[w].jobs /\ r.cur = worker[w].cur /\ r.prov = worker[w].prov
      /\ r.opening = worker[w].opening /\ r.booted = worker[w].booted
  BY <1>3, <1>4 DEF WorkerState, Pc
<1>6. /\ Become(w, r)
      /\ target[j] = None /\ target' = [target EXCEPT ![j] = w]
      /\ sending[c] = None /\ sending' = [sending EXCEPT ![c] = j]
      /\ UNCHANGED reply
  BY <1>2, <1>3 DEF Enqueue
<1>7. /\ worker' \in [Job -> WorkerState] /\ worker'[w] = r
      /\ \A v \in Job : v # w => worker'[v] = worker[v]
  BY <1>1, <1>5, <1>6, BecomeLemma
<1>8. \A v \in Job : worker'[v].jobs = worker[v].jobs /\ worker'[v].cur = worker[v].cur
  BY <1>5, <1>7
<1>9. /\ target'[j] = w
      /\ \A i \in Job : i # j => target'[i] = target[i]
      /\ sending'[c] = j
      /\ \A d \in Caller : d # c => sending'[d] = sending[d]
  BY <1>1, <1>6 DEF TypeOK
<1>10. \A d \in Caller : sending[d] # j
  BY <1>1, <1>6 DEF Addressed
<1>11. SingleCopies'
  BY <1>6, <1>8, <1>9, <1>10 DEF QInv, SingleCopies
<1>12. Reached'
  <2>1. JobKey[w] = JobKey[j]
    BY <1>1, <1>2 DEF WorkerFor, Binding
  <2>2. \A v \in Job : worker[v].pc # "unborn" => worker'[v].pc # "unborn"
    BY <1>5, <1>7
  <2>. QED
    BY <2>1, <2>2, <1>1, <1>5, <1>7, <1>9 DEF QInv, Reached, TypeOK
<1>13. Spoken'
  BY <1>6, <1>9 DEF QInv, Spoken
<1>14. ASSUME NEW v \in Job PROVE Opening(worker[v], reply)'
  BY <1>5, <1>6, <1>7 DEF QInv, Opening
<1>15. UnansweredIsHeld'
  <2> SUFFICES ASSUME NEW i \in Job, target'[i] # None
               PROVE  LET served == worker'[target'[i]].cur = i
                          queued == \E a \in 1..Len(worker'[target'[i]].jobs) :
                                      worker'[target'[i]].jobs[a] = i
                      IN
                      /\ reply[i] = None <=> BeingSent(i)' \/ queued \/ served
                      /\ ~(BeingSent(i)' /\ queued) /\ ~(BeingSent(i)' /\ served)
                      /\ ~(queued /\ served)
    BY <1>6 DEF UnansweredIsHeld, Queued
  <2>1. CASE i = j
    <3>1. BeingSent(j)' /\ reply[j] = None
      BY <1>6, <1>9 DEF BeingSent, QInv, Spoken
    <3>2. worker[w].cur # j /\ \A a \in 1..Len(worker[w].jobs) : worker[w].jobs[a] # j
      BY <1>6 DEF QInv, SInv, OwnedBy
    <3>. QED
      BY <2>1, <3>1, <3>2, <1>8, <1>9
  <2>2. CASE i # j
    <3>1. target'[i] = target[i] /\ target[i] \in Job
      BY <2>2, <1>1, <1>9 DEF TypeOK
    <3>2. BeingSent(i)' <=> BeingSent(i)
      BY <2>2, <1>6, <1>9 DEF BeingSent
    <3>. QED
      BY <3>1, <3>2, <1>8 DEF QInv, UnansweredIsHeld, Queued
  <2>. QED BY <2>1, <2>2
<1>. QED
  BY <1>11, <1>12, <1>13, <1>14, <1>15 DEF QInv

\* A sequence with one more element at its end.
LEMMA Appended ==
  ASSUME NEW S, NEW s \in Seq(S), NEW e \in S
  PROVE  /\ Append(s, e) \in Seq(S) /\ Len(Append(s, e)) = Len(s) + 1 /\ Len(s) \in Nat
         /\ Append(s, e)[Len(s) + 1] = e
         /\ \A i \in 1..Len(s) : Append(s, e)[i] = s[i]
OBVIOUS

LEMMA SendQInv ==
  ASSUME QInv, SInv', NEW c \in Caller, Send(c)
  PROVE  QInv'
<1> USE JobAssumption
<1>1. TypeOK /\ Addressed
  BY DEF QInv, SInv, IInv
<1>2. PICK j \in Job, w \in Job : j = sending[c] /\ w = target[j]
  BY <1>1 DEF Send, TypeOK, Addressed
<1> DEFINE s == worker[w].jobs
           q == Append(s, j)
<1>3. worker[w] \in WorkerState /\ s \in Seq(Job) /\ Distinct(s)
  BY <1>1 DEF TypeOK, WorkerState, QInv, SingleCopies
<1>4. /\ q \in Seq(Job) /\ Len(q) = Len(s) + 1 /\ Len(s) \in Nat /\ q[Len(s) + 1] = j
      /\ \A i \in 1..Len(s) : q[i] = s[i]
  BY <1>3, Appended
<1>5. PICK r : r = [worker[w] EXCEPT !.jobs = q]
  OBVIOUS
<1>6. /\ Become(w, r)
      /\ sending' = [sending EXCEPT ![c] = None]
      /\ UNCHANGED <<target, reply>>
  BY <1>2, <1>5 DEF Send
<1> HIDE DEF q, s
<1>7. /\ r \in WorkerState /\ r.jobs = q /\ r.pc = worker[w].pc
      /\ r.cur = worker[w].cur /\ r.prov = worker[w].prov
      /\ r.opening = worker[w].opening /\ r.booted = worker[w].booted
  BY <1>3, <1>4, <1>5 DEF WorkerState
<1>8. /\ worker' \in [Job -> WorkerState] /\ worker'[w] = r
      /\ \A v \in Job : v # w => worker'[v] = worker[v]
  BY <1>1, <1>6, <1>7, BecomeLemma
<1>9. /\ sending'[c] = None /\ \A d \in Caller : d # c => sending'[d] = sending[d]
      /\ \A d \in Caller : d # c => sending[d] # j
  BY <1>1, <1>2, <1>6 DEF TypeOK, QInv, SingleCopies
<1>10. /\ BeingSent(j) /\ ~BeingSent(j)'
       /\ \A i \in Job : i # j => (BeingSent(i)' <=> BeingSent(i))
  BY <1>2, <1>9 DEF BeingSent
<1>11. \A i \in 1..Len(s) : s[i] # j
  BY <1>2, <1>10 DEF QInv, UnansweredIsHeld, Queued, s
<1>12. SingleCopies'
  <2>1. Distinct(q)
    BY <1>3, <1>4, <1>11 DEF Distinct
  <2>2. \A v \in Job : Distinct(worker'[v].jobs)
    BY <2>1, <1>7, <1>8 DEF QInv, SingleCopies
  <2>3. \A d, e \in Caller : sending'[d] # None /\ sending'[d] = sending'[e] => d = e
    BY <1>9 DEF QInv, SingleCopies
  <2>. QED BY <2>2, <2>3 DEF SingleCopies
<1>13. Reached' /\ Spoken'
  BY <1>1, <1>6, <1>7, <1>8 DEF QInv, Reached, Spoken, TypeOK
<1>14. ASSUME NEW v \in Job PROVE Opening(worker[v], reply)'
  BY <1>6, <1>7, <1>8 DEF QInv, Opening
<1>15. UnansweredIsHeld'
  <2> SUFFICES ASSUME NEW i \in Job, target[i] # None
               PROVE  LET served == worker'[target[i]].cur = i
                          queued == \E a \in 1..Len(worker'[target[i]].jobs) :
                                      worker'[target[i]].jobs[a] = i
                      IN
                      /\ reply[i] = None <=> BeingSent(i)' \/ queued \/ served
                      /\ ~(BeingSent(i)' /\ queued) /\ ~(BeingSent(i)' /\ served)
                      /\ ~(queued /\ served)
    BY <1>6 DEF UnansweredIsHeld, Queued
  <2>1. target[i] \in Job
    BY <1>1 DEF TypeOK
  <2>2. LET served == worker[target[i]].cur = i IN
          /\ reply[i] = None <=> BeingSent(i) \/ Queued(i) \/ served
          /\ ~(BeingSent(i) /\ Queued(i)) /\ ~(BeingSent(i) /\ served)
          /\ ~(Queued(i) /\ served)
    BY DEF QInv, UnansweredIsHeld
  <2>3. worker'[target[i]].cur = worker[target[i]].cur
    BY <2>1, <1>7, <1>8
  <2>4. CASE i = j
    <3>1. \E a \in 1..Len(q) : q[a] = j
      BY <1>4
    <3>. QED
      BY <2>2, <2>3, <2>4, <3>1, <1>2, <1>7, <1>8, <1>10
  <2>5. CASE i # j
    <3>1. (\E a \in 1..Len(worker'[target[i]].jobs) : worker'[target[i]].jobs[a] = i) <=> Queued(i)
      <4>1. CASE target[i] = w
        <5>1. (\E a \in 1..Len(q) : q[a] = i) <=> \E a \in 1..Len(s) : s[a] = i
          BY <2>5, <1>4
        <5>. QED
          BY <4>1, <5>1, <1>7, <1>8 DEF Queued, s
      <4>2. CASE target[i] # w
        BY <4>2, <2>1, <1>8 DEF Queued
      <4>. QED BY <4>1, <4>2
    <3>. QED
      BY <2>2, <2>3, <2>5, <3>1, <1>10
  <2>. QED BY <2>4, <2>5
<1>. QED
  BY <1>12, <1>13, <1>14, <1>15 DEF QInv

-----------------------------------------------------------------------------
LEMMA InitQInv == Init => QInv
<1> SUFFICES ASSUME Init PROVE QInv
  OBVIOUS
<1>1. SInv
  BY InitSInv
<1>2. SingleCopies /\ Reached /\ Spoken /\ UnansweredIsHeld
  BY JobAssumption DEF Init, Unborn, SingleCopies, Distinct, Reached, Spoken, UnansweredIsHeld
<1>3. \A w \in Job : Opening(worker[w], reply)
  BY DEF Init, Unborn, Opening
<1>. QED
  BY <1>1, <1>2, <1>3 DEF QInv

LEMMA StutterQInv == ASSUME QInv, SInv', UNCHANGED vars PROVE QInv'
<1>1. /\ worker' = worker /\ target' = target /\ sending' = sending /\ reply' = reply
  BY DEF vars
<1>. QED
  BY <1>1 DEF QInv, SingleCopies, Reached, Spoken, Opening, UnansweredIsHeld, BeingSent, Queued

LEMMA NextQInv == QInv /\ [Next]_vars => QInv'
<1> SUFFICES ASSUME QInv, [Next]_vars PROVE QInv'
  OBVIOUS
<1>1. SInv'
  BY NextSInv DEF QInv
<1>2. ASSUME NEW c \in Caller, NEW j \in Job, Enqueue(c, j) PROVE QInv'
  BY <1>1, <1>2, EnqueueQInv
<1>3. ASSUME NEW c \in Caller, Send(c) PROVE QInv'
  BY <1>1, <1>3, SendQInv
<1>4. ASSUME NEW w \in Job, Idling(w) PROVE QInv'
  BY <1>1, <1>4, QuietQInv, TakeIdleQuiet, CloseProviderQuiet, CleanupQuiet,
     UnregisterQuiet, RemoveQuiet DEF Idling
<1>5. ASSUME NEW w \in Job, Hooking(w) PROVE QInv'
  BY <1>1, <1>5, QuietQInv, AnsweringQInv, HookOKQuiet, HookFailAnswering DEF Hooking
<1>6. ASSUME NEW w \in Job, Serving(w) PROVE QInv'
  <2>1. CASE TakeJob(w)
    BY <2>1, <1>1, TakeJobTaking, TakingQInv
  <2>2. CASE CreateOK(w) \/ StartOK(w) \/ ContextOK(w)
    BY <2>2, <1>1, QuietQInv, CreateOKQuiet, StartOKQuiet, ContextOKQuiet
  <2>3. CASE CreateFail(w) \/ StartFail(w) \/ ContextFail(w) \/ PromptOK(w) \/ PromptFail(w)
    BY <2>3, <1>1, AnsweringQInv, CreateFailAnswering, StartFailAnswering,
       ContextFailAnswering, PromptOKAnswering, PromptFailAnswering
  <2>. QED BY <1>6, <2>1, <2>2, <2>3 DEF Serving
<1>7. CASE UNCHANGED vars
  BY <1>1, <1>7, StutterQInv
<1>. QED
  BY <1>2, <1>3, <1>4, <1>5, <1>6, <1>7 DEF Next

THEOREM QueueInvariance == Spec => []QInv
BY InitQInv, NextQInv, PTL DEF Spec

\* No message gets lost between Enqueue, the channel and the loop, and none is
\* in two places: one that has been handed over is unanswered exactly while
\* it is being sent, queued or served.
THEOREM MessagesConserved == Spec => []UnansweredIsHeld
<1>1. QInv => UnansweredIsHeld
  BY DEF QInv
<1>. QED
  BY <1>1, QueueInvariance, PTL

-----------------------------------------------------------------------------
(* Scheduler implements ThreadContract. What a worker contributes to the     *)
(* abstract queue of its thread:                                             *)

Q(r) ==
  IF r.pc \in Closing THEN <<>>
  ELSE IF r.cur = None THEN r.jobs ELSE <<r.cur>> \o r.jobs

\* Joining the job in hand and the channel, as far as TakeJob, Send and the
\* answers need it.
LEMMA Joined ==
  ASSUME NEW S, NEW h \in S, NEW s \in Seq(S)
  PROVE  /\ <<h>> \o s \in Seq(S) /\ <<h>> \o s # <<>>
         /\ Head(<<h>> \o s) = h /\ Tail(<<h>> \o s) = s
         /\ s # <<>> => <<Head(s)>> \o Tail(s) = s
         /\ \A i \in 1..Len(<<h>> \o s) :
              (<<h>> \o s)[i] = h \/ \E a \in 1..Len(s) : (<<h>> \o s)[i] = s[a]
OBVIOUS

LEMMA JoinedAppend ==
  ASSUME NEW S, NEW h \in S, NEW s \in Seq(S), NEW e \in S
  PROVE  Append(<<h>> \o s, e) = <<h>> \o Append(s, e)
OBVIOUS

LEMMA QueueForm ==
  AbstractQueue = [k \in Key |-> IF workers[k] = None THEN <<>> ELSE Q(worker[workers[k]])]
BY DEF AbstractQueue, Q

\* The queue of a thread is that of its worker.
LEMMA QueueOf ==
  ASSUME QInv
  PROVE  /\ AbstractQueue \in [Key -> Seq(Job)]
         /\ \A w \in Job : Live(w) =>
              JobKey[w] \in Key /\ AbstractQueue[JobKey[w]] = Q(worker[w])
<1> USE KeyAssumption, JobAssumption
<1>1. TypeOK /\ Binding
  BY DEF QInv, SInv, IInv
<1>2. \A v \in Job : Q(worker[v]) \in Seq(Job)
  <2> SUFFICES ASSUME NEW v \in Job PROVE Q(worker[v]) \in Seq(Job)
    OBVIOUS
  <2>1. worker[v].jobs \in Seq(Job) /\ worker[v].cur \in Job \cup {None}
    BY <1>1 DEF TypeOK, WorkerState
  <2>2. worker[v].cur # None => <<worker[v].cur>> \o worker[v].jobs \in Seq(Job)
    BY <2>1, Joined
  <2>3. <<>> \in Seq(Job)
    OBVIOUS
  <2>. QED
    BY <2>1, <2>2, <2>3 DEF Q
<1>3. \A k \in Key : workers[k] # None => workers[k] \in Job
  BY <1>1 DEF TypeOK
<1>4. <<>> \in Seq(Job)
  OBVIOUS
<1>. QED
  BY <1>1, <1>2, <1>3, <1>4, QueueForm DEF Binding

\* When the state of one worker changes, the queue of its thread does.
LEMMA QueueStep ==
  ASSUME QInv, NEW w \in Job, NEW r, Become(w, r), r \in WorkerState, UNCHANGED workers
  PROVE  /\ Live(w) => AbstractQueue' = [AbstractQueue EXCEPT ![JobKey[w]] = Q(r)]
         /\ Q(r) = Q(worker[w]) => UNCHANGED AbstractQueue
<1> USE KeyAssumption, JobAssumption
<1>1. TypeOK /\ Binding
  BY DEF QInv, SInv, IInv
<1>2. worker'[w] = r /\ \A v \in Job : v # w => worker'[v] = worker[v]
  BY <1>1, BecomeLemma
<1>3. \A k \in Key : workers[k] # None => workers[k] \in Job /\ JobKey[workers[k]] = k
  BY <1>1 DEF TypeOK, Binding
<1>4. AbstractQueue' =
        [k \in Key |-> IF workers[k] = None THEN <<>> ELSE Q(worker'[workers[k]])]
  BY DEF AbstractQueue, Q
<1>5. ASSUME Live(w) PROVE AbstractQueue' = [AbstractQueue EXCEPT ![JobKey[w]] = Q(r)]
  <2>1. workers[JobKey[w]] = w /\ JobKey[w] \in Key
    BY <1>1, <1>5 DEF Binding
  <2>. QED
    BY <2>1, <1>2, <1>3, <1>4, QueueForm
<1>6. ASSUME Q(r) = Q(worker[w]) PROVE UNCHANGED AbstractQueue
  <2>1. \A k \in Key : workers[k] # None => Q(worker'[workers[k]]) = Q(worker[workers[k]])
    BY <1>2, <1>3, <1>6
  <2>. QED
    BY <2>1, <1>4, QueueForm
<1>. QED
  BY <1>5, <1>6

\* A message that is being sent is new to the contract.
LEMMA SentIsNew ==
  ASSUME QInv, NEW j \in Job, BeingSent(j)
  PROVE  Contract!New(j)
<1> USE KeyAssumption, JobAssumption
<1>1. TypeOK /\ Binding /\ Addressed
  BY DEF QInv, SInv, IInv
<1>2. /\ target[j] \in Job /\ reply[j] = None
      /\ ~Queued(j) /\ worker[target[j]].cur # j
  BY <1>1 DEF QInv, UnansweredIsHeld, BeingSent, Addressed, TypeOK
<1>3. j \notin AbstractLost
  BY DEF AbstractLost
<1>4. ASSUME Contract!InQueue(j) PROVE FALSE
  <2> DEFINE k == JobKey[j]
             w == workers[k]
  <2>1. k \in Key
    OBVIOUS
  <2>2. PICK i \in 1..Len(AbstractQueue[k]) : AbstractQueue[k][i] = j
    BY <1>4 DEF Contract!InQueue
  <2>3. w # None /\ AbstractQueue[k] = Q(worker[w])
    BY <2>1, <2>2, QueueForm
  <2>4. w \in Job /\ worker[w] \in WorkerState /\ OwnedBy(w, worker[w])
    BY <2>1, <2>3, <1>1 DEF TypeOK, QInv, SInv
  <2>5. worker[w].jobs \in Seq(Job) /\ worker[w].cur \in Maybe(Job)
    BY <2>4 DEF WorkerState
  <2>6. worker[w].cur = j \/ \E a \in 1..Len(worker[w].jobs) : worker[w].jobs[a] = j
    BY <2>2, <2>3, <2>5, Joined DEF Q
  <2>7. target[j] = w
    BY <2>4, <2>6 DEF OwnedBy
  <2>. QED
    BY <2>6, <2>7, <1>2 DEF Queued
<1>. QED
  BY <1>2, <1>3, <1>4 DEF Contract!New

-----------------------------------------------------------------------------
(* What the contract sees of each step.                                      *)

Hidden == UNCHANGED <<AbstractQueue, AbstractLost, reply>>

\* Past its last select a worker stays there, and before it, too, unless it
\* takes the idle branch.
LEMMA QuietHidden ==
  ASSUME QInv, NEW w \in Job, NEW r, Quiet(w, r), UNCHANGED workers,
         worker'[w].pc \in Closing <=> worker[w].pc \in Closing
  PROVE  Hidden
<1> USE JobAssumption
<1>1. /\ worker'[w] = r
      /\ \A v \in Job : v # w => worker'[v] = worker[v]
      /\ TypeOK
      /\ target' = target /\ sending' = sending /\ reply' = reply
      /\ \A j \in Job : BeingSent(j)' <=> BeingSent(j)
  BY StepFacts DEF Quiet
<1>2. Q(r) = Q(worker[w])
  BY <1>1 DEF Q, Quiet
<1>3. UNCHANGED AbstractQueue
  BY <1>1, <1>2, QueueStep DEF Quiet, WorkerStep
<1>4. \A v \in Job : worker'[v].pc \in Closing <=> worker[v].pc \in Closing
  BY <1>1
<1>5. \A j \in Job : target[j] # None => target[j] \in Job
  BY <1>1 DEF TypeOK
<1>6. UNCHANGED AbstractLost
  BY <1>1, <1>4, <1>5 DEF AbstractLost
<1>. QED
  BY <1>1, <1>3, <1>6 DEF Hidden

LEMMA TakingHidden ==
  ASSUME QInv, NEW w \in Job, NEW r, Taking(w, r), UNCHANGED workers,
         worker[w].pc \notin Closing, worker'[w].pc \notin Closing
  PROVE  Hidden
<1> USE JobAssumption
<1>1. /\ worker'[w] = r
      /\ \A v \in Job : v # w => worker'[v] = worker[v]
      /\ TypeOK
      /\ target' = target /\ sending' = sending /\ reply' = reply
      /\ \A j \in Job : BeingSent(j)' <=> BeingSent(j)
  BY StepFacts DEF Taking
<1>2. worker[w].jobs \in Seq(Job) /\ worker[w].jobs # <<>>
  BY <1>1 DEF TypeOK, WorkerState, Taking
<1>3. Head(worker[w].jobs) \in Job
  BY <1>2, HeadTail
<1>4. <<Head(worker[w].jobs)>> \o Tail(worker[w].jobs) = worker[w].jobs
  BY <1>2, <1>3, Joined
<1>5. Q(r) = Q(worker[w])
  BY <1>1, <1>3, <1>4 DEF Q, Taking
<1>6. UNCHANGED AbstractQueue
  BY <1>1, <1>5, QueueStep DEF Taking, WorkerStep
<1>7. \A v \in Job : worker'[v].pc \in Closing <=> worker[v].pc \in Closing
  BY <1>1
<1>8. \A j \in Job : target[j] # None => target[j] \in Job
  BY <1>1 DEF TypeOK
<1>9. UNCHANGED AbstractLost
  BY <1>1, <1>7, <1>8 DEF AbstractLost
<1>. QED
  BY <1>1, <1>6, <1>9 DEF Hidden

\* An answer to the job in hand is an answer of the contract.
LEMMA AnsweringStep ==
  ASSUME QInv, NEW w \in Job, NEW r, NEW v, Answering(w, r, v), UNCHANGED workers
  PROVE  Contract!Answer(JobKey[w], v) /\ JobKey[w] \in Key /\ v \in Job \cup {Failed}
<1> USE KeyAssumption, JobAssumption
<1> DEFINE c == worker[w].cur
           s == worker[w].jobs
           k == JobKey[w]
<1>1. /\ worker'[w] = r
      /\ \A u \in Job : u # w => worker'[u] = worker[u]
      /\ TypeOK
      /\ target' = target /\ sending' = sending
      /\ \A j \in Job : BeingSent(j)' <=> BeingSent(j)
  BY StepFacts DEF Answering
<1>2. /\ c \in Job /\ s \in Seq(Job) /\ r.jobs = s /\ r.cur = None /\ r.pc = "select"
      /\ target[c] = w /\ worker[w].pc \in InHand
  BY <1>1 DEF QInv, SInv, IInv, Sane, OwnedBy, Answering, TypeOK, WorkerState
<1>3. Live(w) /\ worker[w].pc \notin Closing /\ r.pc \notin Closing
  BY <1>2 DEF Live, InHand, Closing
<1>4. AbstractQueue[k] = <<c>> \o s /\ k \in Key /\ AbstractQueue \in [Key -> Seq(Job)]
  BY <1>2, <1>3, QueueOf DEF Q
<1>5. Q(r) = s /\ AbstractQueue' = [AbstractQueue EXCEPT ![k] = Q(r)]
  <2>1. Q(r) = s
    BY <1>2, <1>3 DEF Q
  <2>2. Become(w, r) /\ r \in WorkerState
    BY DEF Answering, WorkerStep
  <2>. QED
    BY <1>3, <2>1, <2>2, QueueStep
<1> HIDE DEF c, s, k
<1>6. AbstractQueue[k] # <<>> /\ Head(AbstractQueue[k]) = c /\ Tail(AbstractQueue[k]) = s
  <2>1. c \in Job /\ s \in Seq(Job)
    BY <1>2
  <2>2. <<c>> \o s # <<>> /\ Head(<<c>> \o s) = c /\ Tail(<<c>> \o s) = s
    BY <2>1, Joined
  <2>. QED
    BY <2>2, <1>4
<1>7. AbstractQueue' = [AbstractQueue EXCEPT ![k] = s]
  BY <1>5
<1>8. reply' = [reply EXCEPT ![c] = v] /\ Sayable(w, v)
  BY DEF Answering, c
<1>9. UNCHANGED AbstractLost
  <2>1. \A u \in Job : worker'[u].pc \in Closing <=> worker[u].pc \in Closing
    BY <1>1, <1>3
  <2>2. \A j \in Job : target[j] # None => target[j] \in Job
    BY <1>1 DEF TypeOK
  <2>3. \A j \in Job : j # c => reply'[j] = reply[j]
    BY <1>1, <1>8 DEF TypeOK
  <2>4. worker'[target[c]].pc \notin Closing /\ worker[target[c]].pc \notin Closing
    BY <1>1, <1>2, <1>3
  <2>. QED
    BY <1>1, <2>1, <2>2, <2>3, <2>4 DEF AbstractLost
<1>10. v = Failed \/ (v \in Contract!Subjects(c) /\ \A j \in Job : reply[j] # v)
  <2>1. JobKey[c] = JobKey[w]
    BY <1>2 DEF QInv, Reached
  <2>2. v \in Job /\ target[v] = w => JobKey[v] = JobKey[w]
    BY DEF QInv, Reached
  <2>. QED
    BY <1>2, <1>8, <2>1, <2>2 DEF Sayable, Contract!Subjects, c
<1>11. v \in Job \cup {Failed}
  BY <1>8 DEF Sayable
<1>. QED
  BY <1>4, <1>6, <1>7, <1>8, <1>9, <1>10, <1>11 DEF Contract!Answer, k

\* The idle branch abandons what the channel still holds.
LEMMA TakeIdleStep ==
  ASSUME QInv, NEW w \in Job, TakeIdle(w)
  PROVE  Contract!Abandon(JobKey[w]) /\ JobKey[w] \in Key
<1> USE KeyAssumption, JobAssumption
<1> DEFINE s == worker[w].jobs
           k == JobKey[w]
<1>1. PICK r : Quiet(w, r)
  BY TakeIdleQuiet
<1>2. /\ worker'[w] = r
      /\ \A u \in Job : u # w => worker'[u] = worker[u]
      /\ TypeOK
      /\ target' = target /\ sending' = sending /\ reply' = reply
      /\ \A j \in Job : BeingSent(j)' <=> BeingSent(j)
  BY <1>1, StepFacts DEF Quiet
<1>3. worker[w].pc = "select" /\ worker'[w].pc = "close" /\ UNCHANGED workers
  BY <1>2 DEF TakeIdle, Become, TypeOK, WorkerState
<1>4. worker[w].cur = None /\ s \in Seq(Job)
  BY <1>2, <1>3 DEF QInv, SInv, IInv, Sane, InHand, TypeOK, WorkerState
<1>5. Live(w) /\ Q(worker[w]) = s /\ Q(r) = <<>>
  BY <1>2, <1>3, <1>4 DEF Live, Q, Closing
<1>6. AbstractQueue[k] = s /\ k \in Key
  BY <1>5, QueueOf
<1>7. AbstractQueue' = [AbstractQueue EXCEPT ![k] = Q(r)]
  BY <1>1, <1>3, <1>5, QueueStep DEF Quiet, WorkerStep
<1>8. \A i \in 1..Len(s) : s[i] \in Job /\ target[s[i]] = w
  BY <1>4 DEF QInv, SInv, OwnedBy
<1>9. ASSUME NEW j \in Job
      PROVE  j \in AbstractLost' <=> j \in AbstractLost \/ \E i \in 1..Len(s) : s[i] = j
  <2>1. CASE target[j] = w
    <3>1. /\ j \in AbstractLost' <=> ~BeingSent(j) /\ reply[j] = None
          /\ j \notin AbstractLost
      BY <2>1, <1>2, <1>3 DEF AbstractLost, Closing
    <3>2. ~BeingSent(j) /\ reply[j] = None <=> Queued(j)
      BY <2>1, <1>4 DEF QInv, UnansweredIsHeld
    <3>. QED
      BY <2>1, <3>1, <3>2 DEF Queued
  <2>2. CASE target[j] # w
    <3>1. j \in AbstractLost' <=> j \in AbstractLost
      BY <2>2, <1>2 DEF AbstractLost, TypeOK
    <3>. QED
      BY <2>2, <3>1, <1>8
  <2>. QED BY <2>1, <2>2
<1>10. AbstractLost' = AbstractLost \cup {s[i] : i \in 1..Len(s)}
  <2>1. AbstractLost \subseteq Job /\ AbstractLost' \subseteq Job
    BY DEF AbstractLost
  <2>2. \A i \in 1..Len(s) : s[i] \in Job
    BY <1>8
  <2> HIDE DEF s
  <2>. QED
    BY <2>1, <2>2, <1>9
<1>. QED
  BY <1>2, <1>5, <1>6, <1>7, <1>10 DEF Contract!Abandon

\* A message reaches the queue of its thread, or a worker that has already
\* taken the idle branch.
LEMMA SendStep ==
  ASSUME QInv, NEW c \in Caller, Send(c)
  PROVE  \E j \in Job : Contract!Submit(j) \/ Contract!SubmitTooLate(j)
<1> USE KeyAssumption, JobAssumption
<1>1. TypeOK /\ Addressed
  BY DEF QInv, SInv, IInv
<1>2. PICK j \in Job, w \in Job : j = sending[c] /\ w = target[j]
  BY <1>1 DEF Send, TypeOK, Addressed
<1>3. PICK s : s = worker[w].jobs
  OBVIOUS
<1>4. PICK q : q = Append(s, j)
  OBVIOUS
<1>5. PICK r : r = [worker[w] EXCEPT !.jobs = q]
  OBVIOUS
<1>6. worker[w] \in WorkerState /\ s \in Seq(Job) /\ q \in Seq(Job)
  BY <1>1, <1>3, <1>4 DEF TypeOK, WorkerState
<1>7. /\ r \in WorkerState
      /\ r.jobs = q /\ r.pc = worker[w].pc /\ r.cur = worker[w].cur
  BY <1>5, <1>6 DEF WorkerState
<1>8. /\ Become(w, r)
      /\ sending' = [sending EXCEPT ![c] = None]
      /\ UNCHANGED <<workers, target, reply>>
  BY <1>2, <1>3, <1>4, <1>5 DEF Send
<1>9. /\ worker'[w] = r
      /\ \A v \in Job : v # w => worker'[v] = worker[v]
  BY <1>1, <1>7, <1>8, BecomeLemma
<1>10. /\ BeingSent(j) /\ ~BeingSent(j)'
       /\ \A i \in Job : i # j => (BeingSent(i)' <=> BeingSent(i))
  <2>1. /\ sending'[c] = None /\ \A d \in Caller : d # c => sending'[d] = sending[d]
        /\ \A d \in Caller : d # c => sending[d] # j
    BY <1>1, <1>2, <1>8 DEF TypeOK, QInv, SingleCopies
  <2>. QED
    BY <2>1, <1>2 DEF BeingSent
<1>11. Contract!New(j) /\ reply[j] = None
  BY <1>10, SentIsNew DEF Contract!New
<1>12. JobKey[w] = JobKey[j] /\ worker[w].pc # "unborn"
  BY <1>2 DEF QInv, Reached
<1>13. \A i \in Job : i # j => (i \in AbstractLost' <=> i \in AbstractLost)
  BY <1>1, <1>7, <1>8, <1>9, <1>10 DEF AbstractLost, TypeOK
<1>14. j \in AbstractLost' <=> worker[w].pc \in Closing
  BY <1>2, <1>7, <1>8, <1>9, <1>10, <1>11 DEF AbstractLost
<1>15. AbstractLost \subseteq Job /\ AbstractLost' \subseteq Job /\ j \notin AbstractLost
  BY <1>10 DEF AbstractLost
<1>16. CASE worker[w].pc \in Closing
  <2>1. Q(r) = Q(worker[w])
    BY <1>7, <1>16 DEF Q
  <2>2. UNCHANGED AbstractQueue
    BY <2>1, <1>7, <1>8, QueueStep
  <2>3. AbstractLost' = AbstractLost \cup {j}
    BY <1>13, <1>14, <1>15, <1>16
  <2>. QED
    BY <2>2, <2>3, <1>8, <1>11 DEF Contract!SubmitTooLate
<1>17. CASE worker[w].pc \notin Closing
  <2>1. Live(w)
    BY <1>12, <1>17 DEF Live, Closing
  <2>2. Q(r) = Append(Q(worker[w]), j)
    <3>1. worker[w].cur \in Job \cup {None}
      BY <1>6 DEF WorkerState
    <3>2. CASE worker[w].cur = None
      BY <3>2, <1>3, <1>4, <1>7, <1>17 DEF Q
    <3>3. CASE worker[w].cur # None
      <4>1. PICK h \in Job : h = worker[w].cur
        BY <3>1, <3>3
      <4>2. Append(<<h>> \o s, j) = <<h>> \o Append(s, j)
        BY <4>1, <1>6, JoinedAppend
      <4>. QED
        BY <4>1, <4>2, <3>3, <1>3, <1>4, <1>7, <1>17 DEF Q
    <3>. QED BY <3>2, <3>3
  <2>3. AbstractQueue' = [AbstractQueue EXCEPT ![JobKey[j]] = Append(@, j)]
    BY <2>1, <2>2, <1>7, <1>8, <1>12, QueueStep, QueueOf
  <2>4. AbstractLost' = AbstractLost
    BY <1>13, <1>14, <1>15, <1>17
  <2>. QED
    BY <2>3, <2>4, <1>8, <1>11 DEF Contract!Submit
<1>. QED
  BY <1>16, <1>17

LEMMA EnqueueHidden ==
  ASSUME QInv, NEW c \in Caller, NEW j \in Job, Enqueue(c, j)
  PROVE  Hidden
<1> USE KeyAssumption, JobAssumption
<1>1. TypeOK /\ Binding /\ Fresh
  BY DEF QInv, SInv, IInv
<1>2. PICK w \in Job : w = WorkerFor(JobKey[j], j)
  BY <1>1 DEF WorkerFor, TypeOK
<1>3. PICK r : r = IF worker[w].pc = "unborn"
                   THEN [worker[w] EXCEPT !.pc = "select"] ELSE worker[w]
  OBVIOUS
<1>4. worker[w] \in WorkerState
  BY <1>1 DEF TypeOK
<1>5. /\ r \in WorkerState /\ r.jobs = worker[w].jobs /\ r.cur = worker[w].cur
      /\ r.pc = IF worker[w].pc = "unborn" THEN "select" ELSE worker[w].pc
  BY <1>3, <1>4 DEF WorkerState, Pc
<1>6. /\ Become(w, r)
      /\ workers' = [workers EXCEPT ![JobKey[j]] = w]
      /\ target[j] = None /\ target' = [target EXCEPT ![j] = w]
      /\ sending[c] = None /\ sending' = [sending EXCEPT ![c] = j]
      /\ UNCHANGED reply
  BY <1>2, <1>3 DEF Enqueue
<1>7. /\ worker'[w] = r
      /\ \A v \in Job : v # w => worker'[v] = worker[v]
  BY <1>1, <1>5, <1>6, BecomeLemma
<1>8. Q(r) = Q(worker[w])
  BY <1>5 DEF Q, Closing
<1>9. \A v \in Job : Q(worker'[v]) = Q(worker[v])
  BY <1>7, <1>8
<1>10. workers[JobKey[j]] = None => Q(worker[w]) = <<>>
  <2> SUFFICES ASSUME workers[JobKey[j]] = None PROVE Q(worker[w]) = <<>>
    OBVIOUS
  <2>1. w = j /\ worker[w].pc = "unborn"
    BY <1>1, <1>2, <1>6 DEF WorkerFor, Fresh
  <2>2. worker[w].cur = None
    BY <2>1 DEF QInv, SInv, IInv, Sane, InHand
  <2>3. worker[w].jobs \in Seq(Job) /\ OwnedBy(w, worker[w])
    BY <1>4 DEF WorkerState, QInv, SInv
  <2>4. worker[w].jobs = <<>>
    <3> SUFFICES ASSUME worker[w].jobs # <<>> PROVE FALSE
      OBVIOUS
    <3>1. PICK i \in 1..Len(worker[w].jobs) : worker[w].jobs[i] \in Job
      BY <2>3, HeadTail
    <3>2. target[worker[w].jobs[i]] = w
      BY <2>3, <3>1 DEF OwnedBy
    <3>. QED
      BY <2>1, <3>1, <3>2 DEF QInv, Reached
  <2>. QED
    BY <2>1, <2>2, <2>4 DEF Q, Closing
<1>11. UNCHANGED AbstractQueue
  <2>1. AbstractQueue' =
          [k \in Key |-> IF workers'[k] = None THEN <<>> ELSE Q(worker'[workers'[k]])]
    BY DEF AbstractQueue, Q
  <2>2. workers'[JobKey[j]] = w /\ \A k \in Key : k # JobKey[j] => workers'[k] = workers[k]
    BY <1>1, <1>6 DEF TypeOK
  <2>3. workers[JobKey[j]] # None => workers[JobKey[j]] = w
    BY <1>2 DEF WorkerFor
  <2>4. \A k \in Key : workers[k] # None => workers[k] \in Job
    BY <1>1 DEF TypeOK
  <2>5. \A k \in Key : (IF workers'[k] = None THEN <<>> ELSE Q(worker'[workers'[k]]))
                         = (IF workers[k] = None THEN <<>> ELSE Q(worker[workers[k]]))
    BY <2>2, <2>3, <2>4, <1>9, <1>10
  <2>. QED
    BY <2>1, <2>5, QueueForm
<1>12. UNCHANGED AbstractLost
  <2>1. /\ target'[j] = w
        /\ \A i \in Job : i # j => target'[i] = target[i]
        /\ sending'[c] = j
        /\ \A d \in Caller : d # c => sending'[d] = sending[d]
    BY <1>1, <1>6 DEF TypeOK
  <2>2. BeingSent(j)' /\ \A i \in Job : i # j => (BeingSent(i)' <=> BeingSent(i))
    BY <2>1, <1>6 DEF BeingSent
  <2>3. \A v \in Job : worker'[v].pc \in Closing <=> worker[v].pc \in Closing
    BY <1>5, <1>7 DEF Closing
  <2>4. j \notin AbstractLost /\ j \notin AbstractLost'
    BY <2>2, <1>6 DEF AbstractLost
  <2>5. \A i \in Job : i # j => (i \in AbstractLost' <=> i \in AbstractLost)
    BY <2>1, <2>2, <2>3, <1>1, <1>6 DEF AbstractLost, TypeOK
  <2>. QED
    BY <2>4, <2>5 DEF AbstractLost
<1>. QED
  BY <1>6, <1>11, <1>12 DEF Hidden

\* When the goroutine has returned, its thread has no queue any more; it had
\* none since the idle branch.
LEMMA RemoveHidden ==
  ASSUME QInv, NEW w \in Job, Remove(w)
  PROVE  Hidden
<1> USE KeyAssumption, JobAssumption
<1>1. TypeOK /\ Binding
  BY DEF QInv, SInv, IInv
<1>2. PICK r : Quiet(w, r)
  BY RemoveQuiet
<1>3. /\ worker'[w] = r
      /\ \A u \in Job : u # w => worker'[u] = worker[u]
      /\ target' = target /\ sending' = sending /\ reply' = reply
      /\ \A j \in Job : BeingSent(j)' <=> BeingSent(j)
  BY <1>2, StepFacts DEF Quiet
<1>4. /\ worker[w].pc = "remove" /\ worker'[w].pc = "gone"
      /\ workers' = [workers EXCEPT ![JobKey[w]] = None]
  BY <1>1 DEF Remove, Become, TypeOK, WorkerState
<1>5. workers[JobKey[w]] = w /\ JobKey[w] \in Key
  BY <1>1, <1>4 DEF Binding, Live
<1>6. \A k \in Key : workers[k] # None => workers[k] \in Job /\ JobKey[workers[k]] = k
  BY <1>1 DEF TypeOK, Binding
<1>7. Q(worker[w]) = <<>>
  BY <1>4 DEF Q, Closing
<1>8. UNCHANGED AbstractQueue
  <2>1. AbstractQueue' =
          [k \in Key |-> IF workers'[k] = None THEN <<>> ELSE Q(worker'[workers'[k]])]
    BY DEF AbstractQueue, Q
  <2>2. workers'[JobKey[w]] = None /\ \A k \in Key : k # JobKey[w] => workers'[k] = workers[k]
    BY <1>1, <1>4 DEF TypeOK
  <2>3. \A k \in Key : (IF workers'[k] = None THEN <<>> ELSE Q(worker'[workers'[k]]))
                         = (IF workers[k] = None THEN <<>> ELSE Q(worker[workers[k]]))
    BY <2>2, <1>3, <1>5, <1>6, <1>7
  <2>. QED
    BY <2>1, <2>3, QueueForm
<1>9. UNCHANGED AbstractLost
  <2>1. \A v \in Job : worker'[v].pc \in Closing <=> worker[v].pc \in Closing
    BY <1>3, <1>4 DEF Closing
  <2>. QED
    BY <2>1, <1>1, <1>3 DEF AbstractLost, TypeOK
<1>. QED
  BY <1>3, <1>8, <1>9 DEF Hidden

LEMMA InitContract == Init => Contract!Init
<1> SUFFICES ASSUME Init PROVE Contract!Init
  OBVIOUS
<1>1. AbstractQueue = [k \in Key |-> <<>>]
  BY KeyAssumption DEF Init, AbstractQueue
<1>2. AbstractLost = {}
  BY DEF Init, AbstractLost
<1>. QED
  BY <1>1, <1>2 DEF Init, Contract!Init

LEMMA NextContract == QInv /\ [Next]_vars => [Contract!Next]_(Contract!vars)
<1> SUFFICES ASSUME QInv, [Next]_vars PROVE Contract!Next \/ UNCHANGED Contract!vars
  OBVIOUS
<1>1. Hidden => UNCHANGED Contract!vars
  BY DEF Hidden, Contract!vars
<1>2. ASSUME NEW w \in Job, \E r, v : Answering(w, r, v), UNCHANGED workers
      PROVE  Contract!Next
  <2>1. PICK v : /\ Contract!Answer(JobKey[w], v)
                 /\ JobKey[w] \in Key /\ v \in Job \cup {Failed}
    BY <1>2, AnsweringStep
  <2>. QED
    BY <2>1 DEF Contract!Next
<1>3. ASSUME NEW w \in Job, \E r : Quiet(w, r), UNCHANGED workers,
             worker'[w].pc \in Closing <=> worker[w].pc \in Closing
      PROVE  UNCHANGED Contract!vars
  BY <1>1, <1>3, QuietHidden
<1>4. TypeOK
  BY DEF QInv, SInv, IInv
<1>5. ASSUME NEW c \in Caller, NEW j \in Job, Enqueue(c, j) PROVE UNCHANGED Contract!vars
  BY <1>1, <1>5, EnqueueHidden
<1>6. ASSUME NEW c \in Caller, Send(c) PROVE Contract!Next
  BY <1>6, SendStep DEF Contract!Next
<1>7. ASSUME NEW w \in Job, TakeIdle(w) PROVE Contract!Next
  BY <1>7, TakeIdleStep DEF Contract!Next
<1>8. ASSUME NEW w \in Job, CloseProvider(w) \/ Cleanup(w) \/ Unregister(w)
      PROVE  UNCHANGED Contract!vars
  <2>1. /\ worker[w].pc \in Closing /\ worker'[w].pc \in Closing
        /\ UNCHANGED workers
    <3>1. CASE CloseProvider(w)
      BY <1>4, <3>1 DEF CloseProvider, Become, TypeOK, WorkerState, Closing
    <3>2. CASE Cleanup(w)
      BY <1>4, <3>2 DEF Cleanup, Become, TypeOK, WorkerState, Closing
    <3>3. CASE Unregister(w)
      BY <1>4, <3>3 DEF Unregister, Become, TypeOK, WorkerState, Closing
    <3>. QED BY <1>8, <3>1, <3>2, <3>3
  <2>. QED
    BY <2>1, <1>3, <1>8, CloseProviderQuiet, CleanupQuiet, UnregisterQuiet
<1>9. ASSUME NEW w \in Job, Remove(w) PROVE UNCHANGED Contract!vars
  BY <1>1, <1>9, RemoveHidden
<1>10. ASSUME NEW w \in Job, CreateOK(w) \/ HookOK(w) \/ StartOK(w) \/ ContextOK(w)
       PROVE  UNCHANGED Contract!vars
  <2>1. /\ worker[w].pc \notin Closing /\ worker'[w].pc \notin Closing
        /\ UNCHANGED workers
    <3>1. CASE CreateOK(w)
      BY <1>4, <3>1 DEF CreateOK, Become, TypeOK, WorkerState, Closing
    <3>2. CASE HookOK(w)
      BY <1>4, <3>2 DEF HookOK, Become, TypeOK, WorkerState, Closing
    <3>3. CASE StartOK(w)
      BY <1>4, <3>3 DEF StartOK, Become, TypeOK, WorkerState, Closing
    <3>4. CASE ContextOK(w)
      BY <1>4, <3>4 DEF ContextOK, Become, TypeOK, WorkerState, Closing
    <3>. QED BY <1>10, <3>1, <3>2, <3>3, <3>4
  <2>. QED
    BY <2>1, <1>3, <1>10, CreateOKQuiet, HookOKQuiet, StartOKQuiet, ContextOKQuiet
<1>11. ASSUME NEW w \in Job, TakeJob(w) PROVE UNCHANGED Contract!vars
  <2>1. PICK r : Taking(w, r)
    BY <1>11, TakeJobTaking
  <2>2. /\ worker[w].pc \notin Closing /\ worker'[w].pc \notin Closing
        /\ UNCHANGED workers
    BY <1>4, <1>11 DEF TakeJob, Become, TypeOK, WorkerState, Closing
  <2>. QED
    BY <2>1, <2>2, <1>1, TakingHidden
<1>12. ASSUME NEW w \in Job, \/ CreateFail(w) \/ HookFail(w) \/ StartFail(w)
                             \/ ContextFail(w) \/ PromptOK(w) \/ PromptFail(w)
       PROVE  Contract!Next
  <2>1. UNCHANGED workers
    BY <1>12 DEF CreateFail, HookFail, StartFail, ContextFail, PromptOK, PromptFail
  <2>. QED
    BY <2>1, <1>2, <1>12, CreateFailAnswering, HookFailAnswering, StartFailAnswering,
       ContextFailAnswering, PromptOKAnswering, PromptFailAnswering
<1>13. ASSUME UNCHANGED vars PROVE UNCHANGED Contract!vars
  BY <1>13 DEF vars, Contract!vars, AbstractQueue, AbstractLost, BeingSent
<1>. QED
  BY <1>5, <1>6, <1>7, <1>8, <1>9, <1>10, <1>11, <1>12, <1>13
     DEF Next, Idling, Hooking, Serving

\* Whatever the threads, messages and callers: messages of a thread are
\* answered in order, each at most once, with a failure, with the answer to
\* itself or to an earlier one of the thread that failed, and no message is
\* answered about twice; only a session's end loses any.
THEOREM ContractImplemented == Spec => ContractHolds
<1>1. Init => Contract!Init
  BY InitContract
<1>2. QInv /\ [Next]_vars => [Contract!Next]_(Contract!vars)
  BY NextContract
<1>. QED
  BY <1>1, <1>2, QueueInvariance, PTL DEF Spec, ContractHolds, Contract!Spec
=============================================================================
