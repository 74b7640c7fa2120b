--------------------------- MODULE ThreadContract ---------------------------
(***************************************************************************)
(* What the scheduler promises about the messages of a Slack thread: they  *)
(* are answered one at a time, in the order they were handed over, each at *)
(* most once; an answer is about the message itself or about an earlier    *)
(* one of the thread that failed, and no message is answered about twice.  *)
(* When a session ends, what is still waiting in it is lost.               *)
(***************************************************************************)
EXTENDS Sequences, Naturals

CONSTANTS Key, Job, JobKey, None, Failed

VARIABLES
  queue,   \* the messages waiting or being served, per thread
  lost,    \* the messages nobody will ever answer
  reply    \* None, Failed, or the message the answer is about

vars == <<queue, lost, reply>>

InQueue(j) == \E i \in 1..Len(queue[JobKey[j]]) : queue[JobKey[j]][i] = j

New(j) == ~InQueue(j) /\ j \notin lost /\ reply[j] = None

Init ==
  /\ queue = [k \in Key |-> <<>>]
  /\ lost = {}
  /\ reply = [j \in Job |-> None]

Submit(j) ==
  /\ New(j)
  /\ queue' = [queue EXCEPT ![JobKey[j]] = Append(@, j)]
  /\ UNCHANGED <<lost, reply>>

SubmitTooLate(j) ==
  /\ New(j)
  /\ lost' = lost \cup {j}
  /\ UNCHANGED <<queue, reply>>

\* What the answer to j may be about.
Subjects(j) ==
  {j} \cup {m \in Job : JobKey[m] = JobKey[j] /\ reply[m] = Failed}

Answer(k, r) ==
  /\ queue[k] # <<>>
  /\ r = Failed \/ (r \in Subjects(Head(queue[k])) /\ \A j \in Job : reply[j] # r)
  /\ reply' = [reply EXCEPT ![Head(queue[k])] = r]
  /\ queue' = [queue EXCEPT ![k] = Tail(@)]
  /\ UNCHANGED lost

Abandon(k) ==
  /\ lost' = lost \cup {queue[k][i] : i \in 1..Len(queue[k])}
  /\ queue' = [queue EXCEPT ![k] = <<>>]
  /\ UNCHANGED reply

Next ==
  \/ \E j \in Job : Submit(j) \/ SubmitTooLate(j)
  \/ \E k \in Key : Abandon(k) \/ \E r \in Job \cup {Failed} : Answer(k, r)

Spec == Init /\ [][Next]_vars
=============================================================================
