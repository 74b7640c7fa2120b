----------------------------- MODULE MCSlackApp -----------------------------
(* Workloads for SlackApp.                                                  *)
EXTENDS SlackApp, TLC

CONSTANTS a1, a2, a3, b1, again, A, B

\* Only a1 is ever forgotten; the repeat is another message then.
Threads == a1 :> A @@ a2 :> A @@ a3 :> A @@ b1 :> B @@ again :> A
Sources == [m \in Msg |-> IF m = again THEN a1 ELSE m]

\* Each message sent once, the mentions as both kinds of event, and the
\* retried ones up to twice.
Tries(ms, mentions, retried) ==
  [e \in Envelope |->
     IF e[1] \in ms /\ e[2] = "message" THEN IF e[1] \in retried THEN 2 ELSE 1
     ELSE IF e[1] \in mentions THEN 1 ELSE 0]

\* One turn with overlapping tools; two turns, the notifications of the first
\* read as late as they may be.
Overlap == [tries |-> Tries({a1}, {}, {}), items |-> {a1} \X Item, restarts |-> 0]
TwoTurns == [tries |-> Tries({a1, a2}, {}, {}), items |-> {a1, a2} \X {"shell"}, restarts |-> 0]

\* A thread behind a blocked one.
Blocked == [tries |-> Tries({a1, a2, b1}, {}, {}), items |-> {}, restarts |-> 0]

\* Two kinds of event, the second so late that it may be a message again,
\* behind a full channel; enough messages for a worker that leaves to take the
\* loop with it.
Repeated == [tries |-> Tries({a1, a2, a3}, {a1}, {}), items |-> {}, restarts |-> 0]

\* Lost acknowledgements, and a restart.
Restarted == [tries |-> Tries({a1, a2}, {}, {a1}), items |-> {<<a1, "shell">>}, restarts |-> 1]

AllWorkloads == {Overlap, TwoTurns, Blocked, Repeated, Restarted}
=============================================================================
