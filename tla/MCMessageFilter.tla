--------------------------- MODULE MCMessageFilter ---------------------------
(* Messages for MessageFilter.                                              *)
EXTENDS MessageFilter, TLC

CONSTANTS top, reply, other, dm, deny, noise

Channel(chan, ts, root, mention) ==
  [chan |-> chan, ts |-> ts, root |-> root, user |-> "U1", im |-> FALSE,
   mention |-> mention, noise |-> FALSE, blank |-> FALSE]

\* A mention that opens a thread, an answer in that thread without one, and a
\* mention with the same ts in a channel that is not allowed.
FollowUp ==
  (top :> Channel("C1", 1, 1, TRUE)) @@
  (reply :> Channel("C1", 2, 1, FALSE)) @@
  (other :> Channel("C2", 1, 1, TRUE))

\* A mention in an allowed channel and a message with the same ts in a channel
\* that is not, a direct message of a user on the list and of one who is not, and a
\* service message.
Mixed ==
  (top :> Channel("C1", 1, 1, TRUE)) @@
  (other :> Channel("C2", 1, 1, FALSE)) @@
  (dm :> [Channel("D1", 1, 1, FALSE) EXCEPT !.im = TRUE]) @@
  (deny :> [Channel("D2", 1, 1, FALSE) EXCEPT !.im = TRUE, !.user = "U2"]) @@
  (noise :> [Channel("C1", 3, 1, TRUE) EXCEPT !.noise = TRUE])
=============================================================================
