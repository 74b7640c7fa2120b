--------------------------- MODULE MessageFilter ---------------------------
(***************************************************************************)
(* internal/messagefilter behind slackapp's single event goroutine: which  *)
(* of the events Slack delivers reach the scheduler. A message can arrive  *)
(* as a "message" event, as an "app_mention" event when it mentions the    *)
(* bot, as both in either order, and each of them any number of times.     *)
(***************************************************************************)
EXTENDS Naturals, Sequences

CONSTANTS
  Msg,              \* the messages of the workspace
  Info,             \* what is known of each: see MsgInfo
  AllowedDM,        \* slack.allowed_dm_user_ids
  AllowedChannels,  \* slack.allowed_channel_ids; empty allows every channel
  RequireMention,   \* slack.require_mention_in_channels, bot user id known
  TTL,              \* how long the deduper remembers a key
  MaxTime,          \* bound on the clock
  None

\* chan and ts identify a message in Slack; root is the ts of its thread.
\* noise stands for the checks made before deduplication (hidden, bot, self,
\* service subtypes), blank for a text that is empty once trimmed.
MsgInfo(i) ==
  /\ DOMAIN i = {"chan", "ts", "root", "user", "im", "mention", "noise", "blank"}
  /\ {i.im, i.mention, i.noise, i.blank} \subseteq BOOLEAN

ASSUME InfoAssumption ==
  /\ DOMAIN Info = Msg
  /\ \A m \in Msg : MsgInfo(Info[m])
  /\ \A m, n \in Msg : Info[m].chan = Info[n].chan =>
       /\ Info[m].ts = Info[n].ts => m = n
       /\ Info[m].im = Info[n].im
ASSUME TimeAssumption == TTL \in Nat /\ MaxTime \in Nat
ASSUME MentionAssumption == RequireMention \in BOOLEAN
ASSUME NoneAssumption == None \notin Nat /\ None \notin Msg

Variant == {"message", "app_mention"}
Time == 0..MaxTime

Thread(m) == <<Info[m].chan, Info[m].root>>
Threads == {Thread(m) : m \in Msg}

\* Keys of the deduper: "e:" event id, "c:" client message id, "m:" channel and ts.
EventKey(m, v) == <<"e", m, v>>
ClientKey(m) == <<"c", m>>
\* Faulty: messages of two channels may carry the same ts.
StampKey_NoChannel(m) == <<"m", Info[m].ts>>
StampKey(m) == <<"m", Info[m].chan, Info[m].ts>>

\* The order in which ShouldProcess tries them. An app_mention event carries
\* no client message id.
\* Faulty: without the key both kinds of event have in common.
Keys_NoStamp(m, v) ==
  IF v = "message" THEN <<EventKey(m, v), ClientKey(m)>> ELSE <<EventKey(m, v)>>
Keys(m, v) ==
  IF v = "message" THEN <<EventKey(m, v), ClientKey(m), StampKey(m)>>
  ELSE <<EventKey(m, v), StampKey(m)>>

\* What gets as far as deduplication; an app_mention event is only sent for a
\* message that mentions the bot.
Arrives(m, v) == ~Info[m].noise /\ (v = "app_mention" => Info[m].mention)

KeysOf(m, v) == IF Arrives(m, v) THEN {Keys(m, v)[i] : i \in 1..Len(Keys(m, v))} ELSE {}

DedupeKey == UNION {KeysOf(m, v) : m \in Msg, v \in Variant}

VARIABLES
  now,         \* the clock
  dedupe,      \* deduper.m
  bound,       \* the threads Scheduler.workers has an entry for
  judged,      \* when the access policy last decided on each message
  accepted,    \* the times each message was accepted, in order
  last,        \* the latest verdict, until the clock moves on
  dispatching \* the message the event goroutine is dispatching, if any

vars == <<now, dedupe, bound, judged, accepted, last, dispatching>>

NoVerdict == [msg |-> None, reason |-> "none", bound |-> FALSE]

Init ==
  /\ now = 0
  /\ dedupe = [k \in DedupeKey |-> None]
  /\ bound = {}
  /\ judged = [m \in Msg |-> None]
  /\ accepted = [m \in Msg |-> <<>>]
  /\ last = NoVerdict
  /\ dispatching = None

-----------------------------------------------------------------------------
\* deduper.seen drops what is older than the TTL before it looks.
\* Faulty: an entry is dropped when it reaches the TTL.
Known_BelowTTL(k) == dedupe[k] # None /\ now - dedupe[k] < TTL
Known(k) == dedupe[k] # None /\ now - dedupe[k] <= TTL

\* The event is a duplicate if one of its keys is remembered. The keys tried
\* before that one are remembered from now on, the others are not touched.
IsDuplicate(ks) == \E i \in 1..Len(ks) : Known(ks[i])

Recorded(ks) == {ks[i] : i \in {i \in 1..Len(ks) : \A h \in 1..i : ~Known(ks[h])}}

\* Faulty: an entry is stamped with the time it may go.
Remembered_Expiry(ks) ==
  LET new == Recorded(ks) IN
  [k \in DOMAIN dedupe |-> IF k \in new THEN now + TTL
                            ELSE IF Known(k) THEN dedupe[k] ELSE None]

Remembered(ks) ==
  LET new == Recorded(ks) IN
  [k \in DOMAIN dedupe |-> IF k \in new THEN now ELSE IF Known(k) THEN dedupe[k] ELSE None]

\* The access policy.
MentionMissing(m) == RequireMention /\ ~Info[m].mention
ChannelAllowed(m) == AllowedChannels = {} \/ Info[m].chan \in AllowedChannels
Bound(m) == Thread(m) \in bound

\* Faulty: the list of allowed channels only counts when a mention is missing.
Reason_AnyChannel(m) ==
  CASE Info[m].im /\ Info[m].user \in AllowedDM    -> "dm"
    [] Info[m].im /\ Info[m].user \notin AllowedDM -> "dm:not_allowed"
    [] ~Info[m].im /\ MentionMissing(m)            -> "channel:mention_required"
    [] ~Info[m].im /\ ~MentionMissing(m)           -> "channel"

Reason(m) ==
  LET i == Info[m]
      open == ChannelAllowed(m) \/ Bound(m)
  IN CASE i.im /\ i.user \in AllowedDM                   -> "dm"
       [] i.im /\ i.user \notin AllowedDM                -> "dm:not_allowed"
       [] ~i.im /\ ~open                                 -> "channel:not_allowed"
       [] ~i.im /\ open /\ MentionMissing(m)             -> "channel:mention_required"
       [] ~i.im /\ open /\ ~MentionMissing(m) /\ Bound(m)  -> "channel:bound_thread"
       [] ~i.im /\ open /\ ~MentionMissing(m) /\ ~Bound(m) -> "channel"

Accepting == {"dm", "channel:bound_thread", "channel"}
Rejecting == {"noise", "dedupe", "dm:not_allowed", "channel:not_allowed",
              "channel:mention_required"}

Verdict(m, r) == last' = [msg |-> m, reason |-> r, bound |-> Bound(m)]

\* One goroutine receives the events: the next waits for the dispatch.
DeliverNoise(m) ==
  /\ dispatching = None
  /\ Info[m].noise
  /\ Verdict(m, "noise")
  /\ UNCHANGED <<now, dedupe, bound, judged, accepted, dispatching>>

DeliverDuplicate(m, v) ==
  /\ dispatching = None
  /\ Arrives(m, v)
  /\ IsDuplicate(Keys(m, v))
  /\ dedupe' = Remembered(Keys(m, v))
  /\ Verdict(m, "dedupe")
  /\ UNCHANGED <<now, bound, judged, accepted, dispatching>>

\* An accepted message is dispatched, unless its text is blank.
DeliverFresh(m, v) ==
  /\ dispatching = None
  /\ Arrives(m, v)
  /\ ~IsDuplicate(Keys(m, v))
  /\ dedupe' = Remembered(Keys(m, v))
  /\ judged' = [judged EXCEPT ![m] = now]
  /\ Verdict(m, Reason(m))
  /\ IF Reason(m) \in Accepting
     THEN /\ accepted' = [accepted EXCEPT ![m] = Append(@, now)]
          /\ dispatching' = IF Info[m].blank THEN None ELSE m
     ELSE UNCHANGED <<accepted, dispatching>>
  /\ UNCHANGED <<now, bound>>

\* dispatch asks Slack about the channel and the thread and sets the status
\* before it enqueues: the session the verdict was about may have ended.
Enqueue ==
  /\ dispatching # None
  /\ bound' = bound \cup {Thread(dispatching)}
  /\ dispatching' = None
  /\ UNCHANGED <<now, dedupe, judged, accepted, last>>

\* The scheduler's worker for the thread has gone: see Scheduler!Remove.
SessionEnds(t) ==
  /\ t \in bound
  /\ bound' = bound \ {t}
  /\ UNCHANGED <<now, dedupe, judged, accepted, last, dispatching>>

Tick ==
  /\ now < MaxTime
  /\ now' = now + 1
  /\ last' = NoVerdict
  /\ UNCHANGED <<dedupe, bound, judged, accepted, dispatching>>

Next ==
  \/ Tick
  \/ Enqueue
  \/ \E t \in bound : SessionEnds(t)
  \/ \E m \in Msg : DeliverNoise(m)
  \/ \E m \in Msg, v \in Variant : DeliverDuplicate(m, v) \/ DeliverFresh(m, v)

Spec == Init /\ [][Next]_vars

-----------------------------------------------------------------------------
(* Properties.                                                              *)

\* Every variable has its type, and no entry of the deduper or of the
\* histories is from the future.
TypeOK ==
  /\ now \in Time
  /\ dedupe \in [DedupeKey -> 0..now \cup {None}]
  /\ bound \subseteq Threads
  /\ judged \in [Msg -> 0..now \cup {None}]
  /\ accepted \in [Msg -> Seq(0..now)]
  /\ last \in [msg : Msg \cup {None}, reason : Accepting \cup Rejecting \cup {"none"},
               bound : BOOLEAN]
  /\ dispatching \in Msg \cup {None}

\* However often and in whichever form Slack delivers a message, two of its
\* acceptances are more than the TTL apart.
AcceptedOncePerWindow ==
  \A m \in Msg : \A i \in 1..(Len(accepted[m]) - 1) :
    accepted[m][i + 1] - accepted[m][i] > TTL

\* No message is swallowed by the deduper: one called a duplicate has itself
\* been put before the access policy. That may be up to twice the TTL ago: the
\* event id of a duplicate is remembered from the duplicate on.
DuplicatesWereJudged ==
  last.reason = "dedupe" =>
    /\ judged[last.msg] # None
    /\ now - judged[last.msg] <= 2 * TTL

\* The policy, without the exception for bound threads, admits a message of t.
InPolicy(t) ==
  \E m \in Msg :
    /\ Thread(m) = t
    /\ IF Info[m].im THEN Info[m].user \in AllowedDM ELSE ChannelAllowed(m)

\* Whatever order threads are bound and released in, only threads of allowed
\* channels, and direct messages of allowed users, ever have a session: not
\* even a message let in because its thread was bound, and enqueued when that
\* session has gone, opens one anywhere else.
SessionsStayInPolicy == \A t \in bound : InPolicy(t)

\* "once a session exists, further messages in the thread need no new mention"
FollowUpsNeedNoMention == last.reason = "channel:mention_required" => ~last.bound
=============================================================================
